-------------------------- MODULE LogApplierLemmas --------------------------
(***************************************************************************)
(* Lemmas for the proofs about the log applier: sequences and least        *)
(* elements, Inv is kept by every step of the master and of the applier,   *)
(* what has been copied, the steps of the main loop on a plain log, and    *)
(* the shape of the log, which every step of the master keeps.             *)
(***************************************************************************)
EXTENDS LogApplierInvariant, TLAPS

\* An element is appended to a sequence.
LEMMA Appended ==
  ASSUME NEW S, NEW s \in Seq(S), NEW e \in S
  PROVE  /\ Append(s, e) \in Seq(S) /\ Len(Append(s, e)) = Len(s) + 1
         /\ \A i \in 1 .. Len(s) : Append(s, e)[i] = s[i]
         /\ Append(s, e)[Len(s) + 1] = e
OBVIOUS

\* A sequence is appended to a sequence.
LEMMA Joined ==
  ASSUME NEW S, NEW s \in Seq(S), NEW r \in Seq(S)
  PROVE  /\ s \o r \in Seq(S) /\ Len(s \o r) = Len(s) + Len(r)
         /\ \A i \in 1 .. Len(s) + Len(r) :
              (s \o r)[i] = IF i <= Len(s) THEN s[i] ELSE r[i - Len(s)]
OBVIOUS

\* A single element is appended to a sequence as a sequence.
LEMMA OneJoined ==
  ASSUME NEW S, NEW s \in Seq(S), NEW u \in S
  PROVE  /\ s \o <<u>> \in Seq(S) /\ Len(s \o <<u>>) = Len(s) + 1
         /\ \A i \in 1 .. Len(s) : (s \o <<u>>)[i] = s[i]
         /\ (s \o <<u>>)[Len(s) + 1] = u
OBVIOUS

\* A run of one element and a last one are appended to a sequence.
LEMMA RunAppended ==
  ASSUME NEW S, NEW s \in Seq(S), NEW n \in Nat, NEW r \in S, NEW u \in S,
         NEW z, z = s \o [i \in 1 .. n |-> r] \o <<u>>
  PROVE  /\ z \in Seq(S) /\ Len(z) = Len(s) + n + 1
         /\ \A i \in 1 .. Len(s) : z[i] = s[i]
         /\ \A i \in Len(s) + 1 .. Len(s) + n : z[i] = r
         /\ z[Len(s) + n + 1] = u
<1> DEFINE run == [i \in 1 .. n |-> r]
<1>1. run \in Seq(S) /\ Len(run) = n /\ \A i \in 1 .. n : run[i] = r
  OBVIOUS
<1>2. PICK q : q = s \o run
  BY Zenon
<1>3. z = q \o <<u>>
  BY Zenon, <1>2
<1> HIDE DEF run
<1>4. /\ q \in Seq(S) /\ Len(q) = Len(s) + n
      /\ \A i \in 1 .. Len(s) + n : q[i] = IF i <= Len(s) THEN s[i] ELSE run[i - Len(s)]
  BY Zenon, <1>1, <1>2, Joined
<1>5. PICK k \in Nat, l \in Nat : k = Len(s) /\ l = Len(q)
  BY <1>4
<1>6. /\ z \in Seq(S) /\ Len(z) = l + 1 /\ z[l + 1] = u
      /\ \A i \in 1 .. l : z[i] = q[i]
  <2>1. /\ q \o <<u>> \in Seq(S) /\ Len(q \o <<u>>) = Len(q) + 1
        /\ \A i \in 1 .. Len(q) : (q \o <<u>>)[i] = q[i]
        /\ (q \o <<u>>)[Len(q) + 1] = u
    <3>1. q \in Seq(S)
      BY Zenon, <1>4
    <3> QED BY <3>1, OneJoined
  <2> QED BY Zenon, <1>3, <1>5, <2>1
<1>7. l = k + n /\ \A i \in 1 .. k : z[i] = s[i]
  BY <1>4, <1>5, <1>6
<1>8. ASSUME NEW i \in k + 1 .. k + n PROVE z[i] = r
  <2>1. i \in 1 .. l /\ i \in 1 .. Len(s) + n /\ ~(i <= Len(s)) /\ i - Len(s) \in 1 .. n
    BY <1>5, <1>7
  <2> QED BY Zenon, <1>1, <1>4, <1>6, <2>1
<1> QED BY <1>5, <1>6, <1>7, <1>8

\* A sequence is cut.
LEMMA CutAt ==
  ASSUME NEW S, NEW s, NEW k \in Nat, \A i \in 1 .. k : s[i] \in S
  PROVE  /\ SubSeq(s, 1, k) \in Seq(S) /\ Len(SubSeq(s, 1, k)) = k
         /\ \A i \in 1 .. k : SubSeq(s, 1, k)[i] = s[i]
OBVIOUS

\* Nothing is appended.
LEMMA JoinedNone ==
  ASSUME NEW S, NEW s \in Seq(S)
  PROVE  s \o << >> = s
OBVIOUS

\* An element is appended to the second of two sequences of addresses.
LEMMA AppendedLast ==
  ASSUME NEW s \in Seq(Nat), NEW r \in Seq(Nat), NEW e \in Nat
  PROVE  Append(s \o r, e) = s \o Append(r, e)
OBVIOUS

-----------------------------------------------------------------------------
(* The CHOOSEs that pick an oldest element.                                *)

(* First returns the least element of a set of LSAs. *)
LEMMA FirstIsLeast ==
  ASSUME SetFacts, NEW S, S \subseteq Nat, S # {}
  PROVE  First(S) \in S /\ \A j \in S : First(S) <= j
<1>1. PICK x \in S : \A y \in S : x <= y
  BY Zenon DEF SetFacts
<1> QED
  BY Zenon, <1>1 DEF First

(* Commit, the head of a non-empty commit list, is one of its entries. *)
LEMMA CommitInList ==
  ASSUME SetFacts, commit_list \subseteq LA_COMMIT, commit_list # {}
  PROVE  Commit \in commit_list
<1> DEFINE S == {c.log_lsa : c \in commit_list}
<1>1. S \subseteq Nat /\ S # {}
  BY Zenon DEF LA_COMMIT, Lsa
<1>2. PICK c \in commit_list : c.log_lsa = First(S)
  BY Zenon, <1>1, FirstIsLeast
<1>3. \A d \in commit_list : c.log_lsa <= d.log_lsa
  BY Zenon, <1>1, <1>2, FirstIsLeast
<1> QED
  BY Zenon, <1>3 DEF Commit

-----------------------------------------------------------------------------
(* What the invariants say of types.                                       *)

(* Every record appended for a transaction belongs to it. *)
LEMMA RecOwned ==
  ASSUME TypeOK, NEW t \in Tran, NEW type \in LogType \ SystemType
  PROVE  Rec(type, t) \in OwnedRec
BY Zenon DEF TypeOK, MasterTypeOK, Rec, OwnedRec, LogRec

(* The numbers the comparisons of the proofs are about. *)
LEMMA InvTypes ==
  ASSUME Inv
  PROVE  /\ row.required_lsa \in Nat /\ final_lsa \in Nat /\ hdr.eof_lsa \in Nat
         /\ eof \in Nat /\ Len(log) \in Nat /\ eof <= Len(log)
         /\ \A t \in Tran : repl_lists[t].start_lsa \in Nat
BY DEF Inv, TypeOK, MasterTypeOK, PositionTypeOK, ListTypeOK, DbTypeOK, LogHeader, ApplyInfo,
       LA_APPLY, Lsa

(* The record at final_lsa, and the lists once it has opened one. *)
LEMMA RecordOwned ==
  ASSUME Inv, pc = "read", final_lsa <= hdr.eof_lsa
  PROVE  Record \in OwnedRec
<1>1. final_lsa \in 1..Len(log)
  BY InvTypes DEF Inv, ReaderInv, RequiredInv
<1> QED
  BY <1>1 DEF Inv, ReaderInv, Record

(* The values a step finds. *)
LEMMA PositionTypes ==
  ASSUME Inv
  PROVE  /\ hdr \in LogHeader /\ final_lsa \in Nat /\ committed_lsa \in Nat
         /\ committed_rep_lsa \in Nat /\ item \in Nat
         /\ total_repl_items \in 0..(LA_MAX_REPL_ITEMS - 1)
BY Zenon DEF Inv, TypeOK, PositionTypeOK, Lsa

(* The next record is on this page or on the next one. *)
LEMMA AdvancePc ==
  ASSUME Advance
  PROVE  final_lsa' = final_lsa + 1 /\ pc' \in {"page", "read"}
BY Zenon DEF Advance

(* la_find_required_lsa is a lower bound of the open lists, and not smaller *)
(* than any other lower bound of them and of final_lsa.                     *)
LEMMA RequiredLsa ==
  ASSUME SetFacts, NEW lists \in [Tran -> LA_APPLY], final_lsa \in Nat, NEW low \in Nat,
         low <= final_lsa, StartIn(lists, low, final_lsa)
  PROVE  /\ la_find_required_lsa(lists) \in Nat
         /\ low <= la_find_required_lsa(lists)
         /\ la_find_required_lsa(lists) <= final_lsa
         /\ StartIn(lists, la_find_required_lsa(lists), final_lsa)
<1> DEFINE Starts == {lists[t].start_lsa : t \in {u \in Tran : lists[u].used}}
<1>1. Starts \subseteq Nat
  BY Zenon DEF LA_APPLY, Lsa
<1>2. la_find_required_lsa(lists) = IF Starts = {} THEN final_lsa ELSE First(Starts)
  BY Zenon DEF la_find_required_lsa
<1>3. \A t \in Tran : lists[t].used => lists[t].start_lsa \in Starts
  BY Zenon
<1>4. \A s \in Starts : low <= s /\ s <= final_lsa
  BY Zenon DEF StartIn
<1>5. CASE Starts = {}
  <2>1. la_find_required_lsa(lists) = final_lsa
    BY Zenon, <1>2, <1>5
  <2>2. \A t \in Tran : ~lists[t].used
    BY Zenon, <1>3, <1>5
  <2> QED
    BY <2>1, <2>2 DEF StartIn
<1>6. CASE Starts # {}
  <2>1. First(Starts) \in Starts /\ \A s \in Starts : First(Starts) <= s
    BY Zenon, <1>1, <1>6, FirstIsLeast
  <2>2. la_find_required_lsa(lists) = First(Starts)
    BY Zenon, <1>2, <1>6
  <2> HIDE DEF Starts
  <2> QED
    BY Zenon, <1>1, <1>3, <1>4, <2>1, <2>2 DEF StartIn
<1> QED
  BY Zenon, <1>5, <1>6

(* The head of the list, and the list of its transaction. *)
LEMMA CommitTyped ==
  ASSUME SetFacts, Inv, commit_list # {}
  PROVE  /\ Commit \in commit_list /\ Commit.tranid \in Tran /\ Commit.log_lsa \in Nat
         /\ repl_lists[Commit.tranid] \in LA_APPLY
<1>1. Commit \in commit_list
  BY Zenon, CommitInList DEF Inv, TypeOK, ListTypeOK
<1> QED
  BY Zenon, <1>1 DEF Inv, TypeOK, ListTypeOK, LA_COMMIT, Lsa

(* la_get_next_repl_item returns an address, or 0 at the end. *)
LEMMA NextItemTyped ==
  ASSUME SetFacts, Inv, commit_list # {}
  PROVE  NextItem \in Nat
<1> DEFINE t == Commit.tranid
           apply == repl_lists[t]
           InLog == {j \in (item + 1)..apply.last_lsa :
                      /\ log[j].trid = t /\ log[j].type = "REPLICATION"
                      /\ \A k \in (item + 1)..j :
                           log[k].trid = t => log[k].type \notin {"COMMIT", "ABORT"}}
           Left == IF apply.is_long_trans THEN InLog ELSE {j \in apply.items : j > item}
<1>1. apply \in LA_APPLY
  BY Zenon, CommitTyped
<1>2. item \in Nat /\ apply.last_lsa \in Nat /\ apply.items \subseteq Nat
  BY Zenon, <1>1 DEF Inv, TypeOK, PositionTypeOK, LA_APPLY, Lsa
<1>3. InLog \subseteq Nat
  BY SMTT(60), <1>2
<1>4. Left \subseteq Nat
  BY SMTT(60), <1>2, <1>3
<1>5. NextItem = IF Left = {} THEN 0 ELSE First(Left)
  BY Zenon DEF NextItem, la_get_next_repl_item
<1> HIDE DEF Left
<1> QED
  BY ZenonT(40), <1>4, <1>5, FirstIsLeast

\* The types that the proofs below need.
LEMMA ListTypes ==
  ASSUME Inv
  PROVE  /\ final_lsa \in Nat /\ eof \in Nat /\ Len(log) \in Nat /\ eof <= Len(log)
         /\ ReadTo \in Nat /\ committed_lsa \in Nat
         /\ repl_lists \in [Tran -> LA_APPLY] /\ commit_list \subseteq LA_COMMIT
BY InvTypes, PositionTypes DEF Inv, TypeOK, ListTypeOK, ReadTo

\* The record at the read position.
LEMMA AtRecord ==
  ASSUME Inv, pc = "read", final_lsa <= hdr.eof_lsa
  PROVE  /\ final_lsa \in 1 .. eof /\ Record = log[final_lsa] /\ Record \in OwnedRec
         /\ final_lsa + 1 <= eof + 1 /\ ~Applying /\ ReadTo = final_lsa
<1>1. PICK f \in Nat, h \in Nat, e \in Nat : f = final_lsa /\ h = hdr.eof_lsa /\ e = eof
  BY Zenon, InvTypes
<1>2. h <= e /\ 1 <= f /\ f <= h
  BY <1>1, InvTypes DEF Inv, ReaderInv, RequiredInv
<1>3. f \in 1 .. e /\ f + 1 <= e + 1
  BY <1>2
<1> QED BY Zenon, <1>1, <1>3, RecordOwned DEF Record, Applying, ReadTo

\* Reading on to the next record.
LEMMA AdvanceTo ==
  ASSUME Inv, Advance
  PROVE  /\ ReadTo' = final_lsa + 1 /\ ~Applying' /\ pc' # "down" /\ LoopInv'
<1>1. final_lsa' = final_lsa + 1 /\ pc' \in {"page", "read"}
  BY Zenon, AdvancePc
<1> QED BY Zenon, <1>1 DEF ReadTo, Applying, LoopInv

\* The head of the commit list is its oldest entry.
LEMMA CommitOldest ==
  ASSUME SetFacts, Inv, commit_list # {}
  PROVE  /\ Commit \in commit_list
         /\ \A d \in commit_list : Commit.log_lsa <= d.log_lsa
<1> DEFINE S == {c.log_lsa : c \in commit_list}
<1>1. S \subseteq Nat /\ S # {}
  BY ListTypes DEF LA_COMMIT, Lsa
<1>2. PICK c \in commit_list : c.log_lsa = First(S)
  BY Zenon, <1>1, FirstIsLeast
<1>3. \A d \in commit_list : c.log_lsa <= d.log_lsa
  BY Zenon, <1>1, <1>2, FirstIsLeast
<1> QED
  BY Zenon, <1>3 DEF Commit

\* What la_get_next_repl_item finds is an item of the transaction.
LEMMA NextIsItem ==
  ASSUME SetFacts, Inv, ItemsOK(repl_lists), commit_list # {}, NextItem # 0
  PROVE  IsItem(NextItem, Commit.tranid)
<1> DEFINE t == Commit.tranid
           apply == repl_lists[t]
           InLog == {j \in (item + 1)..apply.last_lsa :
                      /\ log[j].trid = t /\ log[j].type = "REPLICATION"
                      /\ \A k \in (item + 1)..j :
                           log[k].trid = t => log[k].type \notin {"COMMIT", "ABORT"}}
           Left == IF apply.is_long_trans THEN InLog ELSE {j \in apply.items : j > item}
<1>1. apply \in LA_APPLY /\ t \in Tran
  BY Zenon, CommitTyped
<1>2. PICK it \in Nat, last \in Nat, e \in Nat :
        it = item /\ last = apply.last_lsa /\ e = eof /\ last <= e
  BY Zenon, <1>1, PositionTypes, ListTypes DEF LA_APPLY, Lsa, ItemsOK
<1>3. \A i \in apply.items : IsItem(i, t)
  BY Zenon, <1>1 DEF ItemsOK
<1>4. ASSUME NEW j \in InLog PROVE IsItem(j, t)
  <2>1. j \in it + 1 .. last
    BY Zenon, <1>2
  <2>2. j \in 1 .. e
    BY <1>2, <2>1
  <2> QED BY Zenon, <1>2, <2>2 DEF IsItem
<1>5. \A j \in Left : IsItem(j, t)
  BY Zenon, <1>3, <1>4
<1>6. Left \subseteq Nat
  <2> HIDE DEF Left
  <2>1. \A j \in 1 .. e : j \in Nat
    BY <1>2
  <2>2. \A j \in Left : j \in 1 .. e
    BY Zenon, <1>2, <1>5 DEF IsItem
  <2> QED BY Zenon, <2>1, <2>2
<1>7. NextItem = IF Left = {} THEN 0 ELSE First(Left)
  BY Zenon DEF NextItem, la_get_next_repl_item
<1> HIDE DEF Left
<1>8. First(Left) \in Left
  BY Zenon, <1>6, <1>7, FirstIsLeast
<1> QED BY Zenon, <1>5, <1>7, <1>8

-----------------------------------------------------------------------------
(* The master.                                                             *)

(* The system's records are records of the log. *)
LEMMA SystemRecOwned ==
  ASSUME TypeOK, NEW type \in SystemType
  PROVE  Rec(type, LOG_SYSTEM_TRANID) \in OwnedRec
BY Zenon DEF TypeOK, MasterTypeOK, Rec, OwnedRec, LogRec, SystemType, LogType

(* What a step of the master preserves. *)
MasterKeeps ==
  /\ log' \in Seq(OwnedRec) /\ eof' \in 0..Len(log') /\ eof <= eof'
  /\ tstate' \in [Tran -> TranState] /\ srv' \in ServerState

(* A transaction's appends only extend the log with records of its own. *)
LEMMA TransactionStep ==
  ASSUME Inv, NEW t \in Tran,
         \/ log_append_undoredo(t) \/ log_append_repl_info(t)
         \/ log_complete_system_op(t) \/ log_complete_commit(t) \/ log_abort(t)
         \/ log_append_repl_info_and_unlock_log(t)
  PROVE  MasterKeeps
<1> USE DEF Inv
<1>1. /\ log \in Seq(OwnedRec) /\ eof \in 0..Len(log) /\ Len(log) \in Nat
      /\ tstate \in [Tran -> TranState] /\ srv \in ServerState
  BY DEF Inv, TypeOK, MasterTypeOK, ReaderInv
<1>2. \A type \in LogType \ SystemType : Rec(type, t) \in OwnedRec
  BY Zenon, RecOwned
<1>3. \A r \in OwnedRec : /\ Append(log, r) \in Seq(OwnedRec)
                          /\ Len(Append(log, r)) = Len(log) + 1
  BY Zenon, <1>1, Appended
<1>4. CASE \/ log_append_undoredo(t) \/ log_append_repl_info(t)
           \/ log_complete_system_op(t) \/ log_complete_commit(t) \/ log_abort(t)
  BY <1>1, <1>2, <1>3, <1>4
     DEF MasterKeeps, log_append_undoredo, log_append_repl_info, log_complete_system_op,
         log_complete_commit, log_abort, TranState, LogType, SystemType
<1>5. CASE log_append_repl_info_and_unlock_log(t)
  <2>1. PICK n \in 0..MaxItems :
          log' = log \o [i \in 1..n |-> Rec("REPLICATION", t)] \o <<Rec("UNLOCK_COMMIT", t)>>
    BY Zenon, <1>5 DEF log_append_repl_info_and_unlock_log
  <2> DEFINE items == [i \in 1..n |-> Rec("REPLICATION", t)]
             last == <<Rec("UNLOCK_COMMIT", t)>>
  <2>2. items \in Seq(OwnedRec) /\ last \in Seq(OwnedRec)
    BY <1>2, ReplLogAssumption DEF LogType, SystemType
  <2>3. /\ log \o items \in Seq(OwnedRec)
        /\ Len(log \o items) = Len(log) + Len(items) /\ Len(items) \in Nat
    BY <1>1, <2>2, Joined
  <2>4. /\ log \o items \o last \in Seq(OwnedRec)
        /\ Len(log \o items \o last) = Len(log \o items) + Len(last) /\ Len(last) \in Nat
    BY Zenon, <2>2, <2>3, Joined
  <2>5. log' = log \o items \o last
    BY Zenon, <2>1
  <2> HIDE DEF items, last
  <2>6. log' \in Seq(OwnedRec) /\ Len(log') \in Nat /\ Len(log) <= Len(log')
    BY <1>1, <2>3, <2>4, <2>5
  <2>7. /\ tstate' \in [Tran -> TranState] /\ eof' = eof /\ srv' = srv
    BY Zenon, <1>1, <1>5 DEF log_append_repl_info_and_unlock_log, TranState
  <2> QED
    BY <1>1, <2>6, <2>7 DEF MasterKeeps
<1> QED
  BY Zenon, <1>4, <1>5

(* A crash keeps the copied part of the log. *)
LEMMA CrashStep ==
  ASSUME Inv, MasterCrash
  PROVE  MasterKeeps
<1>1. log \in Seq(OwnedRec) /\ eof \in 0..Len(log) /\ Len(log) \in Nat
  BY DEF Inv, TypeOK, MasterTypeOK, ReaderInv
<1>2. PICK k \in eof..Len(log) :
        /\ log' = SubSeq(log, 1, k)
        /\ tstate' \in [Tran -> TranState]
  BY Zenon DEF MasterCrash, TranState
<1>3. \A i \in 1..k : log[i] \in OwnedRec
  BY <1>1
<1>4. log' \in Seq(OwnedRec) /\ Len(log') = k
  BY <1>1, <1>2, <1>3, CutAt
<1>5. eof' = eof /\ srv' \in ServerState
  BY Zenon DEF MasterCrash, ServerState
<1> QED
  BY <1>1, <1>2, <1>4, <1>5 DEF MasterKeeps

(* log_recovery extends what is left of the log. *)
LEMMA RecoveryStep ==
  ASSUME SetFacts, Inv, log_recovery
  PROVE  MasterKeeps
<1> DEFINE Losers == {t \in Tran : Loser(t)}
           dummy == Rec("DUMMY_CRASH_RECOVERY", LOG_SYSTEM_TRANID)
<1>1. /\ log \in Seq(OwnedRec) /\ eof \in 0..Len(log) /\ Len(log) \in Nat
      /\ tstate \in [Tran -> TranState] /\ TypeOK
  BY DEF Inv, TypeOK, MasterTypeOK, ReaderInv
<1>2. Cardinality(Losers) \in Nat
  BY Zenon DEF SetFacts
<1>3. PICK f \in [1..Cardinality(Losers) -> Losers] :
        /\ log' = Append(log, dummy) \o [i \in DOMAIN f |-> Rec("ABORT", f[i])]
        /\ eof' = Len(log')
  BY Zenon DEF log_recovery
<1> DEFINE aborts == [i \in DOMAIN f |-> Rec("ABORT", f[i])]
<1>4. aborts \in Seq(OwnedRec)
  <2>1. \A i \in DOMAIN f : Rec("ABORT", f[i]) \in OwnedRec
    BY Zenon, <1>1, RecOwned DEF LogType, SystemType
  <2> QED
    BY <1>2, <2>1
<1>5. dummy \in OwnedRec
  BY Zenon, <1>1, SystemRecOwned DEF SystemType
<1> HIDE DEF dummy
<1>6. Append(log, dummy) \in Seq(OwnedRec) /\ Len(Append(log, dummy)) = Len(log) + 1
  BY Zenon, <1>1, <1>5, Appended
<1>7. log' = Append(log, dummy) \o aborts
  BY Zenon, <1>3
<1> HIDE DEF aborts
<1>8. log' \in Seq(OwnedRec) /\ Len(log') = Len(log) + 1 + Len(aborts) /\ Len(aborts) \in Nat
  BY <1>1, <1>4, <1>6, <1>7, Joined
<1>9. tstate' \in [Tran -> TranState] /\ srv' \in ServerState
  BY Zenon, <1>1 DEF log_recovery, TranState, ServerState
<1>10. eof' = Len(log')
  BY Zenon, <1>3
<1> QED
  BY <1>1, <1>8, <1>9, <1>10 DEF MasterKeeps

(* A role change or a flush extends the log or its copied part. *)
LEMMA RoleStep ==
  ASSUME Inv, css_transit_ha_server_state \/ logpb_flush_all_append_pages
  PROVE  MasterKeeps
<1>1. /\ log \in Seq(OwnedRec) /\ eof \in 0..Len(log) /\ Len(log) \in Nat
      /\ tstate \in [Tran -> TranState] /\ srv \in ServerState /\ TypeOK
  BY DEF Inv, TypeOK, MasterTypeOK, ReaderInv
<1>2. CASE logpb_flush_all_append_pages
  BY <1>1, <1>2 DEF MasterKeeps, logpb_flush_all_append_pages
<1>3. CASE css_transit_ha_server_state
  <2> DEFINE dummy == Rec("DUMMY_HA_SERVER_STATE", LOG_SYSTEM_TRANID)
  <2>1. PICK next \in ServerState :
          /\ srv' = next /\ eof' = Len(log')
          /\ log' = Append(log, [dummy EXCEPT !.state = next])
    BY Zenon, <1>3 DEF css_transit_ha_server_state
  <2>2. dummy \in OwnedRec
    BY Zenon, <1>1, SystemRecOwned DEF SystemType
  <2> HIDE DEF dummy
  <2>3. [dummy EXCEPT !.state = next] \in OwnedRec
    BY Zenon, <2>2 DEF OwnedRec, LogRec
  <2>4. log' \in Seq(OwnedRec) /\ Len(log') = Len(log) + 1
    BY Zenon, <1>1, <2>1, <2>3, Appended
  <2>5. tstate' = tstate
    BY Zenon, <1>3 DEF css_transit_ha_server_state
  <2> QED
    BY <1>1, <2>1, <2>4, <2>5 DEF MasterKeeps
<1> QED
  BY Zenon, <1>2, <1>3

(* A step of the master leaves the applier alone and keeps the log sound. *)
LEMMA MasterStep ==
  ASSUME SetFacts, Inv, MasterNext, UNCHANGED applierVars
  PROVE  Inv' /\ row' = row
<1>1. MasterKeeps
  BY Zenon, TransactionStep, CrashStep, RecoveryStep, RoleStep DEF MasterNext
<1>2. MasterTypeOK' /\ log' \in Seq(OwnedRec) /\ eof <= eof'
  BY <1>1 DEF MasterKeeps, MasterTypeOK, OwnedRec
<1>3. hdr.eof_lsa \in Nat /\ eof \in Nat /\ eof' \in Nat
  BY <1>1 DEF MasterKeeps, Inv, TypeOK, MasterTypeOK, PositionTypeOK, LogHeader, Lsa
<1>4. ReaderInv'
  BY <1>2, <1>3 DEF Inv, ReaderInv, applierVars
<1>5. PositionTypeOK' /\ ListTypeOK' /\ ModeTypeOK' /\ DbTypeOK'
  BY Zenon DEF Inv, TypeOK, PositionTypeOK, ListTypeOK, ModeTypeOK, DbTypeOK, applierVars
<1>6. RequiredInv' /\ row' = row
  BY Zenon DEF Inv, RequiredInv, StartIn, applierVars
<1> QED
  BY Zenon, <1>2, <1>4, <1>5, <1>6 DEF Inv, TypeOK

-----------------------------------------------------------------------------
(* What the applier saves.                                                 *)

(* A fault of the slave is counted. *)
LEMMA FaultCounted ==
  ASSUME TypeOK, NEW f \in Fault, FaultHappens(f)
  PROVE  faults' \in [Fault -> Nat]
BY DEF TypeOK, DbTypeOK, FaultHappens

(* The database part of the type invariant after a step. *)
DbKeeps(lists, high) ==
  /\ row' \in ApplyInfo /\ slave' \in Seq(Lsa) /\ pending' \in Seq(Lsa)
  /\ rejected' \subseteq Lsa /\ faults' \in [Fault -> Nat]
  /\ row.required_lsa <= row'.required_lsa /\ row'.required_lsa <= high
  /\ StartIn(lists, row'.required_lsa, high)

(* la_log_commit saves a required_lsa that is not behind the last one. *)
LEMMA LogCommit ==
  ASSUME SetFacts, TypeOK, NEW lists \in [Tran -> LA_APPLY], NEW lsa \in Nat,
         row.required_lsa <= final_lsa, StartIn(lists, row.required_lsa, final_lsa),
         la_log_commit(lists, lsa)
  PROVE  DbKeeps(lists, final_lsa)
<1>1. /\ final_lsa \in Nat /\ committed_rep_lsa \in Nat /\ last_committed_lsa \in Nat
      /\ last_committed_rep_lsa \in Nat /\ row \in ApplyInfo /\ row.required_lsa \in Nat
      /\ slave \in Seq(Nat) /\ pending \in Seq(Nat) /\ rejected \subseteq Nat
      /\ faults \in [Fault -> Nat]
  BY Zenon DEF TypeOK, PositionTypeOK, DbTypeOK, Lsa, ApplyInfo
<1>2. CASE FaultHappens("update") /\ UNCHANGED <<row, slave, pending, rejected>>
  BY SMTT(30), <1>1, <1>2, FaultCounted DEF DbKeeps, Lsa, Fault, StartIn
<1>3. CASE /\ row' = [committed_lsa     |-> MaxLsa(lsa, last_committed_lsa),
                      committed_rep_lsa |-> MaxLsa(committed_rep_lsa, last_committed_rep_lsa),
                      final_lsa         |-> final_lsa,
                      required_lsa      |-> la_find_required_lsa(lists)]
           /\ slave' = slave \o pending
           /\ pending' = <<>>
           /\ UNCHANGED <<rejected, faults>>
  <2>1. /\ la_find_required_lsa(lists) \in Nat
        /\ row.required_lsa <= la_find_required_lsa(lists)
        /\ la_find_required_lsa(lists) <= final_lsa
        /\ StartIn(lists, la_find_required_lsa(lists), final_lsa)
    BY ZenonT(40), <1>1, RequiredLsa
  <2>2. row' \in ApplyInfo /\ row'.required_lsa = la_find_required_lsa(lists)
    BY Zenon, <1>1, <1>3, <2>1 DEF ApplyInfo, MaxLsa, Lsa
  <2>3. slave' \in Seq(Nat) /\ pending' \in Seq(Nat)
    BY <1>1, <1>3
  <2> QED
    BY Zenon, <1>1, <1>3, <2>1, <2>2, <2>3 DEF DbKeeps, Lsa
<1> QED
  BY Zenon, <1>2, <1>3 DEF la_log_commit

-----------------------------------------------------------------------------
(* The applier, and la_log_record_process.                                 *)

(* What every step of the applier is shown to preserve. *)
Keeps == Inv' /\ row.required_lsa <= row'.required_lsa

(* A step of the applier leaves the master alone. *)
LEMMA MasterQuiet ==
  ASSUME Inv, UNCHANGED masterVars
  PROVE  MasterTypeOK' /\ log' \in Seq(OwnedRec) /\ eof' = eof
BY SMTT(30) DEF Inv, TypeOK, ReaderInv, MasterTypeOK, masterVars

(* la_shutdown clears the applier's memory and leaves the row. *)
LEMMA StopStep ==
  ASSUME Inv, la_shutdown
  PROVE  Keeps
<1> USE DEF la_shutdown
<1>1. MasterTypeOK' /\ log' \in Seq(OwnedRec) /\ eof' = eof
  BY Zenon, MasterQuiet
<1>2. PositionTypeOK'
  BY LogApplierAssumption DEF PositionTypeOK, PC, NoHeader, LogHeader, ServerState, Lsa
<1>3. ListTypeOK' /\ ModeTypeOK'
  BY ZenonT(40) DEF ListTypeOK, ModeTypeOK, FreeApply, LA_APPLY, Lsa, ApplyState
<1>4. DbTypeOK'
  BY FaultCounted DEF Inv, TypeOK, DbTypeOK, Fault
<1>5. ReaderInv'
  BY <1>1, InvTypes DEF ReaderInv, NoHeader
<1>6. RequiredInv' /\ row' = row
  BY Zenon DEF Inv, RequiredInv, StartIn, FreeApply
<1>7. row.required_lsa <= row'.required_lsa
  BY <1>6, InvTypes
<1> HIDE DEF la_shutdown
<1> QED
  BY SMTT(30), <1>1, <1>2, <1>3, <1>4, <1>5, <1>6, <1>7 DEF Keeps, Inv, TypeOK

(* A start takes the read position from the row's required_lsa. *)
LEMMA StartStep ==
  ASSUME Inv, la_get_last_ha_applied_info
  PROVE  Keeps
<1> USE DEF la_get_last_ha_applied_info, StartAt, listVars, itemVars, haVars, dbVars
<1>1. MasterTypeOK' /\ log' \in Seq(OwnedRec) /\ eof' = eof
  BY Zenon, MasterQuiet
<1>2. PositionTypeOK'
  BY Zenon DEF Inv, TypeOK, PositionTypeOK, DbTypeOK, ApplyInfo, PC, Lsa
<1>3. ListTypeOK' /\ ModeTypeOK' /\ DbTypeOK'
  BY Zenon DEF Inv, TypeOK, ListTypeOK, ModeTypeOK, DbTypeOK
<1>4. ReaderInv'
  BY Zenon, <1>1 DEF Inv, ReaderInv
<1>5. \A t \in Tran : ~repl_lists[t].used
  BY InvTypes DEF Inv, RequiredInv, StartIn
<1>6. RequiredInv' /\ row' = row
  BY <1>5, InvTypes DEF Inv, RequiredInv, StartIn
<1> QED
  BY SMTT(60), <1>1, <1>2, <1>3, <1>4, <1>6, InvTypes DEF Keeps, Inv, TypeOK

(* la_add_apply_list opens a list at the record being read. *)
LEMMA ListsOpened ==
  ASSUME Inv, pc = "read", Record \in OwnedRec, Record.type \notin SystemType
  PROVE  /\ Record.trid \in Tran
         /\ Lists \in [Tran -> LA_APPLY]
         /\ StartIn(Lists, row.required_lsa, final_lsa)
<1>1. Record.trid \in Tran
  BY Zenon DEF OwnedRec
<1>2. repl_lists \in [Tran -> LA_APPLY] /\ StartIn(repl_lists, row.required_lsa, final_lsa)
  BY Zenon DEF Inv, TypeOK, ListTypeOK, RequiredInv
<1> DEFINE opened == [FreeApply EXCEPT !.used = TRUE, !.start_lsa = final_lsa]
<1>3. opened \in LA_APPLY /\ opened.start_lsa = final_lsa
  BY Zenon, InvTypes DEF FreeApply, LA_APPLY, Lsa
<1> HIDE DEF opened
<1>4. row.required_lsa <= final_lsa
  BY Zenon DEF Inv, RequiredInv
<1>5. Lists = repl_lists \/ Lists = [repl_lists EXCEPT ![Record.trid] = opened]
  BY Zenon DEF Lists, la_add_apply_list, opened
<1> QED
  BY <1>1, <1>2, <1>3, <1>4, <1>5, InvTypes DEF StartIn

(* la_set_repl_log changes items only. *)
LEMMA ReplLogSet ==
  ASSUME SetFacts, NEW lists \in [Tran -> LA_APPLY], NEW t \in Tran, NEW lsa \in Nat,
         NEW low, NEW high, StartIn(lists, low, high)
  PROVE  /\ la_set_repl_log(lists, t, lsa) \in [Tran -> LA_APPLY]
         /\ StartIn(la_set_repl_log(lists, t, lsa), low, high)
<1> DEFINE apply == lists[t]
           new == la_set_repl_log(lists, t, lsa)
<1>1. apply \in LA_APPLY
  BY Zenon
<1>2. CASE ~apply.used
  BY Zenon, <1>2 DEF la_set_repl_log
<1>3. CASE apply.used /\ apply.is_long_trans
  <2>1. [apply EXCEPT !.last_lsa = lsa] \in LA_APPLY
    BY Zenon, <1>1 DEF LA_APPLY, Lsa
  <2>2. new = [lists EXCEPT ![t] = [apply EXCEPT !.last_lsa = lsa]]
    BY Zenon, <1>3 DEF la_set_repl_log
  <2> QED
    BY Zenon, <1>1, <2>1, <2>2 DEF StartIn, LA_APPLY
<1>4. CASE /\ apply.used /\ ~apply.is_long_trans
           /\ Cardinality(apply.items) >= LA_MAX_REPL_ITEMS
  <2>1. apply.items # {}
    BY <1>4, LogApplierAssumption DEF SetFacts
  <2>2. First(apply.items) \in Nat
    BY Zenon, <1>1, <2>1, FirstIsLeast DEF LA_APPLY, Lsa
  <2> DEFINE long == [apply EXCEPT !.items = {First(apply.items)},
                                   !.is_long_trans = TRUE, !.last_lsa = lsa]
  <2>3. long \in LA_APPLY /\ long.start_lsa = apply.start_lsa
    BY Zenon, <1>1, <2>2 DEF LA_APPLY, Lsa
  <2>4. new = [lists EXCEPT ![t] = long]
    BY Zenon, <1>4 DEF la_set_repl_log
  <2> HIDE DEF long
  <2> QED
    BY Zenon, <1>4, <2>3, <2>4 DEF StartIn
<1>5. CASE /\ apply.used /\ ~apply.is_long_trans
           /\ ~(Cardinality(apply.items) >= LA_MAX_REPL_ITEMS)
  <2> DEFINE more == [apply EXCEPT !.items = @ \cup {lsa}]
  <2>1. more \in LA_APPLY /\ more.start_lsa = apply.start_lsa
    BY Zenon, <1>1 DEF LA_APPLY, Lsa
  <2>2. new = [lists EXCEPT ![t] = more]
    BY Zenon, <1>5 DEF la_set_repl_log
  <2> HIDE DEF more
  <2> QED
    BY Zenon, <1>5, <2>1, <2>2 DEF StartIn
<1> QED
  BY Zenon, <1>2, <1>3, <1>4, <1>5

(* la_add_unlock_commit_log and la_add_abort_log, la_set_commit_log. *)
LEMMA EntryAdded ==
  ASSUME Inv, NEW t \in Tran, NEW type \in {"UNLOCK_COMMIT", "ABORT"}
  PROVE  commit_list \cup {CommitEntry(type, t)} \subseteq LA_COMMIT
BY InvTypes DEF Inv, TypeOK, ListTypeOK, CommitEntry, LA_COMMIT, Lsa

(* la_set_commit_log changes the type of an entry only. *)
LEMMA CommitLogSet ==
  ASSUME NEW list, list \subseteq LA_COMMIT, NEW t,
         NEW type \in {"COMMIT", "COMMIT_TOPOPE"}
  PROVE  la_set_commit_log(list, t, type) \subseteq LA_COMMIT
<1>1. \A c \in LA_COMMIT : [c EXCEPT !.type = type] \in LA_COMMIT
  BY Zenon DEF LA_COMMIT
<1> QED
  BY Zenon, <1>1 DEF la_set_commit_log

(* A step that processes a record and does not touch the database. *)
LEMMA ProcessFrame ==
  ASSUME Inv, NEW types, Process(types), row' = row, DbTypeOK', ListTypeOK',
         need_commit' \in BOOLEAN, db_lockf' \in BOOLEAN,
         committed_lsa' = committed_lsa, pc' \in {"read", "page", "list"},
         final_lsa' = final_lsa \/ final_lsa' = final_lsa + 1,
         StartIn(repl_lists', row.required_lsa, final_lsa)
  PROVE  Keeps
<1> USE DEF Process, startVars, itemVars
<1>1. MasterTypeOK' /\ log' \in Seq(OwnedRec) /\ eof' = eof
  BY Zenon, MasterQuiet
<1>2. PositionTypeOK'
  BY InvTypes DEF Inv, TypeOK, PositionTypeOK, PC, Lsa
<1>3. ModeTypeOK'
  BY ZenonT(40) DEF Inv, TypeOK, ModeTypeOK
<1>4. ReaderInv'
  BY Zenon, <1>1 DEF Inv, ReaderInv
<1>5. \A t \in Tran : repl_lists'[t].start_lsa \in Nat
  BY Zenon DEF ListTypeOK, LA_APPLY, Lsa
<1>6. RequiredInv'
  BY <1>5, InvTypes DEF Inv, RequiredInv, StartIn
<1> QED
  BY <1>1, <1>2, <1>3, <1>4, <1>6, InvTypes DEF Keeps, Inv, TypeOK

(* Records that open a list, add an item or an entry, or are skipped. *)
LEMMA ProcessStep ==
  ASSUME SetFacts, Inv,
         \/ ProcessData \/ ProcessReplication \/ ProcessUnlockCommit \/ ProcessAbort
         \/ ProcessCrashRecovery
  PROVE  Keeps
<1>1. /\ ListTypeOK /\ ModeTypeOK /\ DbTypeOK
      /\ StartIn(repl_lists, row.required_lsa, final_lsa)
  BY Zenon DEF Inv, TypeOK, RequiredInv
<1>2. ASSUME NEW types, Process(types), types \cap SystemType = {}
      PROVE  /\ Record.trid \in Tran /\ Lists \in [Tran -> LA_APPLY]
             /\ StartIn(Lists, row.required_lsa, final_lsa)
  <2>1. pc = "read" /\ Record \in OwnedRec /\ Record.type \notin SystemType
    BY Zenon, <1>2, RecordOwned DEF Process
  <2> QED
    BY Zenon, <2>1, ListsOpened
<1>3. ASSUME NEW types, Process(types),
             UNCHANGED <<committed_lsa, need_commit, db_lockf, dbVars>>,
             pc' \in {"read", "page"}, final_lsa' = final_lsa + 1, ListTypeOK',
             StartIn(repl_lists', row.required_lsa, final_lsa)
      PROVE  Keeps
  <2>1. DbTypeOK' /\ row' = row /\ need_commit' \in BOOLEAN /\ db_lockf' \in BOOLEAN
    BY Zenon, <1>1, <1>3 DEF DbTypeOK, ModeTypeOK, dbVars
  <2> QED
    BY Zenon, <1>3, <2>1, ProcessFrame
<1>4. Advance => pc' \in {"read", "page"} /\ final_lsa' = final_lsa + 1
  BY Zenon DEF Advance
<1>5. CASE ProcessCrashRecovery
  <2>1. /\ Process({"DUMMY_CRASH_RECOVERY"}) /\ UNCHANGED <<repl_lists, commit_list>>
        /\ UNCHANGED <<committed_lsa, need_commit, db_lockf, dbVars>>
        /\ pc' = "page" /\ final_lsa' = final_lsa + 1
    BY Zenon, <1>5 DEF ProcessCrashRecovery, listVars
  <2>2. ListTypeOK' /\ StartIn(repl_lists', row.required_lsa, final_lsa)
    BY Zenon, <1>1, <2>1 DEF ListTypeOK
  <2> QED
    BY Zenon, <1>3, <2>1, <2>2
<1>6. CASE ProcessData
  <2>1. /\ Process({"DATA"}) /\ repl_lists' = Lists /\ UNCHANGED commit_list /\ Advance
        /\ UNCHANGED <<committed_lsa, need_commit, db_lockf, dbVars>>
    BY Zenon, <1>6 DEF ProcessData
  <2>2. Lists \in [Tran -> LA_APPLY] /\ StartIn(Lists, row.required_lsa, final_lsa)
    BY Zenon, <1>2, <2>1 DEF SystemType
  <2>3. ListTypeOK' /\ StartIn(repl_lists', row.required_lsa, final_lsa)
    BY Zenon, <1>1, <2>1, <2>2 DEF ListTypeOK
  <2> QED
    BY Zenon, <1>3, <1>4, <2>1, <2>3
<1>7. CASE ProcessReplication
  <2>1. /\ Process({"REPLICATION"}) /\ UNCHANGED commit_list /\ Advance
        /\ repl_lists' = la_set_repl_log(Lists, Record.trid, final_lsa)
        /\ UNCHANGED <<committed_lsa, need_commit, db_lockf, dbVars>>
    BY Zenon, <1>7 DEF ProcessReplication
  <2>2. /\ Record.trid \in Tran /\ Lists \in [Tran -> LA_APPLY]
        /\ StartIn(Lists, row.required_lsa, final_lsa)
    BY Zenon, <1>2, <2>1 DEF SystemType
  <2>3. /\ repl_lists' \in [Tran -> LA_APPLY]
        /\ StartIn(repl_lists', row.required_lsa, final_lsa)
    BY Zenon, <2>1, <2>2, InvTypes, ReplLogSet
  <2>4. ListTypeOK'
    BY Zenon, <1>1, <2>1, <2>3 DEF ListTypeOK
  <2> QED
    BY Zenon, <1>3, <1>4, <2>1, <2>3, <2>4
<1>8. CASE ProcessUnlockCommit \/ ProcessAbort
  <2>1. PICK type \in {"UNLOCK_COMMIT", "ABORT"} :
          /\ Process({type}) /\ Advance /\ repl_lists' = Lists
          /\ commit_list' = commit_list \cup {CommitEntry(type, Record.trid)}
          /\ UNCHANGED <<committed_lsa, need_commit, db_lockf, dbVars>>
    BY Zenon, <1>8 DEF ProcessUnlockCommit, ProcessAbort
  <2>2. /\ Record.trid \in Tran /\ Lists \in [Tran -> LA_APPLY]
        /\ StartIn(Lists, row.required_lsa, final_lsa)
    BY Zenon, <1>2, <2>1 DEF SystemType
  <2>3. commit_list' \subseteq LA_COMMIT
    BY Zenon, <2>1, <2>2, EntryAdded
  <2>4. ListTypeOK' /\ StartIn(repl_lists', row.required_lsa, final_lsa)
    BY Zenon, <2>1, <2>2, <2>3 DEF ListTypeOK
  <2> QED
    BY SMTT(30), <1>3, <1>4, <2>1, <2>4
<1> QED
  BY Zenon, <1>5, <1>6, <1>7, <1>8

(* LOG_COMMIT and LOG_COMMIT_TOPOPE. *)
LEMMA ProcessCommitStep ==
  ASSUME Inv, ProcessCommit
  PROVE  Keeps
<1> DEFINE t == Record.trid
           list == IF Record.type = "COMMIT" THEN commit_list
                   ELSE commit_list \cup {CommitEntry("UNLOCK_COMMIT", t)}
<1>1. ListTypeOK /\ ModeTypeOK /\ DbTypeOK /\ StartIn(repl_lists, row.required_lsa, final_lsa)
  BY Zenon DEF Inv, TypeOK, RequiredInv
<1>2. /\ Process({"COMMIT", "COMMIT_TOPOPE"})
      /\ UNCHANGED <<committed_lsa, need_commit, db_lockf, dbVars>>
  BY Zenon DEF ProcessCommit
<1>3. \/ /\ commit_list' = la_set_commit_log(list, t, Record.type) /\ repl_lists' = Lists
         /\ pc' = "list" /\ UNCHANGED final_lsa
      \/ la_free_repl_items_by_tranid(list, t) /\ Advance
  BY Zenon DEF ProcessCommit
<1>4. DbTypeOK' /\ row' = row /\ need_commit' \in BOOLEAN /\ db_lockf' \in BOOLEAN
  BY Zenon, <1>1, <1>2 DEF DbTypeOK, ModeTypeOK, dbVars
<1>5. pc = "read" /\ Record \in OwnedRec /\ Record.type \in {"COMMIT", "COMMIT_TOPOPE"}
  BY Zenon, <1>2, RecordOwned DEF Process
<1>6. /\ t \in Tran /\ Lists \in [Tran -> LA_APPLY]
      /\ StartIn(Lists, row.required_lsa, final_lsa)
  BY Zenon, <1>5, ListsOpened DEF SystemType
<1>7. list \subseteq LA_COMMIT
  BY Zenon, <1>1, <1>6, EntryAdded DEF ListTypeOK
<1> HIDE DEF list, t
<1>8. CASE /\ commit_list' = la_set_commit_log(list, t, Record.type) /\ repl_lists' = Lists
           /\ pc' = "list" /\ UNCHANGED final_lsa
  <2>1. ListTypeOK' /\ StartIn(repl_lists', row.required_lsa, final_lsa)
    BY SMTT(30), <1>5, <1>6, <1>7, <1>8, CommitLogSet DEF ListTypeOK
  <2> QED
    BY SMTT(30), <1>2, <1>4, <1>8, <2>1, ProcessFrame
<1>9. CASE la_free_repl_items_by_tranid(list, t) /\ Advance
  <2>1. FreeApply \in LA_APPLY /\ FreeApply.used = FALSE
    BY Zenon DEF FreeApply, LA_APPLY, Lsa
  <2>2. ListTypeOK' /\ StartIn(repl_lists', row.required_lsa, final_lsa)
    BY Zenon, <1>1, <1>6, <1>7, <1>9, <2>1 DEF ListTypeOK, la_free_repl_items_by_tranid, StartIn
  <2>3. pc' \in {"read", "page"} /\ final_lsa' = final_lsa + 1
    BY Zenon, <1>9 DEF Advance
  <2> QED
    BY SMTT(30), <1>2, <1>4, <2>2, <2>3, ProcessFrame
<1> QED
  BY Zenon, <1>3, <1>8, <1>9

(* The database after a step, from what la_log_commit guarantees. *)
LEMMA DbTyped ==
  ASSUME NEW lists, NEW high, DbKeeps(lists, high)
  PROVE  DbTypeOK' /\ row.required_lsa <= row'.required_lsa /\ row'.required_lsa <= high
BY SMTT(60) DEF DbKeeps, DbTypeOK

(* A step that leaves the slave's database. *)
LEMMA DbQuiet ==
  ASSUME Inv, pc # "down", UNCHANGED dbVars
  PROVE  DbKeeps(repl_lists, final_lsa)
BY InvTypes DEF Inv, TypeOK, DbTypeOK, RequiredInv, DbKeeps, dbVars, StartIn

(* A commit of the slave's transaction with the lists as they are. *)
LEMMA DbCommit ==
  ASSUME SetFacts, Inv, pc # "down", NEW lsa \in Nat, la_log_commit(repl_lists, lsa)
  PROVE  DbKeeps(repl_lists, final_lsa)
<1>1. /\ TypeOK /\ repl_lists \in [Tran -> LA_APPLY] /\ row.required_lsa <= final_lsa
      /\ StartIn(repl_lists, row.required_lsa, final_lsa)
  BY SMTT(60) DEF Inv, TypeOK, ListTypeOK, RequiredInv
<1> QED
  BY Zenon, <1>1, LogCommit

(* RequiredInv after a step that leaves the open lists or closes some. *)
LEMMA RequiredKept ==
  ASSUME Inv, NEW lists, DbKeeps(lists, final_lsa), ListTypeOK', pc' # "down",
         final_lsa' = final_lsa \/ final_lsa' = final_lsa + 1,
         \A t \in Tran : repl_lists'[t].used =>
           lists[t].used /\ repl_lists'[t].start_lsa = lists[t].start_lsa
  PROVE  RequiredInv'
<1>1. row'.required_lsa \in Nat
  BY SMTT(60) DEF DbKeeps, ApplyInfo, Lsa
<1>2. \A t \in Tran : repl_lists'[t].start_lsa \in Nat
  BY SMTT(60) DEF ListTypeOK, LA_APPLY, Lsa
<1> QED
  BY SMTT(60), <1>1, <1>2, InvTypes DEF DbKeeps, Inv, RequiredInv, StartIn

(* The parts of the invariant after a step, put together. *)
LEMMA Together ==
  ASSUME MasterTypeOK', PositionTypeOK', ListTypeOK', ModeTypeOK', DbTypeOK', ReaderInv',
         RequiredInv', row.required_lsa <= row'.required_lsa
  PROVE  Keeps
BY ZenonT(40) DEF Keeps, Inv, TypeOK

(* Types of the positions after a step, from the types of what it assigns. *)
LEMMA PositionKept ==
  ASSUME Inv, UNCHANGED startVars, hdr' \in LogHeader, pc' \in PC, final_lsa' \in Nat,
         committed_lsa' \in Nat, committed_rep_lsa' \in Nat, item' \in Nat,
         total_repl_items' \in 0..(LA_MAX_REPL_ITEMS - 1)
  PROVE  PositionTypeOK'
<1>1. last_committed_lsa' \in Nat /\ last_committed_rep_lsa' \in Nat
  BY Zenon DEF Inv, TypeOK, PositionTypeOK, Lsa, startVars
<1> QED
  BY Zenon, <1>1 DEF PositionTypeOK, Lsa

(* ReaderInv after a step that fetches no header. *)
LEMMA ReaderQuiet ==
  ASSUME Inv, UNCHANGED <<hdr, masterVars>>, pc' \in {"item", "put"} => commit_list' # {}
  PROVE  ReaderInv'
<1>1. log' \in Seq(OwnedRec) /\ eof' = eof
  BY Zenon, MasterQuiet
<1>2. hdr.eof_lsa <= eof
  BY Zenon DEF Inv, ReaderInv
<1> QED
  BY Zenon, <1>1, <1>2 DEF ReaderInv

(* The invariant after a step of the applier that does not stop it. *)
LEMMA StepKeeps ==
  ASSUME Inv, UNCHANGED masterVars, NEW lists, DbKeeps(lists, final_lsa), PositionTypeOK',
         ListTypeOK', ModeTypeOK', ReaderInv', pc' # "down",
         final_lsa' = final_lsa \/ final_lsa' = final_lsa + 1,
         \A t \in Tran : repl_lists'[t].used =>
           lists[t].used /\ repl_lists'[t].start_lsa = lists[t].start_lsa
  PROVE  Keeps
<1>1. MasterTypeOK'
  BY SMTT(30), MasterQuiet
<1>2. RequiredInv'
  BY Zenon, RequiredKept
<1>3. DbTypeOK' /\ row.required_lsa <= row'.required_lsa
  BY Zenon, DbTyped
<1> QED
  BY ZenonT(40), <1>1, <1>2, <1>3, Together

(* A step that reads on or not and leaves the lists and the database. *)
LEMMA QuietFrame ==
  ASSUME Inv, pc # "down", pc' \in PC \ {"item", "put", "down"},
         UNCHANGED <<committed_lsa, committed_rep_lsa, startVars, listVars, itemVars, dbVars,
                     masterVars>>,
         final_lsa' = final_lsa \/ final_lsa' = final_lsa + 1,
         hdr' \in LogHeader, hdr'.eof_lsa <= eof, ModeTypeOK'
  PROVE  Keeps
<1>1. PositionTypeOK'
  <2>1. final_lsa' \in Nat
    BY PositionTypes
  <2> QED
    BY SMTT(30), <2>1, PositionTypes, PositionKept DEF itemVars
<1>2. ListTypeOK' /\ UNCHANGED <<repl_lists, commit_list>>
  BY SMTT(30) DEF Inv, TypeOK, ListTypeOK, listVars
<1>3. ReaderInv'
  <2>1. log' \in Seq(OwnedRec) /\ eof' = eof
    BY Zenon, MasterQuiet
  <2> QED
    BY SMTT(30), <2>1 DEF ReaderInv
<1>4. DbKeeps(repl_lists, final_lsa)
  BY Zenon, DbQuiet
<1> QED
  BY SMTT(30), <1>1, <1>2, <1>3, <1>4, StepKeeps

(* The header read at the top of the loop. *)
LEMMA HeaderFetched ==
  ASSUME Inv, hdr' = [eof_lsa |-> eof, ha_server_state |-> srv]
  PROVE  hdr' \in LogHeader /\ hdr'.eof_lsa = eof
<1>1. srv \in ServerState /\ eof \in Nat
  BY Zenon, InvTypes DEF Inv, TypeOK, MasterTypeOK
<1> QED
  BY Zenon, <1>1 DEF LogHeader, Lsa

(* Steps of the main loop that only move the reader. *)
LEMMA QuietStep ==
  ASSUME Inv, EndOfLog \/ ApplyListEnd \/ TimeCommitNotDue \/ ReadPage
  PROVE  Keeps
<1>1. /\ pc \in {"read", "list", "page", "top"}
      /\ pc' \in {"page", "state", "read"} \/ Advance
      /\ UNCHANGED final_lsa \/ Advance
      /\ UNCHANGED hdr \/ hdr' = [eof_lsa |-> eof, ha_server_state |-> srv]
  BY ZenonT(40) DEF EndOfLog, ApplyListEnd, TimeCommitNotDue, ReadPage, la_fetch_log_hdr
<1>2. UNCHANGED <<committed_lsa, committed_rep_lsa, startVars, listVars, itemVars,
                  need_commit, haVars, dbVars, masterVars>>
  BY Zenon DEF EndOfLog, ApplyListEnd, TimeCommitNotDue, ReadPage
<1>3. is_end_of_record' = is_end_of_record \/ is_end_of_record' = TRUE
  BY Zenon DEF EndOfLog, ApplyListEnd, TimeCommitNotDue, ReadPage
<1>4. ModeTypeOK'
  BY ZenonT(40), <1>2, <1>3 DEF Inv, TypeOK, ModeTypeOK, haVars
<1>5. hdr' \in LogHeader /\ hdr'.eof_lsa <= eof
  <2>1. hdr \in LogHeader /\ hdr.eof_lsa <= eof /\ eof \in Nat
    BY Zenon, PositionTypes, InvTypes DEF Inv, ReaderInv
  <2> QED
    BY SMTT(30), <1>1, <2>1, HeaderFetched
<1>6. /\ pc' \in {"page", "state", "read"}
      /\ final_lsa' = final_lsa \/ final_lsa' = final_lsa + 1
  BY Zenon, <1>1, AdvancePc
<1> QED
  BY SMTT(30), <1>1, <1>2, <1>4, <1>5, <1>6, QuietFrame DEF PC

(* LOG_DUMMY_HA_SERVER_STATE: a forced commit, or the lock is given up. *)
LEMMA ProcessHaServerStateStep ==
  ASSUME SetFacts, Inv, ProcessHaServerState
  PROVE  Keeps
<1>1. /\ Process({"DUMMY_HA_SERVER_STATE"}) /\ UNCHANGED <<listVars, committed_lsa>>
      /\ la_log_commit(repl_lists, committed_lsa) \/ UNCHANGED dbVars
      /\ Advance \/ (pc' = "page" /\ UNCHANGED final_lsa)
      /\ need_commit' = need_commit \/ need_commit' = TRUE
      /\ db_lockf' = db_lockf \/ db_lockf' = FALSE
  BY ZenonT(40) DEF ProcessHaServerState
<1>2. /\ pc = "read" /\ is_end_of_record' = FALSE
      /\ UNCHANGED <<hdr, startVars, committed_rep_lsa, itemVars, apply_state, last_seen,
                     masterVars>>
  BY Zenon, <1>1 DEF Process
<1>3. DbKeeps(repl_lists, final_lsa)
  <2>1. CASE la_log_commit(repl_lists, committed_lsa)
    BY Zenon, <1>2, <2>1, PositionTypes, DbCommit
  <2>2. CASE UNCHANGED dbVars
    BY Zenon, <1>2, <2>2, DbQuiet
  <2> QED
    BY Zenon, <1>1, <2>1, <2>2
<1>4. /\ final_lsa' = final_lsa \/ final_lsa' = final_lsa + 1
      /\ pc' \in {"read", "page"}
  BY Zenon, <1>1, AdvancePc
<1>5. PositionTypeOK'
  <2>1. final_lsa' \in Nat
    BY <1>4, PositionTypes
  <2> QED
    BY SMTT(30), <1>1, <1>2, <1>4, <2>1, PositionTypes, PositionKept DEF itemVars, PC
<1>6. ListTypeOK' /\ UNCHANGED <<repl_lists, commit_list>>
  BY Zenon, <1>1 DEF Inv, TypeOK, ListTypeOK, listVars
<1>7. ModeTypeOK'
  BY ZenonT(40), <1>1, <1>2 DEF Inv, TypeOK, ModeTypeOK
<1>8. ReaderInv'
  BY Zenon, <1>2, <1>4, ReaderQuiet
<1> QED
  BY SMTT(30), <1>2, <1>3, <1>4, <1>5, <1>6, <1>7, <1>8, StepKeeps

-----------------------------------------------------------------------------
(* The rest of the main loop.                                              *)

(* A header fetched in mid-page changes the state, not the end of the log. *)
LEMMA RefetchStep ==
  ASSUME Inv, la_log_fetch
  PROVE  Keeps
<1>1. /\ pc = "read" /\ FaultHappens("refetch") /\ hdr' = [hdr EXCEPT !.ha_server_state = srv]
      /\ pc' = pc
  BY Zenon DEF la_log_fetch
<1>2. UNCHANGED <<final_lsa, committed_lsa, committed_rep_lsa, startVars, listVars,
                  itemVars, need_commit, is_end_of_record, haVars, row, slave, pending,
                  rejected, masterVars>>
  BY Zenon DEF la_log_fetch
<1>3. hdr' \in LogHeader /\ hdr'.eof_lsa = hdr.eof_lsa
  <2>1. srv \in ServerState /\ hdr \in LogHeader
    BY Zenon, PositionTypes DEF Inv, TypeOK, MasterTypeOK
  <2> QED
    BY Zenon, <1>1, <2>1 DEF LogHeader
<1>4. DbKeeps(repl_lists, final_lsa)
  <2>1. faults' \in [Fault -> Nat]
    BY Zenon, <1>1, FaultCounted DEF Inv, Fault
  <2>2. /\ row \in ApplyInfo /\ slave \in Seq(Lsa) /\ pending \in Seq(Lsa)
        /\ rejected \subseteq Lsa
    BY Zenon DEF Inv, TypeOK, DbTypeOK
  <2>3. row.required_lsa <= final_lsa /\ StartIn(repl_lists, row.required_lsa, final_lsa)
    BY Zenon, <1>1 DEF Inv, RequiredInv
  <2> QED
    BY SMTT(30), <1>2, <2>1, <2>2, <2>3, InvTypes DEF DbKeeps
<1>5. PositionTypeOK'
  BY SMTT(30), <1>1, <1>2, <1>3, PositionTypes, PositionKept DEF itemVars, PC
<1>6. ListTypeOK' /\ UNCHANGED <<repl_lists, commit_list>>
  BY Zenon, <1>2 DEF Inv, TypeOK, ListTypeOK, listVars
<1>7. ModeTypeOK'
  BY Zenon, <1>2 DEF Inv, TypeOK, ModeTypeOK, haVars
<1>8. ReaderInv'
  <2>1. log' \in Seq(OwnedRec) /\ eof' = eof /\ hdr.eof_lsa <= eof
    BY Zenon, <1>2, MasterQuiet DEF Inv, ReaderInv
  <2> QED
    BY Zenon, <1>1, <1>3, <2>1 DEF ReaderInv
<1> QED
  BY SMTT(30), <1>1, <1>2, <1>4, <1>5, <1>6, <1>7, <1>8, StepKeeps

(* la_check_time_commit commits with the lists as they are. *)
LEMMA TimeCommitStep ==
  ASSUME SetFacts, Inv, la_check_time_commit
  PROVE  Keeps
<1>1. /\ pc = "page" /\ pc' = "state" /\ need_commit' = FALSE
      /\ la_log_commit(repl_lists, committed_lsa)
  BY Zenon DEF la_check_time_commit
<1>2. UNCHANGED <<hdr, final_lsa, committed_lsa, committed_rep_lsa, startVars, listVars,
                  itemVars, is_end_of_record, haVars, masterVars>>
  BY Zenon DEF la_check_time_commit
<1>3. DbKeeps(repl_lists, final_lsa)
  BY Zenon, <1>1, PositionTypes, DbCommit
<1>4. PositionTypeOK'
  BY SMTT(30), <1>1, <1>2, PositionTypes, PositionKept DEF itemVars, PC
<1>5. ListTypeOK' /\ UNCHANGED <<repl_lists, commit_list>>
  BY Zenon, <1>2 DEF Inv, TypeOK, ListTypeOK, listVars
<1>6. ModeTypeOK'
  BY Zenon, <1>1, <1>2 DEF Inv, TypeOK, ModeTypeOK, haVars
<1>7. ReaderInv'
  BY SMTT(30), <1>1, <1>2, ReaderQuiet
<1> QED
  BY SMTT(30), <1>1, <1>2, <1>3, <1>4, <1>5, <1>6, <1>7, StepKeeps

(* In state DONE the row is given the read position. *)
LEMMA DoneStep ==
  ASSUME SetFacts, Inv, DoneLoop
  PROVE  Keeps
<1>1. /\ pc = "top" /\ db_lockf' = FALSE /\ apply_state' = "RECOVERING"
      /\ hdr' = [eof_lsa |-> eof, ha_server_state |-> srv]
      /\ committed_lsa' = final_lsa \/ committed_lsa' = committed_lsa
      /\ la_log_commit(repl_lists, committed_lsa') \/ UNCHANGED dbVars
  BY Zenon DEF DoneLoop, la_fetch_log_hdr
<1>2. UNCHANGED <<pc, final_lsa, committed_rep_lsa, startVars, listVars, itemVars,
                  need_commit, is_end_of_record, last_seen, masterVars>>
  BY Zenon DEF DoneLoop
<1>3. committed_lsa' \in Nat
  BY Zenon, <1>1, PositionTypes
<1>4. DbKeeps(repl_lists, final_lsa)
  <2>1. CASE la_log_commit(repl_lists, committed_lsa')
    BY SMTT(30), <1>1, <1>3, <2>1, DbCommit
  <2>2. CASE UNCHANGED dbVars
    BY Zenon, <1>1, <2>2, DbQuiet
  <2> QED
    BY SMTT(30), <1>1, <2>1, <2>2
<1>5. hdr' \in LogHeader /\ hdr'.eof_lsa = eof
  BY Zenon, <1>1, HeaderFetched
<1>6. PositionTypeOK'
  BY SMTT(30), <1>1, <1>2, <1>3, <1>5, PositionTypes, PositionKept DEF itemVars, PC
<1>7. ListTypeOK' /\ UNCHANGED <<repl_lists, commit_list>>
  BY Zenon, <1>2 DEF Inv, TypeOK, ListTypeOK, listVars
<1>8. ModeTypeOK'
  BY ZenonT(40), <1>1, <1>2 DEF Inv, TypeOK, ModeTypeOK, ApplyState
<1>9. ReaderInv'
  <2>1. log' \in Seq(OwnedRec) /\ eof' = eof /\ eof \in Nat
    BY SMTT(30), <1>2, MasterQuiet, InvTypes
  <2> QED
    BY SMTT(30), <1>1, <1>2, <1>5, <2>1 DEF ReaderInv
<1> QED
  BY SMTT(30), <1>1, <1>2, <1>4, <1>6, <1>7, <1>8, <1>9, StepKeeps

(* la_change_state commits, and frees the lists when the state is DONE. *)
LEMMA ChangeStateStep ==
  ASSUME SetFacts, Inv, la_change_state
  PROVE  Keeps
<1>1. /\ pc = "state" /\ pc' = "top"
      /\ last_seen' = <<hdr.ha_server_state, is_end_of_record>>
      /\ apply_state' = apply_state \/ apply_state' = NewState
  BY Zenon DEF la_change_state
<1>2. UNCHANGED <<hdr, final_lsa, committed_lsa, committed_rep_lsa, startVars, itemVars,
                  need_commit, db_lockf, is_end_of_record, masterVars>>
  BY Zenon DEF la_change_state
<1>3. \/ UNCHANGED listVars
      \/ /\ repl_lists' = [t \in Tran |-> FreeApply]
         /\ commit_list' = {c \in commit_list : ~repl_lists[c.tranid].used}
  BY ZenonT(40) DEF la_change_state
<1>4. UNCHANGED <<listVars, dbVars>> \/ la_log_commit(repl_lists', committed_lsa)
  BY ZenonT(40) DEF la_change_state
<1>5. /\ repl_lists \in [Tran -> LA_APPLY] /\ commit_list \subseteq LA_COMMIT /\ TypeOK
      /\ row.required_lsa <= final_lsa /\ StartIn(repl_lists, row.required_lsa, final_lsa)
  BY Zenon, <1>1 DEF Inv, TypeOK, ListTypeOK, RequiredInv
<1>6. repl_lists' \in [Tran -> LA_APPLY] /\ commit_list' \subseteq LA_COMMIT
  <2>1. FreeApply \in LA_APPLY
    BY ZenonT(40) DEF FreeApply, LA_APPLY, Lsa
  <2> QED
    BY Zenon, <1>3, <1>5, <2>1 DEF listVars
<1>7. StartIn(repl_lists', row.required_lsa, final_lsa)
  <2>1. FreeApply.used = FALSE
    BY Zenon DEF FreeApply
  <2> QED
    BY Zenon, <1>3, <1>5, <2>1 DEF StartIn, listVars
<1>8. DbKeeps(repl_lists', final_lsa)
  <2>1. CASE UNCHANGED <<listVars, dbVars>>
    <3>1. DbKeeps(repl_lists, final_lsa)
      BY Zenon, <1>1, <2>1, DbQuiet
    <3> QED
      BY Zenon, <2>1, <3>1 DEF listVars
  <2>2. CASE la_log_commit(repl_lists', committed_lsa)
    BY SMTT(30), <1>5, <1>6, <1>7, <2>2, PositionTypes, LogCommit
  <2> QED
    BY Zenon, <1>4, <2>1, <2>2
<1>9. PositionTypeOK' /\ ListTypeOK'
  BY Zenon, <1>1, <1>2, <1>6, PositionTypes, PositionKept DEF itemVars, PC, ListTypeOK
<1>10. ModeTypeOK'
  <2>1. NewState \in ApplyState /\ last_seen' \in (ServerState \cup {"IDLE"}) \X BOOLEAN
    BY ZenonT(40), <1>1
       DEF Inv, TypeOK, PositionTypeOK, ModeTypeOK, LogHeader, NewState, ApplyState
  <2> QED
    BY ZenonT(40), <1>1, <1>2, <2>1 DEF Inv, TypeOK, ModeTypeOK
<1>11. ReaderInv'
  BY Zenon, <1>1, <1>2, ReaderQuiet
<1> QED
  BY SMTT(30), <1>1, <1>2, <1>8, <1>9, <1>10, <1>11, StepKeeps

-----------------------------------------------------------------------------
(* la_apply_commit_list and la_apply_repl_log.                             *)

(* la_free_all_repl_items and la_clear_applied_info close a list or leave   *)
(* its start.                                                               *)
LEMMA AfterCommitTyped ==
  ASSUME NEW apply \in LA_APPLY, NEW type
  PROVE  /\ AfterCommit(apply, type) \in LA_APPLY
         /\ AfterCommit(apply, type).used =>
              apply.used /\ AfterCommit(apply, type).start_lsa = apply.start_lsa
BY ZenonT(40) DEF AfterCommit, FreeApply, LA_APPLY, Lsa

(* A list is replaced by one that is closed or has the same start. *)
LEMMA ListReplaced ==
  ASSUME Inv, NEW t \in Tran, NEW new \in LA_APPLY,
         new.used => repl_lists[t].used /\ new.start_lsa = repl_lists[t].start_lsa
  PROVE  /\ [repl_lists EXCEPT ![t] = new] \in [Tran -> LA_APPLY]
         /\ \A u \in Tran : [repl_lists EXCEPT ![t] = new][u].used =>
              /\ repl_lists[u].used
              /\ [repl_lists EXCEPT ![t] = new][u].start_lsa = repl_lists[u].start_lsa
BY Zenon DEF Inv, TypeOK, ListTypeOK

(* What the end of an item, or of an entry, preserves. *)
ItemKeeps ==
  /\ ListTypeOK' /\ item' \in Nat /\ committed_lsa' \in Nat
  /\ pc' \in {"item", "list"} /\ (pc' = "item" => commit_list' # {})
  /\ \A t \in Tran : repl_lists'[t].used =>
       repl_lists[t].used /\ repl_lists'[t].start_lsa = repl_lists[t].start_lsa

(* The end of an item leaves the start of every list that stays open. *)
LEMMA ItemDoneKeeps ==
  ASSUME SetFacts, Inv, commit_list # {}, ItemDone
  PROVE  ItemKeeps
<1> DEFINE t == Commit.tranid
           apply == repl_lists[t]
           rest == apply.items \ {item}
<1>1. /\ t \in Tran /\ apply \in LA_APPLY /\ NextItem \in Nat /\ Commit.log_lsa \in Nat
      /\ commit_list \subseteq LA_COMMIT /\ committed_lsa \in Nat
  BY Zenon, CommitTyped, NextItemTyped DEF Inv, TypeOK, ListTypeOK, PositionTypeOK, Lsa
<1>2. rest \subseteq Nat
  BY Zenon, <1>1 DEF LA_APPLY, Lsa
<1>3. \A S \in SUBSET Nat : /\ [apply EXCEPT !.items = S] \in LA_APPLY
                            /\ [apply EXCEPT !.items = S].start_lsa = apply.start_lsa
                            /\ [apply EXCEPT !.items = S].used = apply.used
  BY Zenon, <1>1 DEF LA_APPLY, Lsa
<1>4. CASE NextItem # 0 /\ NextItem <= Commit.log_lsa
  <2>1. /\ repl_lists' = [repl_lists EXCEPT ![t] = [apply EXCEPT !.items = rest]]
        /\ item' = NextItem /\ pc' = "item" /\ UNCHANGED <<commit_list, committed_lsa>>
    BY Zenon, <1>4 DEF ItemDone
  <2> DEFINE new == [apply EXCEPT !.items = rest]
  <2>2. new \in LA_APPLY /\ new.start_lsa = apply.start_lsa /\ new.used = apply.used
    BY Zenon, <1>2, <1>3
  <2>3. repl_lists' = [repl_lists EXCEPT ![t] = new]
    BY Zenon, <2>1
  <2> HIDE DEF rest, new
  <2>4. /\ repl_lists' \in [Tran -> LA_APPLY]
        /\ \A u \in Tran : repl_lists'[u].used =>
              repl_lists[u].used /\ repl_lists'[u].start_lsa = repl_lists[u].start_lsa
    BY Zenon, <1>1, <2>2, <2>3, ListReplaced
  <2>5. pc' \in {"item", "list"} /\ commit_list' = commit_list /\ committed_lsa' = committed_lsa
    BY <2>1
  <2> QED
    BY Zenon, <1>1, <2>1, <2>4, <2>5 DEF ItemKeeps, ListTypeOK
<1>5. CASE ~(NextItem # 0 /\ NextItem <= Commit.log_lsa)
  <2> DEFINE new == IF NextItem # 0 /\ Commit.type = "COMMIT_TOPOPE"
                    THEN [apply EXCEPT !.items =
                            IF apply.is_long_trans THEN {NextItem} ELSE rest]
                    ELSE AfterCommit(apply, Commit.type)
  <2>1. repl_lists' = [repl_lists EXCEPT ![t] = new] /\ Dequeue
    BY Zenon, <1>5 DEF ItemDone
  <2>2. new \in LA_APPLY /\ (new.used => apply.used /\ new.start_lsa = apply.start_lsa)
    <3> DEFINE left == IF apply.is_long_trans THEN {NextItem} ELSE rest
    <3>1. left \in SUBSET Nat
      BY Zenon, <1>1, <1>2
    <3>2. new = [apply EXCEPT !.items = left] \/ new = AfterCommit(apply, Commit.type)
      BY Zenon
    <3>3. /\ AfterCommit(apply, Commit.type) \in LA_APPLY
          /\ AfterCommit(apply, Commit.type).used =>
               apply.used /\ AfterCommit(apply, Commit.type).start_lsa = apply.start_lsa
      BY Zenon, <1>1, AfterCommitTyped
    <3> HIDE DEF new, left, apply
    <3> QED
      BY ZenonT(40), <1>3, <3>1, <3>2, <3>3
  <2> HIDE DEF new
  <2> QED
    BY Zenon, <1>1, <2>1, <2>2, ListReplaced DEF ItemKeeps, ListTypeOK, Dequeue
<1> QED
  BY Zenon, <1>4, <1>5

(* A step of the apply loops that ends an item or an entry, or neither. *)
LEMMA ApplyFrame ==
  ASSUME Inv, UNCHANGED <<hdr, final_lsa, startVars, masterVars>>,
         DbKeeps(repl_lists, final_lsa), committed_rep_lsa' \in Nat,
         total_repl_items' \in 0..(LA_MAX_REPL_ITEMS - 1), ModeTypeOK', ListTypeOK',
         item' \in Nat, committed_lsa' \in Nat, pc' \in {"item", "list", "put"},
         pc' # "list" => commit_list' # {},
         \A t \in Tran : repl_lists'[t].used =>
           repl_lists[t].used /\ repl_lists'[t].start_lsa = repl_lists[t].start_lsa
  PROVE  Keeps
<1>1. PositionTypeOK'
  BY Zenon, PositionTypes, PositionKept DEF PC
<1>2. ReaderInv'
  BY Zenon, ReaderQuiet
<1> QED
  BY Zenon, <1>1, <1>2, StepKeeps

(* The early returns of la_apply_repl_log. *)
LEMMA ApplySkipStep ==
  ASSUME SetFacts, Inv, ApplySkip
  PROVE  Keeps
<1> DEFINE t == Commit.tranid
           new == IF repl_lists[t].used THEN AfterCommit(repl_lists[t], Commit.type)
                  ELSE repl_lists[t]
<1>1. /\ pc = "list" /\ commit_list # {} /\ Dequeue
      /\ repl_lists' = IF repl_lists[t].used
                       THEN [repl_lists EXCEPT ![t] = AfterCommit(@, Commit.type)]
                       ELSE repl_lists
  BY Zenon DEF ApplySkip, HeadReady
<1>2. UNCHANGED <<hdr, final_lsa, committed_rep_lsa, startVars, total_repl_items, need_commit,
                  is_end_of_record, haVars, dbVars, masterVars>>
  BY Zenon DEF ApplySkip
<1>3. /\ Commit \in commit_list /\ t \in Tran /\ Commit.log_lsa \in Nat
      /\ repl_lists[t] \in LA_APPLY
  BY Zenon, <1>1, CommitTyped
<1>4. repl_lists \in [Tran -> LA_APPLY] /\ commit_list \subseteq LA_COMMIT
  BY Zenon DEF Inv, TypeOK, ListTypeOK
<1>5. repl_lists' = [repl_lists EXCEPT ![t] = new]
  BY ZenonT(40), <1>1, <1>3, <1>4
<1>6. new \in LA_APPLY /\ (new.used => /\ repl_lists[t].used
                                       /\ new.start_lsa = repl_lists[t].start_lsa)
  BY Zenon, <1>3, AfterCommitTyped
<1> HIDE DEF new
<1>7. /\ repl_lists' \in [Tran -> LA_APPLY]
      /\ \A u \in Tran : repl_lists'[u].used =>
           repl_lists[u].used /\ repl_lists'[u].start_lsa = repl_lists[u].start_lsa
  BY SMTT(30), <1>3, <1>5, <1>6, ListReplaced
<1>8. ListTypeOK' /\ item' \in Nat /\ committed_lsa' \in Nat /\ pc' = "list"
  BY Zenon, <1>1, <1>3, <1>4, <1>7 DEF ListTypeOK, Dequeue
<1>9. ModeTypeOK'
  BY Zenon, <1>2 DEF Inv, TypeOK, ModeTypeOK, haVars
<1>10. DbKeeps(repl_lists, final_lsa)
  BY Zenon, <1>1, <1>2, DbQuiet
<1> QED
  BY SMTT(30), <1>2, <1>7, <1>8, <1>9, <1>10, PositionTypes, ApplyFrame

(* la_apply_repl_log takes the first item of the list. *)
LEMMA ApplyFirstStep ==
  ASSUME SetFacts, Inv, ApplyFirst
  PROVE  Keeps
<1>1. /\ pc = "list" /\ commit_list # {} /\ ~NothingToApply
      /\ item' = First(repl_lists[Commit.tranid].items)
      /\ db_lockf' = TRUE /\ pc' = "item"
  BY Zenon DEF ApplyFirst, HeadReady
<1>2. UNCHANGED <<hdr, final_lsa, committed_lsa, committed_rep_lsa, startVars, listVars,
                  total_repl_items, need_commit, is_end_of_record, apply_state, last_seen,
                  dbVars, masterVars>>
  BY Zenon DEF ApplyFirst
<1>3. item' \in Nat
  <2>1. repl_lists[Commit.tranid].items \subseteq Nat
    BY Zenon, <1>1, CommitTyped DEF LA_APPLY, Lsa
  <2>2. repl_lists[Commit.tranid].items # {}
    BY Zenon, <1>1 DEF NothingToApply
  <2> QED
    BY ZenonT(40), <1>1, <2>1, <2>2, FirstIsLeast
<1>4. ModeTypeOK'
  BY Zenon, <1>1, <1>2 DEF Inv, TypeOK, ModeTypeOK
<1>5. ListTypeOK' /\ UNCHANGED <<repl_lists, commit_list>>
  BY Zenon, <1>2 DEF Inv, TypeOK, ListTypeOK, listVars
<1>6. DbKeeps(repl_lists, final_lsa)
  BY Zenon, <1>1, <1>2, DbQuiet
<1> QED
  BY SMTT(30), <1>1, <1>2, <1>3, <1>4, <1>5, <1>6, PositionTypes, ApplyFrame

(* An item is filtered, or prepared with a forced commit at the limit. *)
LEMMA ApplyItemStep ==
  ASSUME SetFacts, Inv, ApplyItem
  PROVE  Keeps
<1>1. /\ pc = "item"
      /\ total_repl_items' = (total_repl_items + 1) % LA_MAX_REPL_ITEMS
      /\ la_log_commit(repl_lists, committed_lsa) \/ UNCHANGED dbVars
      /\ ItemDone \/ (pc' = "put" /\ UNCHANGED <<listVars, committed_lsa, item>>)
  BY Zenon DEF ApplyItem
<1>2. UNCHANGED <<hdr, final_lsa, committed_rep_lsa, startVars, need_commit, is_end_of_record,
                  haVars, masterVars>>
  BY Zenon DEF ApplyItem
<1>3. commit_list # {}
  BY Zenon, <1>1 DEF Inv, ReaderInv
<1>4. ModeTypeOK'
  BY Zenon, <1>2 DEF Inv, TypeOK, ModeTypeOK, haVars
<1>5. total_repl_items' \in 0..(LA_MAX_REPL_ITEMS - 1)
  BY <1>1, PositionTypes, LogApplierAssumption
<1>6. DbKeeps(repl_lists, final_lsa)
  <2>1. CASE la_log_commit(repl_lists, committed_lsa)
    BY Zenon, <1>1, <2>1, PositionTypes, DbCommit
  <2>2. CASE UNCHANGED dbVars
    BY Zenon, <1>1, <2>2, DbQuiet
  <2> QED
    BY Zenon, <1>1, <2>1, <2>2
<1>7. CASE ItemDone
  <2>1. ItemKeeps
    BY Zenon, <1>3, <1>7, ItemDoneKeeps
  <2> QED
    BY SMTT(30), <1>2, <1>4, <1>5, <1>6, <2>1, PositionTypes, ApplyFrame DEF ItemKeeps
<1>8. CASE pc' = "put" /\ UNCHANGED <<listVars, committed_lsa, item>>
  <2>1. ListTypeOK' /\ UNCHANGED <<repl_lists, commit_list>>
    BY Zenon, <1>8 DEF Inv, TypeOK, ListTypeOK, listVars
  <2> QED
    BY SMTT(30), <1>2, <1>3, <1>4, <1>5, <1>6, <1>8, <2>1, PositionTypes, ApplyFrame
<1> QED
  BY Zenon, <1>1, <1>7, <1>8

(* The slave takes or refuses an item. *)
LEMMA PutStep ==
  ASSUME SetFacts, Inv, PutItem \/ RejectItem
  PROVE  Keeps
<1>1. /\ pc = "put" /\ need_commit' = TRUE /\ ItemDone
      /\ committed_rep_lsa' = item \/ committed_rep_lsa' = committed_rep_lsa
      /\ pending' = Append(pending, item) \/ pending' = pending
      /\ rejected' = rejected \/ rejected' = rejected \cup {item}
  BY Zenon DEF PutItem, RejectItem
<1>2. UNCHANGED <<hdr, final_lsa, startVars, total_repl_items, is_end_of_record, haVars,
                  row, slave, faults, masterVars>>
  BY Zenon DEF PutItem, RejectItem
<1>3. commit_list # {}
  BY Zenon, <1>1 DEF Inv, ReaderInv
<1>4. ModeTypeOK'
  BY Zenon, <1>1, <1>2 DEF Inv, TypeOK, ModeTypeOK, haVars
<1>5. committed_rep_lsa' \in Nat
  BY Zenon, <1>1, PositionTypes
<1>6. DbKeeps(repl_lists, final_lsa)
  <2>1. /\ pending \in Seq(Nat) /\ rejected \subseteq Nat /\ item \in Nat
        /\ row \in ApplyInfo /\ slave \in Seq(Lsa) /\ faults \in [Fault -> Nat]
    BY Zenon, PositionTypes DEF Inv, TypeOK, DbTypeOK, Lsa
  <2>2. Append(pending, item) \in Seq(Nat)
    BY Zenon, <2>1, Appended
  <2>3. pending' \in Seq(Lsa) /\ rejected' \subseteq Lsa
    BY ZenonT(40), <1>1, <2>1, <2>2 DEF Lsa
  <2>4. row.required_lsa <= final_lsa /\ StartIn(repl_lists, row.required_lsa, final_lsa)
    BY Zenon, <1>1 DEF Inv, RequiredInv
  <2> QED
    BY SMTT(30), <1>2, <2>1, <2>3, <2>4, InvTypes DEF DbKeeps
<1>7. ItemKeeps
  BY Zenon, <1>1, <1>3, ItemDoneKeeps
<1> QED
  BY SMTT(30), <1>2, <1>4, <1>5, <1>6, <1>7, PositionTypes, ApplyFrame DEF ItemKeeps

(* The item is retried after the slave rolled the transaction back. *)
LEMMA RetryStep ==
  ASSUME Inv, RetryAfterUnilateralAbort
  PROVE  Keeps
<1>1. pc = "put" /\ FaultHappens("unilateral") /\ pending' = <<>> /\ pc' = "item"
  BY Zenon DEF RetryAfterUnilateralAbort
<1>2. UNCHANGED <<hdr, final_lsa, committed_lsa, committed_rep_lsa, startVars, listVars,
                  itemVars, need_commit, is_end_of_record, haVars, row, slave,
                  rejected, masterVars>>
  BY Zenon DEF RetryAfterUnilateralAbort
<1>3. commit_list # {}
  BY Zenon, <1>1 DEF Inv, ReaderInv
<1>4. ModeTypeOK'
  BY Zenon, <1>2 DEF Inv, TypeOK, ModeTypeOK, haVars
<1>5. ListTypeOK' /\ UNCHANGED <<repl_lists, commit_list, item, total_repl_items>>
  BY Zenon, <1>2 DEF Inv, TypeOK, ListTypeOK, listVars, itemVars
<1>6. DbKeeps(repl_lists, final_lsa)
  <2>1. faults' \in [Fault -> Nat]
    BY Zenon, <1>1, FaultCounted DEF Inv, Fault
  <2>2. row \in ApplyInfo /\ slave \in Seq(Lsa) /\ rejected \subseteq Lsa
    BY Zenon DEF Inv, TypeOK, DbTypeOK
  <2>3. pending' \in Seq(Lsa)
    BY <1>1
  <2>4. row.required_lsa <= final_lsa /\ StartIn(repl_lists, row.required_lsa, final_lsa)
    BY Zenon, <1>1 DEF Inv, RequiredInv
  <2> QED
    <3>1. row' = row /\ slave' = slave /\ rejected' = rejected
      BY Zenon, <1>2
    <3>2. row.required_lsa <= row.required_lsa
      BY InvTypes
    <3> QED BY Zenon, <2>1, <2>2, <2>3, <2>4, <3>1, <3>2 DEF DbKeeps
<1> QED
  BY SMTT(30), <1>1, <1>2, <1>3, <1>4, <1>5, <1>6, PositionTypes, ApplyFrame

(* The initial state satisfies the invariant. *)
LEMMA InitInv == Init => Inv
<1> SUFFICES ASSUME Init PROVE Inv
  BY Zenon
<1> USE DEF Init, MasterInit, ApplierInit
<1>1. MasterTypeOK /\ log \in Seq(OwnedRec)
  BY SMTT(60) DEF MasterTypeOK, TranState, ServerState
<1>2. PositionTypeOK
  BY SMTT(60), LogApplierAssumption
     DEF PositionTypeOK, PC, NoHeader, LogHeader, ServerState, Lsa
<1>3. ListTypeOK /\ ModeTypeOK
  BY ZenonT(40) DEF ListTypeOK, ModeTypeOK, FreeApply, LA_APPLY, Lsa, ApplyState
<1>4. DbTypeOK
  BY DEF DbTypeOK, FirstRow, ApplyInfo, Lsa
<1>5. ReaderInv /\ RequiredInv
  BY SMTT(30), <1>1 DEF ReaderInv, RequiredInv, StartIn, NoHeader, FreeApply, FirstRow
<1> QED
  BY SMTT(60), <1>1, <1>2, <1>3, <1>4, <1>5 DEF Inv, TypeOK

(* Every step keeps the invariant and never lowers the saved required_lsa. *)
LEMMA NextKeeps == SetFacts /\ Inv /\ [Next]_vars => Keeps
<1> SUFFICES ASSUME SetFacts, Inv, [Next]_vars PROVE Keeps
  BY SMTT(60)
<1>1. CASE UNCHANGED vars
  <2>1. UNCHANGED <<masterVars, applierVars>>
    BY SMTT(60), <1>1 DEF vars
  <2>2. MasterTypeOK' /\ PositionTypeOK' /\ ListTypeOK' /\ ModeTypeOK' /\ DbTypeOK'
    BY ZenonT(40), <2>1
       DEF Inv, TypeOK, MasterTypeOK, PositionTypeOK, ListTypeOK, ModeTypeOK, DbTypeOK,
                masterVars, applierVars
  <2>3. ReaderInv' /\ RequiredInv' /\ row' = row
    BY ZenonT(40), <2>1 DEF Inv, ReaderInv, RequiredInv, StartIn, masterVars, applierVars
  <2> QED
    BY SMTT(30), <2>2, <2>3, InvTypes DEF Keeps, Inv, TypeOK
<1>2. CASE MasterNext /\ UNCHANGED applierVars
  BY <1>2, MasterStep, InvTypes DEF Keeps
<1>3. CASE la_log_record_process
  BY Zenon, <1>3, ProcessStep, ProcessCommitStep, ProcessHaServerStateStep DEF la_log_record_process
<1>4. CASE la_apply_commit_list
  BY SMTT(30), <1>4, ApplySkipStep, ApplyFirstStep, ApplyItemStep, PutStep, RetryStep, QuietStep
     DEF la_apply_commit_list
<1>5. CASE \/ ReadPage \/ DoneLoop \/ la_log_fetch \/ EndOfLog \/ TimeCommitNotDue
           \/ la_check_time_commit \/ la_change_state \/ la_shutdown
           \/ la_get_last_ha_applied_info
  BY SMTT(30), <1>5, QuietStep, DoneStep, RefetchStep, TimeCommitStep, ChangeStateStep, StopStep,
     StartStep
<1> QED
  BY SMTT(60), <1>1, <1>2, <1>3, <1>4, <1>5 DEF Next, ApplierNext

-----------------------------------------------------------------------------
(* What has been copied.                                                   *)

\* The copied records are in the log.
LEMMA Copied ==
  ASSUME Inv
  PROVE  /\ eof \in Nat
         /\ \A i \in 1 .. eof : i \in Nat /\ i \in 1 .. Len(log) /\ log[i] \in OwnedRec
<1>1. PICK e \in Nat, n \in Nat : e = eof /\ n = Len(log) /\ e <= n
  BY Zenon, ListTypes
<1>2. \A i \in 1 .. e : i \in Nat /\ i \in 1 .. n
  BY <1>1
<1>3. log \in Seq(OwnedRec)
  BY Zenon DEF Inv, ReaderInv
<1> QED BY <1>1, <1>2, <1>3

\* The kinds of records that matter are records of a transaction.
LEMMA Records ==
  ASSUME Inv, NEW i, NEW t
  PROVE  /\ IsItem(i, t) => IsRecord(i, t) /\ t \in Tran
         /\ IsUnlock(i, t) => IsRecord(i, t) /\ t \in Tran
         /\ IsEnd(i, t) => IsRecord(i, t) /\ t \in Tran
         /\ IsCommit(i, t) => IsRecord(i, t) /\ t \in Tran
         /\ IsRecord(i, t) => i \in Nat /\ i <= eof
<1>1. IsRecord(i, t) => i \in Nat /\ i <= eof /\ log[i] \in OwnedRec
  BY Copied DEF IsRecord
<1> QED BY Zenon, <1>1 DEF IsItem, IsUnlock, IsEnd, IsCommit, IsRecord, OwnedRec, SystemType

\* A transaction begins with its first record.
LEMMA HasFirst ==
  ASSUME Inv, PlainInv, NEW i, NEW t, IsRecord(i, t)
  PROVE  \E f \in Nat : IsFirst(f, t) /\ f <= i
<1>1. i \in Nat /\ i \in 1 .. Len(log) /\ i <= eof /\ eof \in Nat
  BY Zenon, Copied, Records DEF IsRecord
<1>2. Opened(i, log[i].trid)
  BY Zenon, <1>1 DEF PlainInv, FirstInv, FirstOK
<1>3. PICK f \in 1 .. i : log[f].trid = t /\ log[f].first
  BY Zenon, <1>2 DEF Opened, IsRecord
<1>4. f \in Nat /\ f <= i /\ f \in 1 .. eof
  BY <1>1
<1> QED BY Zenon, <1>3, <1>4 DEF IsFirst

\* The first record is no item and the only one.
LEMMA FirstAlone ==
  ASSUME Inv, PlainInv, NEW f, NEW t, IsFirst(f, t)
  PROVE  /\ f \in Nat /\ f <= eof /\ log[f].type = "DATA"
         /\ \A i : IsRecord(i, t) => f <= i
         /\ \A g : IsFirst(g, t) => g = f
<1>1. f \in 1 .. eof /\ log[f].trid = t
  BY Zenon DEF IsFirst
<1>2. f \in Nat /\ f <= eof /\ f \in 1 .. Len(log) /\ eof \in Nat
  BY <1>1, Copied
<1>3. log[f].type = "DATA" /\ \A j \in 1 .. f - 1 : log[j].trid # t
  BY Zenon, <1>1, <1>2 DEF PlainInv, FirstInv, FirstOK, IsFirst
<1>4. \A i : IsRecord(i, t) => f <= i
  BY <1>2, <1>3 DEF IsRecord
<1>5. ASSUME NEW g, IsFirst(g, t) PROVE g = f
  <2>1. g \in 1 .. eof /\ log[g].trid = t
    BY Zenon, <1>5 DEF IsFirst
  <2>2. g \in Nat /\ g \in 1 .. Len(log) /\ f <= g
    BY Zenon, <1>4, <2>1, Copied DEF IsRecord
  <2>3. \A j \in 1 .. g - 1 : log[j].trid # t
    BY Zenon, <1>5, <2>1, <2>2 DEF PlainInv, FirstInv, FirstOK, IsFirst
  <2> QED BY <1>1, <1>2, <2>2, <2>3
<1> QED BY Zenon, <1>2, <1>3, <1>4, <1>5

\* An item has a first record before it: it is not at address 1.
LEMMA ItemHasFirst ==
  ASSUME Inv, PlainInv, NEW i, NEW t, IsItem(i, t)
  PROVE  /\ i \in Nat /\ i <= eof /\ 1 < i
         /\ \E f \in Nat : IsFirst(f, t) /\ f < i
<1>1. IsRecord(i, t) /\ i \in Nat /\ i <= eof /\ log[i].type = "REPLICATION"
  BY Zenon, Records DEF IsItem
<1>2. PICK f \in Nat : IsFirst(f, t) /\ f <= i
  BY Zenon, <1>1, HasFirst
<1>3. log[f].type = "DATA"
  BY Zenon, <1>2, FirstAlone
<1>4. f # i
  BY Zenon, <1>1, <1>3
<1>5. 1 <= f
  BY <1>2 DEF IsFirst
<1> QED BY <1>1, <1>2, <1>4, <1>5

\* A transaction ends once.
LEMMA UnlockOnce ==
  ASSUME Inv, LogShape, NEW p, NEW t, IsEnd(p, t), NEW q, IsRecord(q, t), p < q
  PROVE  log[q].type \in EndType
<1>1. t \in Tran /\ p \in 1 .. eof /\ log[p].trid = t
  BY Zenon, Records DEF IsEnd
<1>2. p \in 1 .. Len(log) /\ q \in 1 .. Len(log) /\ log[q].trid = t
  BY Zenon, <1>1, Copied DEF IsRecord
<1> QED BY Zenon, <1>1, <1>2 DEF LogShape, OrderInv, IsEnd, EndType

\* There is one UNLOCK_COMMIT, and the items precede it.
LEMMA OneUnlock ==
  ASSUME Inv, LogShape, NEW p, NEW t, IsUnlock(p, t)
  PROVE  /\ IsEnd(p, t)
         /\ \A q : IsUnlock(q, t) => q = p
         /\ \A i : IsItem(i, t) => i < p
<1>1. IsEnd(p, t) /\ p \in Nat
  BY Zenon, Records DEF IsUnlock, IsEnd, IsRecord
<1>2. ASSUME NEW q, IsUnlock(q, t) PROVE q = p
  <2>1. IsEnd(q, t) /\ q \in Nat /\ IsRecord(q, t) /\ IsRecord(p, t)
    BY Zenon, <1>1, <1>2, Records DEF IsUnlock, IsEnd
  <2>2. ~(p < q) /\ ~(q < p)
    BY Zenon, <1>1, <1>2, <2>1, UnlockOnce DEF IsUnlock, EndType
  <2> QED BY <1>1, <2>1, <2>2
<1>3. ASSUME NEW i, IsItem(i, t) PROVE i < p
  <2>1. IsRecord(i, t) /\ i \in Nat
    BY Zenon, <1>3, Records
  <2>2. ~(p < i) /\ p # i
    BY Zenon, <1>1, <1>3, <2>1, UnlockOnce DEF IsUnlock, IsItem, EndType
  <2> QED BY <1>1, <2>1, <2>2
<1> QED BY Zenon, <1>1, <1>2, <1>3

\* Items are copied in whole blocks.
LEMMA ItemBlock ==
  ASSUME Inv, PlainInv, NEW i, NEW t, IsItem(i, t)
  PROVE  \E q \in Nat : IsUnlock(q, t) /\ i < q /\ \A k \in i .. q : log[k].trid = t
<1>1. i \in 1 .. eof /\ i \in Nat /\ eof \in Nat /\ log[i].type = "REPLICATION" /\ log[i].trid = t
  BY Zenon, Copied DEF IsItem
<1>2. PICK q \in i + 1 .. eof : BlockTo(i, q)
  BY Zenon, <1>1 DEF PlainInv, Blocks
<1>3. q \in Nat /\ i < q /\ q \in 1 .. eof /\ q \in i .. q
  BY <1>1
<1> QED BY Zenon, <1>1, <1>2, <1>3 DEF BlockTo, IsUnlock

\* The blocks do not interleave: the item of another transaction behind an item
\* is also behind its UNLOCK_COMMIT.
LEMMA BlockOrder ==
  ASSUME Inv, PlainInv, NEW i, NEW s, IsItem(i, s), NEW j, NEW t, IsItem(j, t), s # t, i < j
  PROVE  \E q \in Nat : IsUnlock(q, s) /\ i < q /\ q < j
<1>1. PICK q \in Nat : IsUnlock(q, s) /\ i < q /\ \A k \in i .. q : log[k].trid = s
  BY Zenon, ItemBlock
<1>2. j \in Nat /\ log[j].trid = t /\ i \in Nat
  BY Zenon, Copied DEF IsItem
<1>3. ~(j <= q)
  BY <1>1, <1>2
<1> QED BY <1>1, <1>2, <1>3

\* What a transaction has that aborted: no items.
LEMMA AbortEmpty ==
  ASSUME Inv, PlainInv, NEW q, NEW t, IsEnd(q, t), log[q].type = "ABORT", NEW i
  PROVE  ~IsItem(i, t)
<1> SUFFICES ASSUME IsItem(i, t) PROVE FALSE
  BY Zenon
<1>1. PICK p \in Nat : IsUnlock(p, t)
  BY Zenon, ItemBlock
<1>2. p \in 1 .. Len(log) /\ q \in 1 .. Len(log) /\ log[p].type = "UNLOCK_COMMIT"
      /\ log[p].trid = t /\ log[q].trid = t
  BY Zenon, <1>1, Copied DEF IsUnlock, IsEnd
<1> QED BY Zenon, <1>2 DEF PlainInv, AbortInv

\* What a transaction has that committed: an UNLOCK_COMMIT before the COMMIT.
LEMMA CommitUnlocked ==
  ASSUME Inv, LogShape, NEW c, NEW t, IsCommit(c, t)
  PROVE  \E p \in Nat : IsUnlock(p, t) /\ p < c
<1>1. c \in 1 .. eof /\ c \in Nat /\ c \in 1 .. Len(log) /\ eof \in Nat
      /\ log[c].type = "COMMIT" /\ log[c].trid = t
  BY Zenon, Copied DEF IsCommit
<1>2. PICK p \in 1 .. c - 1 : log[p].type = "UNLOCK_COMMIT" /\ log[p].trid = t
  BY Zenon, <1>1 DEF LogShape, CommitInv, UnlockedBefore
<1>3. p \in Nat /\ p < c /\ p \in 1 .. eof
  BY <1>1
<1> QED BY Zenon, <1>1, <1>2, <1>3 DEF IsUnlock

\* What the steps of the applier need to know of the types.
LEMMA NTypes ==
  ASSUME Inv
  PROVE  /\ committed_lsa \in Nat /\ committed_rep_lsa \in Nat /\ last_committed_lsa \in Nat
         /\ last_committed_rep_lsa \in Nat /\ ReadTo \in Nat /\ eof \in Nat /\ item \in Nat
         /\ final_lsa \in Nat /\ row.committed_lsa \in Nat /\ row.committed_rep_lsa \in Nat
         /\ row.required_lsa \in Nat /\ rejected \subseteq Nat
         /\ slave \in Seq(Nat) /\ pending \in Seq(Nat)
         /\ repl_lists \in [Tran -> LA_APPLY] /\ commit_list \subseteq LA_COMMIT
         /\ \A c \in commit_list : c.log_lsa \in Nat /\ c.tranid \in Tran
<1>1. ReadTo \in Nat /\ eof \in Nat /\ repl_lists \in [Tran -> LA_APPLY]
      /\ commit_list \subseteq LA_COMMIT
  BY Zenon, ListTypes
<1>2. \A c \in commit_list : c.log_lsa \in Nat /\ c.tranid \in Tran
  BY Zenon, <1>1 DEF LA_COMMIT, Lsa
<1>3. /\ row.committed_lsa \in Nat /\ row.committed_rep_lsa \in Nat /\ row.required_lsa \in Nat
      /\ rejected \subseteq Nat /\ slave \in Seq(Nat) /\ pending \in Seq(Nat)
  BY Zenon DEF Inv, TypeOK, DbTypeOK, ApplyInfo, Lsa
<1>4. /\ committed_lsa \in Nat /\ committed_rep_lsa \in Nat /\ last_committed_lsa \in Nat
      /\ last_committed_rep_lsa \in Nat /\ item \in Nat /\ final_lsa \in Nat
  BY Zenon DEF Inv, TypeOK, PositionTypeOK, Lsa
<1> QED BY Zenon, <1>1, <1>2, <1>3, <1>4

-----------------------------------------------------------------------------
(* What a step of the applier leaves.                                      *)

\* A step of the applier changes none of what these say of the log.
LEMMA Same ==
  ASSUME UNCHANGED masterVars
  PROVE  \A i, t : /\ IsItem(i, t)' <=> IsItem(i, t)
                   /\ IsUnlock(i, t)' <=> IsUnlock(i, t)
                   /\ IsEnd(i, t)' <=> IsEnd(i, t)
                   /\ IsCommit(i, t)' <=> IsCommit(i, t)
                   /\ IsFirst(i, t)' <=> IsFirst(i, t)
<1>1. log' = log /\ eof' = eof
  BY Zenon DEF masterVars
<1>2. PICK l, e : l = log /\ e = eof
  BY Zenon
<1>3. l = log' /\ e = eof'
  BY Zenon, <1>1, <1>2
<1> TAKE i, t
<1>4. IsItem(i, t)' <=> IsItem(i, t)
  BY Zenon, <1>1 DEF IsItem
<1>5. IsUnlock(i, t)' <=> IsUnlock(i, t)
  BY Zenon, <1>1 DEF IsUnlock
<1>6. IsEnd(i, t)' <=> IsEnd(i, t)
  BY Zenon, <1>1 DEF IsEnd
<1>7. IsCommit(i, t)' <=> IsCommit(i, t)
  BY Zenon, <1>1 DEF IsCommit
<1>8. IsFirst(i, t)' <=> IsFirst(i, t)
  BY Zenon, <1>1 DEF IsFirst
<1> QED BY Zenon, <1>4, <1>5, <1>6, <1>7, <1>8

\* Nor of a transaction that is over.
LEMMA SameOver ==
  ASSUME UNCHANGED masterVars, NEW r, NEW J, NEW t
  PROVE  /\ AllDone(t, r, J) => AllDone(t, r, J)'
         /\ Over(t, r, J) => Over(t, r, J)'
<1>1. AllDone(t, r, J) => AllDone(t, r, J)'
  BY Zenon, Same DEF AllDone, Done
<1>2. (\E q \in Nat : IsEnd(q, t)) => (\E q \in Nat : IsEnd(q, t))'
  BY Zenon, Same
<1> QED BY Zenon, <1>1, <1>2 DEF Over

\* Nor of what is claimed.
LEMMA SameClaim ==
  ASSUME UNCHANGED masterVars, NEW r, NEW J, NEW lsa
  PROVE  /\ ClaimInv(lsa, r, J) => ClaimInv(lsa, r, J)'
         /\ OverBefore(lsa, r, J) => OverBefore(lsa, r, J)'
<1>1. ClaimInv(lsa, r, J) => ClaimInv(lsa, r, J)'
  BY Zenon, Same, SameOver DEF ClaimInv
<1>2. OverBefore(lsa, r, J) => OverBefore(lsa, r, J)'
  BY Zenon, Same, SameOver DEF OverBefore
<1> QED BY Zenon, <1>1, <1>2

\* Nor of what is applied.
LEMMA SameSeq ==
  ASSUME UNCHANGED masterVars, NEW s, NEW r, NEW J, SeqInv(s, r, J)
  PROVE  SeqInv(s, r, J)'
<1>1. r <= 1 \/ r <= eof'
  BY Zenon DEF SeqInv, masterVars
<1>2. \A i \in Nat, t \in Tran : IsItem(i, t)' /\ i <= r => i \in J \/ In(s, i)
  BY Zenon, Same DEF SeqInv
<1>3. ASSUME NEW k \in DOMAIN s
      PROVE  /\ s[k] <= r
             /\ (\E t \in Tran : IsItem(s[k], t) /\ \E c \in Nat : IsCommit(c, t))'
  <2>1. PICK t \in Tran : s[k] <= r /\ IsItem(s[k], t) /\ \E c \in Nat : IsCommit(c, t)
    BY Zenon DEF SeqInv
  <2>2. IsItem(s[k], t)' /\ \E c \in Nat : IsCommit(c, t)'
    BY Zenon, <2>1, Same
  <2> QED BY Zenon, <2>1, <2>2
<1>4. \A j, k \in DOMAIN s : j < k => s[j] < s[k]
  BY Zenon DEF SeqInv
<1> QED BY Zenon, <1>1, <1>2, <1>3, <1>4 DEF SeqInv, In

\* Nor of the open lists.
LEMMA SameOpen ==
  ASSUME UNCHANGED masterVars, NEW lists, NEW R, NEW r, NEW J, OpenInv(lists, R, r, J)
  PROVE  OpenInv(lists, R, r, J)'
<1> SUFFICES ASSUME NEW t \in Tran
             PROVE  /\ lists[t].used => IsFirst(lists[t].start_lsa, t)' /\ lists[t].start_lsa < R
                    /\ ~lists[t].used => \A f \in Nat : IsFirst(f, t)' /\ f < R => Over(t, r, J)'
  BY Zenon DEF OpenInv
<1>1. PICK a : a = lists[t].start_lsa
  BY Zenon
<1>2. lists[t].used => IsFirst(a, t)' /\ a < R
  BY Zenon, <1>1, Same DEF OpenInv
<1>3. ~lists[t].used => \A f \in Nat : IsFirst(f, t)' /\ f < R => Over(t, r, J)'
  BY Zenon, Same, SameOver DEF OpenInv
<1> QED BY Zenon, <1>1, <1>2, <1>3

\* Nor of the UNLOCK_COMMITs that wait.
LEMMA SameQueue ==
  ASSUME UNCHANGED masterVars, NEW lists, NEW list, NEW R, QueueInv(lists, list, R)
  PROVE  QueueInv(lists, list, R)'
BY Zenon, Same DEF QueueInv

\* Nor of the types of the entries.
LEMMA SameTypes ==
  ASSUME UNCHANGED masterVars, NEW list, TypesInv(list)
  PROVE  TypesInv(list)'
<1> SUFFICES ASSUME NEW c \in list
             PROVE  /\ c.type # "COMMIT_TOPOPE"
                    /\ c.type = "ABORT" => log'[c.log_lsa].type = "ABORT"
                    /\ c.type = "COMMIT" => \E q \in Nat : IsCommit(q, c.tranid)'
  BY Zenon DEF TypesInv
<1>1. log' = log
  BY Zenon DEF masterVars
<1> QED BY Zenon, <1>1, Same DEF TypesInv

\* Nor of the items in the lists.
LEMMA SameHeld ==
  ASSUME UNCHANGED masterVars, NEW lists, NEW X, NEW R, NEW r, NEW R0, NEW J,
         HeldInv(lists, X, R, r, R0, J)
  PROVE  HeldInv(lists, X, R, r, R0, J)'
<1>1. ASSUME NEW t, NEW a, Held(a, t, R, r, R0, J) PROVE Held(a, t, R, r, R0, J)'
  <2>1. (a.is_long_trans => a.items # {}) /\ \A k \in a.items : k < R
    BY Zenon, <1>1 DEF Held
  <2>2. \A i \in Nat : IsItem(i, t)' /\ i < R =>
          /\ Done(i, r, J) \/ (Reach(a, i) /\ \E k \in a.items : k <= i)
          /\ i <= R0 \/ r < i
    BY Zenon, <1>1, Same DEF Held
  <2> QED BY Zenon, <2>1, <2>2 DEF Held, Done, Reach
<1> SUFFICES ASSUME NEW t \in Tran \ X, lists[t].used PROVE Held(lists[t], t, R, r, R0, J)'
  BY Zenon DEF HeldInv
<1>2. PICK a : a = lists[t]
  BY Zenon
<1>3. Held(a, t, R, r, R0, J)
  BY Zenon, <1>2 DEF HeldInv
<1> QED BY Zenon, <1>1, <1>2, <1>3

\* Nor of the list that the item loop works on.
LEMMA SameLoop ==
  ASSUME UNCHANGED masterVars, NEW lists, NEW h, NEW it, NEW R, NEW r, NEW R0, NEW J,
         LoopHeld(lists, h, it, R, r, R0, J)
  PROVE  LoopHeld(lists, h, it, R, r, R0, J)'
<1>1. PICK a, t : a = lists[h.tranid] /\ t = h.tranid
  BY Zenon
<1>2. a.used /\ h.type = "COMMIT" /\ IsItem(it, t) /\ HeldFrom(a, t, it, R, r, R0, J)
  BY Zenon, <1>1 DEF LoopHeld
<1>3. IsItem(it, t)'
  BY Zenon, <1>2, Same
<1>4. \A i \in Nat : IsItem(i, t)' /\ i < R =>
        /\ i = it \/ Done(i, r, J) \/ (it < i /\ Reach(a, i))
        /\ i <= R0 \/ r < i \/ i < it
  BY Zenon, <1>2, Same DEF HeldFrom
<1>5. HeldFrom(a, t, it, R, r, R0, J)'
  BY Zenon, <1>4 DEF HeldFrom, Done, Reach
<1> QED BY Zenon, <1>1, <1>2, <1>3, <1>5 DEF LoopHeld

\* What a step of the applier leaves is what it says of the new values.
LEMMA UpCarry ==
  ASSUME UNCHANGED masterVars, PlaceInv',
         NEW L, L = repl_lists', NEW Q, Q = commit_list', NEW R, R = ReadTo',
         NEW C, C = committed_lsa', NEW r, r = committed_rep_lsa',
         NEW C0, C0 = last_committed_lsa', NEW R0, R0 = last_committed_rep_lsa',
         NEW J, J = rejected', NEW s, s = Applied', NEW X, X = LoopTran',
         SeqInv(s, r, J), ClaimInv(C, r, J), ClaimInv(C0, r, J), OpenInv(L, R, r, J),
         QueueInv(L, Q, R), TypesInv(Q), HeldInv(L, X, R, r, R0, J),
         NEW h, h = Commit', NEW it, it = item',
         InLoop' => LoopHeld(L, h, it, R, r, R0, J) /\ (pc' = "put" => R0 < it)
  PROVE  UpInv'
<1>1. SeqInv(s, r, J)' /\ ClaimInv(C, r, J)' /\ ClaimInv(C0, r, J)'
  BY Zenon, SameSeq, SameClaim
<1>2. SeqInv(Applied, committed_rep_lsa, rejected)'
  BY Zenon, <1>1
<1>3. ClaimInv(committed_lsa, committed_rep_lsa, rejected)'
  BY Zenon, <1>1
<1>4. ClaimInv(last_committed_lsa, committed_rep_lsa, rejected)'
  BY Zenon, <1>1
<1>5. OpenInv(repl_lists, ReadTo, committed_rep_lsa, rejected)'
  <2>1. OpenInv(L, R, r, J)'
    BY Zenon, SameOpen
  <2> QED BY Zenon, <2>1
<1>6. QueueInv(repl_lists, commit_list, ReadTo)' /\ TypesInv(commit_list)'
  <2>1. QueueInv(L, Q, R)' /\ TypesInv(Q)'
    BY Zenon, SameQueue, SameTypes
  <2> QED BY Zenon, <2>1
<1>7. HeldInv(repl_lists, LoopTran, ReadTo, committed_rep_lsa, last_committed_rep_lsa, rejected)'
  <2>1. HeldInv(L, X, R, r, R0, J)'
    BY Zenon, SameHeld
  <2> QED BY Zenon, <2>1
<1>8. LoopPlace'
  <2>1. ASSUME InLoop'
        PROVE  /\ LoopHeld(repl_lists, Commit, item, ReadTo, committed_rep_lsa,
                           last_committed_rep_lsa, rejected)'
               /\ pc' = "put" => last_committed_rep_lsa' < item'
    <3>1. LoopHeld(L, h, it, R, r, R0, J)' /\ (pc' = "put" => R0 < it)
      BY Zenon, <2>1, SameLoop
    <3> QED BY Zenon, <3>1
  <2> QED BY Zenon, <2>1 DEF LoopPlace
<1> QED BY Zenon, <1>2, <1>3, <1>4, <1>5, <1>6, <1>7, <1>8 DEF UpInv

\* Done stays done.
LEMMA Grows ==
  ASSUME NEW r \in Nat, NEW r1 \in Nat, r <= r1, NEW J, NEW J1, J \subseteq J1
  PROVE  /\ \A i \in Nat : Done(i, r, J) => Done(i, r1, J1)
         /\ \A t : AllDone(t, r, J) => AllDone(t, r1, J1)
         /\ \A t : Over(t, r, J) => Over(t, r1, J1)
         /\ \A lsa : ClaimInv(lsa, r, J) => ClaimInv(lsa, r1, J1)
         /\ \A lsa : OverBefore(lsa, r, J) => OverBefore(lsa, r1, J1)
         /\ \A lists, R : OpenInv(lists, R, r, J) => OpenInv(lists, R, r1, J1)
<1>1. \A i \in Nat : Done(i, r, J) => Done(i, r1, J1)
  BY DEF Done
<1>2. \A t : AllDone(t, r, J) => AllDone(t, r1, J1)
  BY Zenon, <1>1 DEF AllDone
<1>3. \A t : Over(t, r, J) => Over(t, r1, J1)
  BY Zenon, <1>2 DEF Over
<1>4. \A lsa : ClaimInv(lsa, r, J) => ClaimInv(lsa, r1, J1)
  BY Zenon, <1>2 DEF ClaimInv
<1>5. \A lsa : OverBefore(lsa, r, J) => OverBefore(lsa, r1, J1)
  BY Zenon, <1>3 DEF OverBefore
<1>6. \A lists, R : OpenInv(lists, R, r, J) => OpenInv(lists, R, r1, J1)
  BY Zenon, <1>3 DEF OpenInv
<1> QED BY Zenon, <1>1, <1>2, <1>3, <1>4, <1>5, <1>6

\* The row stays, and at most one more item is refused.
LEMMA RowCarry ==
  ASSUME Inv, RowInv, UNCHANGED masterVars, row' = row, slave' = slave,
         rejected \subseteq rejected'
  PROVE  RowInv'
<1>1. PICK s, r, J, J1, c, q : /\ s = slave /\ r = row.committed_rep_lsa /\ J = rejected
                               /\ J1 = rejected' /\ c = row.committed_lsa /\ q = row.required_lsa
  BY Zenon
<1>2. r \in Nat /\ J \subseteq J1 /\ r <= r
  BY <1>1 DEF Inv, TypeOK, DbTypeOK, ApplyInfo, Lsa
<1>3. SeqInv(s, r, J) /\ OverBefore(q, r, J) /\ ClaimInv(c, r, J) /\ (c <= eof \/ c <= q)
  BY Zenon, <1>1 DEF RowInv
<1>4. SeqInv(s, r, J1)
  BY Zenon, <1>2, <1>3 DEF SeqInv
<1>5. OverBefore(q, r, J1) /\ ClaimInv(c, r, J1)
  BY Zenon, <1>2, <1>3, Grows
<1>6. SeqInv(s, r, J1)' /\ OverBefore(q, r, J1)' /\ ClaimInv(c, r, J1)'
  BY Zenon, <1>4, <1>5, SameSeq, SameClaim
<1>7. c <= eof' \/ c <= q
  BY Zenon, <1>3 DEF masterVars
<1>8. s = slave' /\ r = row'.committed_rep_lsa /\ c = row'.committed_lsa /\ q = row'.required_lsa
  BY Zenon, <1>1
<1>9. /\ SeqInv(slave, row.committed_rep_lsa, rejected)'
      /\ OverBefore(row.required_lsa, row.committed_rep_lsa, rejected)'
      /\ ClaimInv(row.committed_lsa, row.committed_rep_lsa, rejected)'
  BY Zenon, <1>1, <1>6, <1>8
<1> QED BY Zenon, <1>7, <1>8, <1>9 DEF RowInv

-----------------------------------------------------------------------------
(* la_log_commit.                                                          *)

\* Every transaction that began before the oldest open list is over.
LEMMA RequiredOver ==
  ASSUME SetFacts, Inv, PlainInv, pc # "down", NEW R \in Nat, final_lsa <= R, NEW r, NEW J,
         OpenInv(repl_lists, R, r, J)
  PROVE  /\ la_find_required_lsa(repl_lists) \in Nat
         /\ OverBefore(la_find_required_lsa(repl_lists), r, J)
<1>1. PICK q : q = la_find_required_lsa(repl_lists)
  BY Zenon
<1>2. /\ repl_lists \in [Tran -> LA_APPLY] /\ final_lsa \in Nat /\ row.required_lsa \in Nat
      /\ row.required_lsa <= final_lsa /\ StartIn(repl_lists, row.required_lsa, final_lsa)
  BY Zenon, NTypes DEF Inv, RequiredInv
<1>3. q \in Nat /\ q <= final_lsa /\ StartIn(repl_lists, q, final_lsa)
  BY Zenon, <1>1, <1>2, RequiredLsa
<1>4. ASSUME NEW f \in Nat, NEW t \in Tran, IsFirst(f, t), f < q PROVE Over(t, r, J)
  <2>1. CASE repl_lists[t].used
    <3>1. PICK a : a = repl_lists[t].start_lsa
      BY Zenon
    <3>2. IsFirst(a, t) /\ q <= a
      BY Zenon, <1>3, <2>1, <3>1 DEF OpenInv, StartIn
    <3>3. a = f
      BY Zenon, <1>4, <3>2, FirstAlone
    <3> QED BY <1>3, <1>4, <3>2, <3>3
  <2>2. CASE ~repl_lists[t].used
    <3>1. f < R
      BY <1>2, <1>3, <1>4
    <3> QED BY Zenon, <1>4, <2>2, <3>1 DEF OpenInv
  <2> QED BY Zenon, <2>1, <2>2
<1>5. OverBefore(q, r, J)
  BY Zenon, <1>4 DEF OverBefore
<1> QED BY Zenon, <1>1, <1>3, <1>5

\* Without an open list the required position is the read position.
LEMMA RequiredIsFinal ==
  ASSUME \A t \in Tran : ~repl_lists[t].used
  PROVE  la_find_required_lsa(repl_lists) = final_lsa
<1>1. {repl_lists[t].start_lsa : t \in {u \in Tran : repl_lists[u].used}} = {}
  BY Zenon
<1> QED BY Zenon, <1>1 DEF la_find_required_lsa

\* What is done up to two points is done up to the later one.
LEMMA ClaimMax ==
  ASSUME NEW a \in Nat, NEW b \in Nat, NEW r, NEW J, ClaimInv(a, r, J), ClaimInv(b, r, J)
  PROVE  MaxLsa(a, b) \in {a, b} /\ a <= MaxLsa(a, b) /\ b <= MaxLsa(a, b)
         /\ ClaimInv(MaxLsa(a, b), r, J)
<1>1. MaxLsa(a, b) \in {a, b} /\ a <= MaxLsa(a, b) /\ b <= MaxLsa(a, b)
  BY DEF MaxLsa
<1> QED BY Zenon, <1>1

\* What la_log_commit leaves in the slave.
Saved ==
  /\ RowInv' /\ Applied' = Applied /\ rejected' = rejected
  /\ row'.committed_lsa <= committed_lsa \/ row'.committed_lsa <= last_committed_lsa
  /\ row.committed_lsa <= row'.committed_lsa

\* The row is saved with the items, or neither.
LEMMA Save ==
  ASSUME SetFacts, Inv, CInv, PlainInv, UpInv, RowInv, pc # "down", UNCHANGED masterVars,
         la_log_commit(repl_lists, committed_lsa),
         committed_lsa < ReadTo \/ ReadTo = final_lsa
  PROVE  Saved
<1>1. PICK C \in Nat, r \in Nat, C0 \in Nat, R0 \in Nat, R \in Nat, e \in Nat, f \in Nat, rc \in Nat :
        /\ C = committed_lsa /\ r = committed_rep_lsa /\ C0 = last_committed_lsa
        /\ R0 = last_committed_rep_lsa /\ R = ReadTo /\ e = eof /\ f = final_lsa
        /\ rc = row.committed_lsa
  BY Zenon, NTypes
<1>2. /\ R0 <= r /\ C <= R /\ (C < R \/ \A t \in Tran : ~repl_lists[t].used)
      /\ (C0 <= e \/ C0 <= C) /\ (rc <= C \/ rc <= C0)
  BY Zenon, <1>1 DEF UpInv, PlaceInv
<1>3. R <= e + 1 /\ f <= R
  <2>1. R <= e + 1
    BY Zenon, <1>1 DEF CInv, ListInv, PosInv
  <2>2. R = f \/ R = f + 1
    BY Zenon, <1>1 DEF ReadTo
  <2> QED BY <2>1, <2>2
<1>4. CASE UNCHANGED <<row, slave, pending, rejected>>
  <2>1. row' = row /\ slave' = slave /\ pending' = pending /\ rejected' = rejected
    BY Zenon, <1>4
  <2>2. RowInv'
    BY Zenon, <2>1, RowCarry
  <2>3. Applied' = Applied
    BY Zenon, <2>1 DEF Applied
  <2>4. rc <= rc
    OBVIOUS
  <2> QED BY Zenon, <1>1, <1>2, <2>1, <2>2, <2>3, <2>4 DEF Saved
<1>5. CASE /\ row' = [committed_lsa     |-> MaxLsa(committed_lsa, last_committed_lsa),
                      committed_rep_lsa |-> MaxLsa(committed_rep_lsa, last_committed_rep_lsa),
                      final_lsa         |-> final_lsa,
                      required_lsa      |-> la_find_required_lsa(repl_lists)]
           /\ slave' = slave \o pending /\ pending' = << >> /\ rejected' = rejected
  <2>1. PICK q, c, J, s : /\ q = la_find_required_lsa(repl_lists) /\ c = MaxLsa(C, C0)
                          /\ J = rejected /\ s = Applied
    BY Zenon
  <2>2. MaxLsa(r, R0) = r
    BY Zenon, <1>2 DEF MaxLsa
  <2>3. row'.committed_lsa = c /\ row'.committed_rep_lsa = r /\ row'.required_lsa = q
    BY Zenon, <1>1, <1>5, <2>1, <2>2
  <2>4. slave' = s /\ rejected' = J
    BY Zenon, <1>5, <2>1 DEF Applied
  <2>5. Applied' = Applied
    <3>1. slave \in Seq(Nat) /\ pending \in Seq(Nat)
      BY Zenon, NTypes
    <3>2. slave \o pending \in Seq(Nat)
      BY Zenon, <3>1, Joined
    <3>3. (slave \o pending) \o << >> = slave \o pending
      BY Zenon, <3>2, JoinedNone
    <3> QED BY Zenon, <1>5, <3>3 DEF Applied
  <2>6. SeqInv(s, r, J) /\ OpenInv(repl_lists, R, r, J) /\ ClaimInv(C, r, J) /\ ClaimInv(C0, r, J)
    BY Zenon, <1>1, <2>1 DEF UpInv
  <2>7. q \in Nat /\ OverBefore(q, r, J)
    BY Zenon, <1>1, <1>3, <2>1, <2>6, RequiredOver
  <2>8. c \in {C, C0} /\ C <= c /\ C0 <= c /\ ClaimInv(c, r, J)
    BY Zenon, <2>1, <2>6, ClaimMax
  <2>9. c <= e \/ c <= q
    <3>1. CASE C < R
      BY <1>2, <1>3, <2>8, <3>1
    <3>2. CASE ~(C < R)
      <4>1. q = f
        BY Zenon, <1>1, <1>2, <2>1, <3>2, RequiredIsFinal
      <4>2. R = f
        BY Zenon, <1>1, <3>2
      <4> QED BY <1>2, <1>3, <2>8, <4>1, <4>2
    <3> QED BY Zenon, <3>1, <3>2
  <2>10. SeqInv(s, r, J)' /\ OverBefore(q, r, J)' /\ ClaimInv(c, r, J)'
    BY Zenon, <2>6, <2>7, <2>8, SameSeq, SameClaim
  <2>11. /\ SeqInv(slave, row.committed_rep_lsa, rejected)'
         /\ OverBefore(row.required_lsa, row.committed_rep_lsa, rejected)'
         /\ ClaimInv(row.committed_lsa, row.committed_rep_lsa, rejected)'
    BY Zenon, <2>3, <2>4, <2>10
  <2>12. row'.committed_lsa <= eof' \/ row'.committed_lsa <= row'.required_lsa
    BY Zenon, <1>1, <2>3, <2>9 DEF masterVars
  <2>13. RowInv'
    BY Zenon, <2>11, <2>12 DEF RowInv
  <2>14. (c <= C \/ c <= C0) /\ rc <= c
    BY <1>2, <2>8
  <2> QED BY Zenon, <1>1, <2>1, <2>3, <2>4, <2>5, <2>13, <2>14 DEF Saved
<1> QED BY Zenon, <1>4, <1>5 DEF la_log_commit

-----------------------------------------------------------------------------
(* The main loop.                                                          *)

\* What every step of a running applier keeps.
Kept ==
  /\ RowInv' /\ UpInv' /\ pc' # "down" /\ row.committed_lsa <= row'.committed_lsa
  /\ hdr'.ha_server_state \in Live

\* A step that leaves la_Info but for the row.
LEMMA QuietUp ==
  ASSUME Inv, UpInv, UNCHANGED masterVars, UNCHANGED listVars, ReadTo' = ReadTo,
         committed_lsa' = committed_lsa, committed_rep_lsa' = committed_rep_lsa,
         UNCHANGED startVars, rejected' = rejected, Applied' = Applied,
         row'.committed_lsa <= committed_lsa \/ row'.committed_lsa <= last_committed_lsa,
         InLoop' <=> InLoop,
         InLoop' => item' = item /\ (pc' = "put" => last_committed_rep_lsa < item)
  PROVE  UpInv'
<1>1. /\ repl_lists' = repl_lists /\ commit_list' = commit_list /\ eof' = eof
      /\ last_committed_lsa' = last_committed_lsa
      /\ last_committed_rep_lsa' = last_committed_rep_lsa
  BY Zenon DEF listVars, startVars, masterVars
<1>2. Commit' = Commit
  BY Zenon, <1>1 DEF Commit
<1>3. LoopTran' = LoopTran
  BY Zenon, <1>2 DEF LoopTran
<1>4. PlaceInv'
  <2>1. PlaceInv
    BY Zenon DEF UpInv
  <2> QED BY Zenon, <1>1, <2>1 DEF PlaceInv
<1>5. PICK L, Q, R, C, r, C0, R0, J, s, X, h, it :
        /\ L = repl_lists' /\ Q = commit_list' /\ R = ReadTo' /\ C = committed_lsa'
        /\ r = committed_rep_lsa' /\ C0 = last_committed_lsa' /\ R0 = last_committed_rep_lsa'
        /\ J = rejected' /\ s = Applied' /\ X = LoopTran' /\ h = Commit' /\ it = item'
  BY Zenon
<1>6. /\ L = repl_lists /\ Q = commit_list /\ R = ReadTo /\ C = committed_lsa
      /\ r = committed_rep_lsa /\ C0 = last_committed_lsa /\ R0 = last_committed_rep_lsa
      /\ J = rejected /\ s = Applied /\ X = LoopTran /\ h = Commit
  BY Zenon, <1>1, <1>2, <1>3, <1>5
<1>7. /\ SeqInv(s, r, J) /\ ClaimInv(C, r, J) /\ ClaimInv(C0, r, J) /\ OpenInv(L, R, r, J)
      /\ QueueInv(L, Q, R) /\ TypesInv(Q) /\ HeldInv(L, X, R, r, R0, J)
  BY Zenon, <1>6 DEF UpInv
<1>8. ASSUME InLoop' PROVE LoopHeld(L, h, it, R, r, R0, J) /\ (pc' = "put" => R0 < it)
  <2>1. it = item /\ InLoop /\ (pc' = "put" => last_committed_rep_lsa < item)
    BY Zenon, <1>5, <1>8
  <2> QED BY Zenon, <1>6, <2>1 DEF UpInv, LoopPlace
<1> QED BY Zenon, <1>4, <1>5, <1>7, <1>8, UpCarry

\* The steps that touch neither the lists nor the slave.
LEMMA LoopQuiet ==
  ASSUME Inv, PlainInv, RowInv, UpInv, hdr.ha_server_state \in Live,
         EndOfLog \/ TimeCommitNotDue \/ ReadPage \/ la_log_fetch \/ ApplyListEnd
  PROVE  Kept
<1>1. /\ UNCHANGED masterVars /\ UNCHANGED listVars /\ UNCHANGED startVars
      /\ committed_lsa' = committed_lsa /\ committed_rep_lsa' = committed_rep_lsa
      /\ row' = row /\ slave' = slave /\ pending' = pending /\ rejected' = rejected
  BY Zenon DEF EndOfLog, TimeCommitNotDue, ReadPage, la_log_fetch, ApplyListEnd, dbVars
<1>2. /\ pc \in {"read", "page", "top", "list"} /\ pc' \in {"read", "page", "state"}
      /\ ReadTo' = ReadTo
  <2>1. CASE EndOfLog \/ TimeCommitNotDue \/ ReadPage \/ la_log_fetch
    <3>1. /\ final_lsa' = final_lsa /\ pc \in {"read", "page", "top"}
          /\ pc' \in {"read", "page", "state"}
      BY Zenon, <2>1 DEF EndOfLog, TimeCommitNotDue, ReadPage, la_log_fetch, la_fetch_log_hdr
    <3> QED BY Zenon, <3>1 DEF ReadTo, Applying
  <2>2. CASE ApplyListEnd
    <3>1. pc = "list" /\ Advance
      BY Zenon, <2>2 DEF ApplyListEnd
    <3>2. pc' \in {"page", "read"} /\ ReadTo' = final_lsa + 1
      BY Zenon, <3>1, AdvancePc, AdvanceTo
    <3> QED BY Zenon, <3>1, <3>2 DEF ReadTo, Applying
  <2> QED BY Zenon, <2>1, <2>2
<1>3. ~InLoop /\ ~InLoop' /\ pc' # "down"
  BY Zenon, <1>2 DEF InLoop
<1>4. Applied' = Applied
  BY Zenon, <1>1 DEF Applied
<1>5. row'.committed_lsa <= committed_lsa \/ row'.committed_lsa <= last_committed_lsa
  BY Zenon, <1>1 DEF UpInv, PlaceInv
<1>6. UpInv'
  BY Zenon, <1>1, <1>2, <1>3, <1>4, <1>5, QuietUp
<1>7. RowInv'
  BY Zenon, <1>1, RowCarry
<1>8. row.committed_lsa <= row'.committed_lsa
  BY <1>1, NTypes
<1>9. hdr'.ha_server_state \in Live
  <2>1. CASE EndOfLog \/ TimeCommitNotDue \/ ApplyListEnd
    BY Zenon, <2>1 DEF EndOfLog, TimeCommitNotDue, ApplyListEnd
  <2>2. CASE ReadPage
    BY Zenon, <2>2 DEF ReadPage, la_fetch_log_hdr, PlainInv
  <2>3. CASE la_log_fetch
    <3>1. hdr' = [hdr EXCEPT !.ha_server_state = srv] /\ hdr \in LogHeader
      BY Zenon, <2>3, PositionTypes DEF la_log_fetch
    <3> QED BY Zenon, <3>1 DEF PlainInv, LogHeader
  <2> QED BY Zenon, <2>1, <2>2, <2>3
<1> QED BY Zenon, <1>3, <1>6, <1>7, <1>8, <1>9 DEF Kept

\* The master is alive or dead: la_change_state never drops the lists.
LEMMA KeepsLists ==
  ASSUME hdr.ha_server_state \in Live, la_change_state
  PROVE  /\ UNCHANGED listVars
         /\ UNCHANGED dbVars \/ la_log_commit(repl_lists, committed_lsa)
<1>1. CASE last_seen' = last_seen \/ NewState = apply_state
  BY Zenon, <1>1 DEF la_change_state
<1>2. CASE ~(last_seen' = last_seen \/ NewState = apply_state)
  <2>1. ~(NewState = "DONE" /\ hdr.ha_server_state # "DEAD")
    BY Zenon, <1>2 DEF NewState, Live
  <2>2. UNCHANGED listVars /\ la_log_commit(repl_lists', committed_lsa)
    BY Zenon, <1>2, <2>1 DEF la_change_state
  <2>3. repl_lists' = repl_lists
    BY Zenon, <2>2 DEF listVars
  <2> QED BY Zenon, <2>2, <2>3
<1> QED BY Zenon, <1>1, <1>2

\* The steps of the main loop that may save the row.
LEMMA LoopSaves ==
  ASSUME SetFacts, Inv, CInv, PlainInv, RowInv, UpInv, hdr.ha_server_state \in Live,
         la_check_time_commit \/ la_change_state \/ DoneLoop
  PROVE  Kept
<1>1. /\ UNCHANGED masterVars /\ UNCHANGED startVars /\ committed_rep_lsa' = committed_rep_lsa
      /\ final_lsa' = final_lsa /\ pc \in {"page", "state", "top"} /\ pc' \in {"state", "top"}
  BY Zenon DEF la_check_time_commit, la_change_state, DoneLoop, la_fetch_log_hdr
<1>2. /\ UNCHANGED listVars /\ committed_lsa' = committed_lsa
      /\ UNCHANGED dbVars \/ la_log_commit(repl_lists, committed_lsa)
  <2>1. CASE la_check_time_commit
    BY Zenon, <2>1 DEF la_check_time_commit
  <2>2. CASE la_change_state
    <3>1. committed_lsa' = committed_lsa
      BY Zenon, <2>2 DEF la_change_state
    <3> QED BY Zenon, <2>2, <3>1, KeepsLists
  <2>3. CASE DoneLoop
    <3>1. srv = "DEAD"
      BY Zenon, <2>3 DEF DoneLoop, NoActiveMaster, PlainInv, Live
    <3>2. /\ UNCHANGED listVars
          /\ committed_lsa' = IF srv # "DEAD" THEN final_lsa ELSE committed_lsa
          /\ la_log_commit(repl_lists, committed_lsa') \/ UNCHANGED dbVars
      BY Zenon, <2>3 DEF DoneLoop
    <3>3. committed_lsa' = committed_lsa
      BY Zenon, <3>1, <3>2
    <3> QED BY Zenon, <3>2, <3>3
  <2> QED BY Zenon, <2>1, <2>2, <2>3
<1>3. ~InLoop /\ ~InLoop' /\ pc' # "down" /\ pc # "down" /\ ReadTo' = ReadTo /\ ReadTo = final_lsa
  BY Zenon, <1>1 DEF InLoop, ReadTo, Applying
<1>4. Saved
  <2>1. CASE la_log_commit(repl_lists, committed_lsa)
    BY Zenon, <1>1, <1>3, <2>1, Save
  <2>2. CASE UNCHANGED dbVars
    <3>1. row' = row /\ slave' = slave /\ pending' = pending /\ rejected' = rejected
      BY Zenon, <2>2 DEF dbVars
    <3>2. RowInv'
      BY Zenon, <1>1, <3>1, RowCarry
    <3>3. Applied' = Applied
      BY Zenon, <3>1 DEF Applied
    <3>4. row.committed_lsa <= row'.committed_lsa
      BY <3>1, NTypes
    <3> QED BY Zenon, <3>1, <3>2, <3>3, <3>4 DEF Saved, UpInv, PlaceInv
  <2> QED BY Zenon, <1>2, <2>1, <2>2
<1>5. UpInv'
  BY Zenon, <1>1, <1>2, <1>3, <1>4, QuietUp DEF Saved
<1>6. hdr'.ha_server_state \in Live
  <2>1. hdr' = hdr \/ hdr' = [eof_lsa |-> eof, ha_server_state |-> srv]
    BY Zenon DEF la_check_time_commit, la_change_state, DoneLoop, la_fetch_log_hdr
  <2> QED BY <2>1 DEF PlainInv
<1> QED BY Zenon, <1>3, <1>4, <1>5, <1>6 DEF Kept, Saved

-----------------------------------------------------------------------------
(* The log gets longer.                                                    *)

\* The steps of the master that are left.
PlainNext ==
  \/ \E t \in Tran : \/ log_append_undoredo(t) \/ log_append_repl_info_and_unlock_log(t)
                     \/ log_complete_commit(t) \/ log_abort(t)
  \/ logpb_flush_all_append_pages
  \/ MasterCrash

\* Records appended to the log, and the states that go with them.
Extends ==
  /\ log' \in Seq(OwnedRec) /\ Len(log) <= Len(log')
  /\ \A i \in 1 .. Len(log) : log'[i] = log[i]

NewRec == Len(log) + 1 .. Len(log')

-----------------------------------------------------------------------------
(* The shape of the log.                                                   *)

\* Arithmetic with addresses.
LEMMA LeqPlusOne ==
  ASSUME NEW e \in Nat, NEW f \in Nat, e <= f, NEW a \in Nat, a <= e + 1
  PROVE  a <= f + 1
OBVIOUS

\* The arithmetic of log addresses that the steps need.
LEMMA PlusOne == \A a \in Nat : a + 1 \in Nat /\ a <= a /\ a <= a + 1
OBVIOUS

\* The records that a step appends fit the states of their transactions.
NewFits ==
  \A j \in NewRec : log'[j].trid \in Tran =>
    /\ tstate[log'[j].trid] # "done"
    /\ tstate[log'[j].trid] = "unlocked" => log'[j].type \in EndType
    /\ tstate'[log'[j].trid] # "idle"
    /\ log'[j].type \in EndType => tstate'[log'[j].trid] = "done"
    /\ log'[j].type = "UNLOCK_COMMIT" => tstate'[log'[j].trid] \in {"unlocked", "done"}
    /\ log'[j].type = "COMMIT" => tstate[log'[j].trid] = "unlocked"

\* Of two of them of one transaction, the first is an item.
NewOrder ==
  \A i, j \in NewRec : i < j /\ log'[i].trid = log'[j].trid /\ log'[i].trid \in Tran =>
    log'[i].type = "REPLICATION"

\* The states of the transactions move with the records.
StatesFit ==
  \A t \in Tran :
    /\ tstate'[t] = "idle" => tstate[t] = "idle"
    /\ tstate[t] = "done" => tstate'[t] = "done"
    /\ tstate[t] = "unlocked" => tstate'[t] \in {"unlocked", "done"}
    /\ tstate'[t] = "unlocked" =>
         \/ tstate[t] = "unlocked"
         \/ \E j \in NewRec : log'[j].type = "UNLOCK_COMMIT" /\ log'[j].trid = t

\* The shape is kept when the appended records fit the state of their
\* transactions, and the states move with them.
LEMMA ShapeExtends ==
  ASSUME Inv, LogShape, Extends,
         NewFits, NewOrder, StatesFit
  PROVE  LogShape'
<1> DEFINE Old == 1 .. Len(log)
           All == 1 .. Len(log')
<1>1. Len(log) \in Nat /\ Len(log') \in Nat /\ Len(log) <= Len(log')
  BY InvTypes DEF Extends
<1>2. /\ \A i \in All : i \in Old \/ i \in NewRec
      /\ \A i \in Old : i \in All /\ i \in Int
      /\ \A i \in NewRec : i \in All /\ i \in Int
      /\ \A i \in Old, j \in NewRec : i < j
  BY <1>1 DEF NewRec
<1>3. \A i \in Old : log'[i] = log[i]
  BY Zenon DEF Extends
<1>4. \A i \in All : log'[i] \in OwnedRec
  BY DEF Extends
<1>5. OrderInv'
  <2>1. ASSUME NEW i \in All, NEW j \in All, i < j, log'[i].trid = log'[j].trid, log'[i].trid \in Tran
        PROVE  /\ log'[i].type \notin EndType
               /\ log'[i].type = "UNLOCK_COMMIT" => log'[j].type \in EndType
    <3>1. CASE i \in Old /\ j \in Old
      BY Zenon, <1>3, <2>1, <3>1 DEF LogShape, OrderInv
    <3>2. CASE i \in Old /\ j \in NewRec
      <4>1. /\ log[i].trid \in Tran
            /\ log[i].type \in EndType => tstate[log[i].trid] = "done"
            /\ log[i].type = "UNLOCK_COMMIT" => tstate[log[i].trid] \in {"unlocked", "done"}
        BY Zenon, <1>3, <2>1, <3>2 DEF LogShape, StateInv
      <4> QED BY Zenon, <1>3, <2>1, <3>2, <4>1 DEF NewFits
    <3>3. CASE i \in NewRec /\ j \in NewRec
      BY Zenon, <2>1, <3>3 DEF NewOrder, EndType
    <3>4. ~(i \in NewRec /\ j \in Old)
      BY <1>2, <2>1
    <3> QED BY Zenon, <1>2, <3>1, <3>2, <3>3, <3>4
  <2> QED BY Zenon, <2>1 DEF OrderInv
<1>6. StateInv'
  <2>1. ASSUME NEW i \in All, log'[i].trid \in Tran
        PROVE  /\ tstate'[log'[i].trid] # "idle"
               /\ log'[i].type \in EndType => tstate'[log'[i].trid] = "done"
               /\ log'[i].type = "UNLOCK_COMMIT" => tstate'[log'[i].trid] \in {"unlocked", "done"}
    <3>1. CASE i \in Old
      BY <1>3, <2>1, <3>1 DEF StatesFit, LogShape, StateInv
    <3>2. CASE i \in NewRec
      BY Zenon, <2>1, <3>2 DEF NewFits
    <3> QED BY Zenon, <1>2, <3>1, <3>2
  <2> QED BY Zenon, <2>1 DEF StateInv
<1>7. ASSUME NEW j \in 1 .. Len(log) + 1, NEW t, UnlockedBefore(j, t)
      PROVE  \A k \in Int : j <= k => UnlockedBefore(k, t)'
  <2>1. PICK i \in 1 .. j - 1 : log[i].type = "UNLOCK_COMMIT" /\ log[i].trid = t
    BY Zenon, <1>7 DEF UnlockedBefore
  <2>2. i \in Old /\ log'[i] = log[i]
    BY <1>1, <1>3
  <2>3. \A k \in Int : j <= k => i \in 1 .. k - 1
    BY <1>1
  <2> QED BY Zenon, <2>1, <2>2, <2>3 DEF UnlockedBefore
<1>8. CommitInv'
  <2>1. ASSUME NEW j \in All, log'[j].type = "COMMIT" PROVE UnlockedBefore(j, log[j].trid)'
    <3>1. CASE j \in Old
      <4>1. UnlockedBefore(j, log[j].trid)
        BY Zenon, <1>3, <2>1, <3>1 DEF LogShape, CommitInv
      <4>2. UnlockedBefore(j, log[j].trid)'
        BY <1>1, <1>3, <3>1, <4>1 DEF UnlockedBefore
      <4> QED BY Zenon, <4>2
    <3>2. CASE j \in NewRec
      <4>1. log'[j].trid \in Tran
        BY Zenon, <1>4, <2>1 DEF OwnedRec, SystemType
      <4>2. tstate[log'[j].trid] = "unlocked"
        BY Zenon, <2>1, <3>2, <4>1 DEF NewFits
      <4>3. UnlockedBefore(Len(log) + 1, log'[j].trid)
        BY Zenon, <4>1, <4>2 DEF LogShape, CommitInv
      <4>4. Len(log) + 1 <= j /\ j \in Int /\ Len(log) + 1 \in 1 .. Len(log) + 1
        BY <1>1, <3>2 DEF NewRec
      <4>5. PICK t : t = log'[j].trid
        BY Zenon
      <4>6. UnlockedBefore(j, t)'
        BY Zenon, <1>7, <4>3, <4>4, <4>5
      <4> QED BY Zenon, <4>5, <4>6 DEF UnlockedBefore
    <3> QED BY Zenon, <1>2, <3>1, <3>2
  <2>2. ASSUME NEW t \in Tran, tstate'[t] = "unlocked" PROVE UnlockedBefore(Len(log) + 1, t)'
    <3>1. CASE tstate[t] = "unlocked"
      <4>1. PICK i \in 1 .. (Len(log) + 1) - 1 : log[i].type = "UNLOCK_COMMIT" /\ log[i].trid = t
        BY Zenon, <3>1 DEF LogShape, CommitInv, UnlockedBefore
      <4>2. i \in Old /\ i \in 1 .. (Len(log') + 1) - 1
        BY <1>1
      <4> QED BY Zenon, <1>3, <4>1, <4>2 DEF UnlockedBefore
    <3>2. CASE \E j \in NewRec : log'[j].type = "UNLOCK_COMMIT" /\ log'[j].trid = t
      <4>1. PICK j \in NewRec : log'[j].type = "UNLOCK_COMMIT" /\ log'[j].trid = t
        BY Zenon, <3>2
      <4>2. j \in 1 .. (Len(log') + 1) - 1
        BY <1>1 DEF NewRec
      <4> QED BY Zenon, <4>1, <4>2 DEF UnlockedBefore
    <3> QED BY Zenon, <2>2, <3>1, <3>2 DEF StatesFit
  <2> QED BY Zenon, <2>1, <2>2 DEF CommitInv
<1> QED BY Zenon, <1>5, <1>6, <1>8 DEF LogShape

\* What a step of the master preserves: the shape of its log, and every record
\* that was copied.
ShapeKept ==
  /\ LogShape' /\ eof <= eof' /\ eof' \in Nat
  /\ \A i \in 1 .. eof : log'[i] = log[i]

\* Nothing new in the log, and no change of a state that the log determines.
LEMMA ShapeQuiet ==
  ASSUME Inv, LogShape, log' = log, eof <= eof', eof' \in Nat,
         \A t \in Tran : tstate'[t] # tstate[t] =>
                            tstate[t] = "active" /\ tstate'[t] = "topop"
  PROVE  ShapeKept
<1>1. OrderInv' /\ StateInv'
  BY DEF LogShape, OrderInv, StateInv, EndType
<1>2. CommitInv'
  BY Zenon DEF LogShape, CommitInv, UnlockedBefore
<1> QED BY Zenon, <1>1, <1>2 DEF ShapeKept, LogShape

\* A transaction in one state appends a record and enters another.
Fits(old, type, new) ==
  /\ type \in LogType \ SystemType /\ old # "done" /\ new # "idle"
  /\ old = "unlocked" => type \in EndType
  /\ type \in EndType <=> new = "done"
  /\ type = "UNLOCK_COMMIT" <=> new = "unlocked"
  /\ type = "COMMIT" => old = "unlocked"

\* One record of a transaction.
LEMMA ShapeAppend ==
  ASSUME Inv, LogShape, NEW t \in Tran, NEW type, NEW s, Fits(tstate[t], type, s),
         log' = Append(log, Rec(type, t)), tstate' = [tstate EXCEPT ![t] = s], eof' = eof
  PROVE  ShapeKept
<1> USE DEF Fits
<1>1. /\ log \in Seq(OwnedRec) /\ Len(log) \in Nat /\ eof \in 0 .. Len(log)
      /\ tstate \in [Tran -> TranState] /\ Rec(type, t) \in OwnedRec
  BY RecOwned DEF Inv, TypeOK, MasterTypeOK, ReaderInv
<1>2. PICK r \in OwnedRec : r = Rec(type, t)
  BY Zenon, <1>1
<1>3. r.type = type /\ r.trid = t
  BY Zenon, <1>2 DEF Rec
<1>4. /\ log' \in Seq(OwnedRec) /\ Len(log') = Len(log) + 1
      /\ \A i \in 1 .. Len(log) : log'[i] = log[i]
      /\ log'[Len(log) + 1] = r
  BY <1>1, <1>2, Appended
<1>5. Extends
  BY <1>1, <1>4 DEF Extends
<1>6. NewRec = {Len(log) + 1}
  BY <1>1, <1>4 DEF NewRec
<1>7. \A j \in NewRec : log'[j].trid = t /\ log'[j].type = type
  BY Zenon, <1>3, <1>4, <1>6
<1>8. tstate'[t] = s /\ \A u \in Tran : u # t => tstate'[u] = tstate[u]
  BY Zenon, <1>1
<1>9. NewOrder
  BY <1>1, <1>6 DEF NewOrder
<1>10. StatesFit
  <2> SUFFICES ASSUME NEW u \in Tran
               PROVE  /\ tstate'[u] = "idle" => tstate[u] = "idle"
                      /\ tstate[u] = "done" => tstate'[u] = "done"
                      /\ tstate[u] = "unlocked" => tstate'[u] \in {"unlocked", "done"}
                      /\ tstate'[u] = "unlocked" =>
                           \/ tstate[u] = "unlocked"
                           \/ \E j \in NewRec : log'[j].type = "UNLOCK_COMMIT" /\ log'[j].trid = u
    BY Zenon DEF StatesFit
  <2>1. CASE u # t BY Zenon, <1>8, <2>1
  <2>2. CASE u = t
    <3>1. s = "unlocked" => \E j \in NewRec : log'[j].type = "UNLOCK_COMMIT" /\ log'[j].trid = u
      BY Zenon, <1>6, <1>7, <2>2
    <3> QED BY Zenon, <1>8, <2>2, <3>1
  <2> QED BY Zenon, <2>1, <2>2
<1>11. NewFits
  BY Zenon, <1>7, <1>8 DEF NewFits
<1>12. LogShape'
  BY Zenon, <1>5, <1>9, <1>10, <1>11, ShapeExtends
<1> QED BY <1>1, <1>4, <1>12 DEF ShapeKept

\* A record of the system.
LEMMA ShapeSystem ==
  ASSUME Inv, LogShape, NEW r \in OwnedRec, r.trid \notin Tran,
         log' = Append(log, r), tstate' = tstate, eof <= eof', eof' \in Nat
  PROVE  ShapeKept
<1>1. log \in Seq(OwnedRec) /\ Len(log) \in Nat /\ eof \in 0 .. Len(log)
  BY DEF Inv, TypeOK, MasterTypeOK, ReaderInv
<1>2. /\ log' \in Seq(OwnedRec) /\ Len(log') = Len(log) + 1
      /\ \A i \in 1 .. Len(log) : log'[i] = log[i]
      /\ log'[Len(log) + 1] = r
  BY <1>1, Appended
<1>3. Extends
  BY <1>1, <1>2 DEF Extends
<1>4. \A j \in NewRec : log'[j].trid \notin Tran
  BY <1>1, <1>2 DEF NewRec
<1>5. NewFits /\ NewOrder /\ StatesFit
  BY Zenon, <1>4 DEF NewFits, NewOrder, StatesFit
<1>6. LogShape'
  BY Zenon, <1>3, <1>5, ShapeExtends
<1> QED BY <1>1, <1>2, <1>6 DEF ShapeKept

\* The appends of a transaction.
LEMMA ShapeTransaction ==
  ASSUME Inv, LogShape, NEW t \in Tran,
         \/ log_append_undoredo(t) \/ log_append_repl_info(t)
         \/ log_complete_system_op(t) \/ log_complete_commit(t) \/ log_abort(t)
  PROVE  ShapeKept
<1>1. eof \in Nat /\ tstate \in [Tran -> TranState]
  BY Zenon, InvTypes DEF Inv, TypeOK, MasterTypeOK
<1>2. /\ Fits("idle", "DATA", "active") /\ Fits("active", "REPLICATION", "topop")
      /\ Fits("topop", "COMMIT_TOPOPE", "active") /\ Fits("unlocked", "COMMIT", "done")
      /\ Fits("active", "ABORT", "done")
  BY Zenon DEF Fits, LogType, SystemType, EndType
<1>3. CASE log_append_undoredo(t)
  BY Zenon, <1>2, <1>3, ShapeAppend DEF log_append_undoredo
<1>4. CASE log_append_repl_info(t)
  <2>1. /\ log' = Append(log, Rec("REPLICATION", t)) \/ log' = log
        /\ tstate' = [tstate EXCEPT ![t] = "topop"] /\ eof' = eof /\ tstate[t] = "active"
    BY Zenon, <1>4 DEF log_append_repl_info
  <2>2. CASE log' = Append(log, Rec("REPLICATION", t))
    BY Zenon, <1>2, <2>1, <2>2, ShapeAppend
  <2>3. CASE log' = log
    BY <1>1, <2>1, <2>3, ShapeQuiet
  <2> QED BY Zenon, <2>1, <2>2, <2>3
<1>5. CASE log_complete_system_op(t)
  BY Zenon, <1>2, <1>5, ShapeAppend DEF log_complete_system_op
<1>6. CASE log_complete_commit(t)
  BY Zenon, <1>2, <1>6, ShapeAppend DEF log_complete_commit
<1>7. CASE log_abort(t)
  BY Zenon, <1>2, <1>7, ShapeAppend DEF log_abort
<1> QED BY Zenon, <1>3, <1>4, <1>5, <1>6, <1>7

\* The commit of a transaction: its items, then its UNLOCK_COMMIT.
LEMMA ShapeUnlock ==
  ASSUME Inv, LogShape, NEW t \in Tran, log_append_repl_info_and_unlock_log(t)
  PROVE  ShapeKept
<1>1. /\ log \in Seq(OwnedRec) /\ eof \in 0 .. Len(log) /\ Len(log) \in Nat
      /\ tstate \in [Tran -> TranState] /\ TypeOK
  BY DEF Inv, TypeOK, MasterTypeOK, ReaderInv
<1>2. PICK n \in 0 .. MaxItems :
        log' = log \o [i \in 1 .. n |-> Rec("REPLICATION", t)] \o <<Rec("UNLOCK_COMMIT", t)>>
  BY Zenon DEF log_append_repl_info_and_unlock_log
<1>3. /\ tstate' = [tstate EXCEPT ![t] = "unlocked"] /\ eof' = eof /\ tstate[t] = "active"
  BY Zenon DEF log_append_repl_info_and_unlock_log
<1>4. n \in Nat
  BY ReplLogAssumption
<1>5. PICK r \in OwnedRec : r = Rec("REPLICATION", t)
  BY Zenon, <1>1, RecOwned DEF LogType, SystemType
<1>6. PICK u \in OwnedRec : u = Rec("UNLOCK_COMMIT", t)
  BY Zenon, <1>1, RecOwned DEF LogType, SystemType
<1>7. /\ r.type = "REPLICATION" /\ r.trid = t
      /\ u.type = "UNLOCK_COMMIT" /\ u.trid = t
  BY Zenon, <1>5, <1>6 DEF Rec
<1>8. /\ log' \in Seq(OwnedRec) /\ Len(log') = Len(log) + n + 1
      /\ \A i \in 1 .. Len(log) : log'[i] = log[i]
      /\ \A i \in Len(log) + 1 .. Len(log) + n : log'[i] = r
      /\ log'[Len(log) + n + 1] = u
  <2>1. log' = log \o [i \in 1 .. n |-> r] \o <<u>>
    BY Zenon, <1>2, <1>5, <1>6
  <2> QED BY <1>1, <1>4, <2>1, RunAppended
<1>9. Extends
  BY <1>1, <1>4, <1>8 DEF Extends
<1>10. ASSUME NEW j \in NewRec
       PROVE  /\ log'[j].trid = t /\ j \in Int
              /\ log'[j].type \in {"REPLICATION", "UNLOCK_COMMIT"}
              /\ j <= Len(log) + n => log'[j].type = "REPLICATION"
              /\ j <= Len(log) + n + 1
  <2>1. /\ j \in Int /\ j <= Len(log) + n + 1
        /\ j = Len(log) + n + 1 \/ (j \in Len(log) + 1 .. Len(log) + n /\ j <= Len(log) + n)
        /\ ~(Len(log) + n + 1 <= Len(log) + n)
    BY <1>1, <1>4, <1>8 DEF NewRec
  <2>2. log'[j] = r \/ (log'[j] = u /\ ~(j <= Len(log) + n))
    BY Zenon, <1>8, <2>1
  <2> QED BY Zenon, <1>7, <2>1, <2>2
<1>11. Len(log) + n + 1 \in NewRec
  BY <1>1, <1>4, <1>8 DEF NewRec
<1>12. tstate'[t] = "unlocked" /\ \A v \in Tran : v # t => tstate'[v] = tstate[v]
  BY Zenon, <1>1, <1>3
<1>13. NewOrder
  <2> SUFFICES ASSUME NEW i \in NewRec, NEW j \in NewRec, i < j
               PROVE  log'[i].type = "REPLICATION"
    BY Zenon DEF NewOrder
  <2>1. /\ i \in Int /\ j \in Int /\ j <= Len(log) + n + 1
        /\ i <= Len(log) + n => log'[i].type = "REPLICATION"
    BY Zenon, <1>10
  <2>2. i < j => i <= Len(log) + n
    BY <1>1, <1>4, <2>1
  <2> QED BY Zenon, <2>1, <2>2
<1>14. StatesFit
  <2>1. \E j \in NewRec : log'[j].type = "UNLOCK_COMMIT" /\ log'[j].trid = t
    BY Zenon, <1>7, <1>8, <1>11
  <2> QED BY Zenon, <1>3, <1>12, <2>1 DEF StatesFit
<1>15. NewFits
  <2>1. \A j \in NewRec : log'[j].trid = t /\ log'[j].type \in {"REPLICATION", "UNLOCK_COMMIT"}
    BY Zenon, <1>10
  <2> QED BY Zenon, <1>3, <1>12, <2>1 DEF NewFits, EndType
<1>16. LogShape'
  BY Zenon, <1>9, <1>13, <1>14, <1>15, ShapeExtends
<1>17. \A i \in 1 .. eof : log'[i] = log[i]
  BY <1>1, <1>9 DEF Extends
<1> QED BY <1>1, <1>3, <1>16, <1>17 DEF ShapeKept

\* Recovery ends every loser with an ABORT of its own.
LEMMA ShapeRecovery ==
  ASSUME SetFacts, Inv, LogShape, log_recovery
  PROVE  ShapeKept
<1> DEFINE Losers == {t \in Tran : Loser(t)}
<1>1. /\ log \in Seq(OwnedRec) /\ eof \in 0 .. Len(log) /\ Len(log) \in Nat
      /\ tstate \in [Tran -> TranState] /\ TypeOK
  BY DEF Inv, TypeOK, MasterTypeOK, ReaderInv
<1>2. Cardinality(Losers) \in Nat
  BY Zenon DEF SetFacts
<1>3. PICK n \in Nat : n = Cardinality(Losers)
  BY Zenon, <1>2
<1>4. PICK f \in [1 .. n -> Losers] :
        /\ \A i, j \in DOMAIN f : f[i] = f[j] => i = j
        /\ log' = Append(log, Rec("DUMMY_CRASH_RECOVERY", LOG_SYSTEM_TRANID))
                     \o [i \in DOMAIN f |-> Rec("ABORT", f[i])]
        /\ eof' = Len(log')
  BY Zenon, <1>3 DEF log_recovery
<1>5. tstate' = [t \in Tran |-> IF Loser(t) THEN "done" ELSE tstate[t]]
  BY Zenon DEF log_recovery
<1>6. PICK d \in OwnedRec : d = Rec("DUMMY_CRASH_RECOVERY", LOG_SYSTEM_TRANID)
  BY Zenon, <1>1, SystemRecOwned DEF SystemType
<1>7. d.trid \notin Tran
  BY Zenon, <1>6, SystemTranidAssumption DEF Rec
<1>8. \A i \in 1 .. n : /\ Rec("ABORT", f[i]) \in OwnedRec /\ f[i] \in Tran /\ Loser(f[i])
                        /\ Rec("ABORT", f[i]).type = "ABORT" /\ Rec("ABORT", f[i]).trid = f[i]
  BY Zenon, <1>1, RecOwned DEF LogType, SystemType, Rec
<1> DEFINE aborts == [i \in 1 .. n |-> Rec("ABORT", f[i])]
<1>9. /\ aborts \in Seq(OwnedRec) /\ Len(aborts) = n
      /\ \A i \in 1 .. n : aborts[i].type = "ABORT" /\ aborts[i].trid = f[i]
  BY <1>8
<1>10. PICK mid : mid = Append(log, d)
  BY Zenon
<1>11. log' = mid \o aborts
  BY Zenon, <1>4, <1>6, <1>10
<1> HIDE DEF aborts
<1>12. /\ mid \in Seq(OwnedRec) /\ Len(mid) = Len(log) + 1
       /\ \A i \in 1 .. Len(log) : mid[i] = log[i]
       /\ mid[Len(log) + 1] = d
  BY <1>1, <1>10, Appended
<1>13. /\ log' \in Seq(OwnedRec) /\ Len(log') = Len(log) + 1 + n
       /\ \A i \in 1 .. Len(log) : log'[i] = log[i]
       /\ log'[Len(log) + 1] = d
       /\ \A i \in 1 .. n : log'[Len(log) + 1 + i] = aborts[i]
  <2>1. /\ log' \in Seq(OwnedRec) /\ Len(log') = Len(mid) + Len(aborts)
        /\ \A i \in 1 .. Len(mid) + Len(aborts) :
             log'[i] = IF i <= Len(mid) THEN mid[i] ELSE aborts[i - Len(mid)]
    <3>1. mid \in Seq(OwnedRec) /\ aborts \in Seq(OwnedRec)
      BY Zenon, <1>9, <1>12
    <3> QED BY Zenon, <1>11, <3>1, Joined
  <2>2. \A i \in 1 .. n : log'[Len(log) + 1 + i] = aborts[i]
    <3> TAKE i \in 1 .. n
    <3>1. /\ Len(log) + 1 + i \in 1 .. Len(mid) + Len(aborts) /\ ~(Len(log) + 1 + i <= Len(mid))
          /\ Len(log) + 1 + i - Len(mid) = i
      BY <1>1, <1>9, <1>12
    <3> QED BY <2>1, <3>1
  <2>3. Len(log') = Len(log) + 1 + n
    BY Zenon, <1>1, <1>9, <1>12, <2>1
  <2>4. \A i \in 1 .. Len(log) + 1 : log'[i] = mid[i]
    <3> TAKE i \in 1 .. Len(log) + 1
    <3>1. i \in 1 .. Len(mid) + Len(aborts) /\ i <= Len(mid)
      BY <1>1, <1>9, <1>12
    <3> QED BY Zenon, <2>1, <3>1
  <2>5. log'[Len(log) + 1] = d /\ \A i \in 1 .. Len(log) : log'[i] = log[i]
    <3>1. Len(log) + 1 \in 1 .. Len(log) + 1 /\ \A i \in 1 .. Len(log) : i \in 1 .. Len(log) + 1
      BY <1>1
    <3> QED BY Zenon, <1>12, <2>4, <3>1
  <2> QED BY Zenon, <2>1, <2>2, <2>3, <2>5
<1>14. Extends
  BY <1>1, <1>13 DEF Extends
<1>15. ASSUME NEW j \in NewRec, log'[j].trid \in Tran
       PROVE  /\ j \in Int /\ j - Len(log) - 1 \in 1 .. n
              /\ log'[j].type = "ABORT" /\ log'[j].trid = f[j - Len(log) - 1]
              /\ Loser(log'[j].trid)
  <2>1. j \in Int /\ Len(log) + 1 <= j /\ j <= Len(log) + 1 + n
    BY <1>1, <1>13 DEF NewRec
  <2>2. j # Len(log) + 1
    BY Zenon, <1>7, <1>13, <1>15
  <2>3. PICK i : i = j - Len(log) - 1
    BY Zenon
  <2>3a. i \in 1 .. n /\ j = Len(log) + 1 + i
    BY <1>1, <2>1, <2>2, <2>3
  <2>4. log'[j] = aborts[i]
    BY Zenon, <1>13, <2>3a
  <2> QED BY Zenon, <1>8, <1>9, <2>1, <2>3, <2>3a, <2>4
<1>16. NewOrder
  <2> SUFFICES ASSUME NEW i \in NewRec, NEW j \in NewRec, i < j,
                      log'[i].trid = log'[j].trid, log'[i].trid \in Tran
               PROVE  FALSE
    BY Zenon DEF NewOrder
  <2>1. /\ i \in Int /\ i - Len(log) - 1 \in DOMAIN f
        /\ j \in Int /\ j - Len(log) - 1 \in DOMAIN f
        /\ f[i - Len(log) - 1] = f[j - Len(log) - 1]
    BY Zenon, <1>15
  <2>2. i - Len(log) - 1 = j - Len(log) - 1
    BY Zenon, <1>4, <2>1
  <2> QED BY <1>1, <2>1, <2>2
<1>17. \A t \in Tran : tstate'[t] = IF Loser(t) THEN "done" ELSE tstate[t]
  BY Zenon, <1>5
<1>18. StatesFit
  BY Zenon, <1>17 DEF StatesFit, Loser
<1>19. NewFits
  BY Zenon, <1>15, <1>17 DEF NewFits, Loser, EndType
<1>20. LogShape'
  BY Zenon, <1>14, <1>16, <1>18, <1>19, ShapeExtends
<1>21. eof' \in Nat /\ eof <= eof' /\ \A i \in 1 .. eof : log'[i] = log[i]
  BY <1>1, <1>4, <1>13
<1> QED BY Zenon, <1>20, <1>21 DEF ShapeKept

\* A crash cuts the log behind what was copied; the states are those that the
\* rest of the log shows.
LEMMA ShapeCrash ==
  ASSUME Inv, LogShape, MasterCrash
  PROVE  ShapeKept
<1>1. log \in Seq(OwnedRec) /\ eof \in 0 .. Len(log) /\ Len(log) \in Nat
  BY DEF Inv, TypeOK, MasterTypeOK, ReaderInv
<1>2. PICK k \in eof .. Len(log) :
        LET durable == SubSeq(log, 1, k)
            TypesOf(t) == {durable[i].type : i \in {j \in 1 .. k : durable[j].trid = t}}
        IN  /\ log' = durable
            /\ tstate' = [t \in Tran |->
                  IF TypesOf(t) = {} THEN "idle"
                  ELSE IF TypesOf(t) \cap {"COMMIT", "ABORT"} # {} THEN "done"
                  ELSE IF "UNLOCK_COMMIT" \in TypesOf(t) THEN "unlocked"
                  ELSE "active"]
  BY Zenon DEF MasterCrash
<1> DEFINE Types(t) == {log'[i].type : i \in {j \in 1 .. k : log'[j].trid = t}}
<1>3. k \in Nat /\ k <= Len(log) /\ eof <= k
  BY <1>1
<1>4. \A i \in 1 .. k : log[i] \in OwnedRec
  BY <1>1
<1>5. Len(log') = k /\ \A i \in 1 .. k : log'[i] = log[i] /\ i \in 1 .. Len(log)
  BY <1>1, <1>2, <1>3, <1>4, CutAt
<1>6. \A t \in Tran : tstate'[t] = IF Types(t) = {} THEN "idle"
                                    ELSE IF Types(t) \cap EndType # {} THEN "done"
                                    ELSE IF "UNLOCK_COMMIT" \in Types(t) THEN "unlocked"
                                    ELSE "active"
  BY Zenon, <1>2 DEF EndType
<1>7. OrderInv'
  BY Zenon, <1>3, <1>5 DEF LogShape, OrderInv
<1>8. StateInv'
  <2> SUFFICES ASSUME NEW i \in 1 .. Len(log'), log'[i].trid \in Tran
               PROVE  /\ tstate'[log'[i].trid] # "idle"
                      /\ log'[i].type \in EndType => tstate'[log'[i].trid] = "done"
                      /\ log'[i].type = "UNLOCK_COMMIT" =>
                           tstate'[log'[i].trid] \in {"unlocked", "done"}
    BY Zenon DEF StateInv
  <2>1. PICK t \in Tran : t = log'[i].trid
    BY Zenon
  <2>2. log'[i].type \in Types(t)
    BY Zenon, <1>5, <2>1
  <2> QED BY Zenon, <1>6, <2>1, <2>2
<1>9. CommitInv'
  <2>1. ASSUME NEW j \in 1 .. Len(log'), log'[j].type = "COMMIT"
        PROVE  UnlockedBefore(j, log[j].trid)'
    <3>1. PICK i \in 1 .. j - 1 : log[i].type = "UNLOCK_COMMIT" /\ log[i].trid = log[j].trid
      BY Zenon, <1>5, <2>1 DEF LogShape, CommitInv, UnlockedBefore
    <3>2. i \in 1 .. k
      BY <1>3, <1>5
    <3> QED BY Zenon, <1>5, <3>1, <3>2 DEF UnlockedBefore
  <2>2. ASSUME NEW t \in Tran, tstate'[t] = "unlocked" PROVE UnlockedBefore(Len(log) + 1, t)'
    <3>1. "UNLOCK_COMMIT" \in Types(t)
      BY Zenon, <1>6, <2>2
    <3>2. PICK i \in 1 .. k : log'[i].type = "UNLOCK_COMMIT" /\ log'[i].trid = t
      BY Zenon, <3>1
    <3>3. i \in 1 .. (Len(log') + 1) - 1
      BY <1>3, <1>5
    <3> QED BY Zenon, <3>2, <3>3 DEF UnlockedBefore
  <2> QED BY Zenon, <2>1, <2>2 DEF CommitInv
<1>10. eof' = eof
  BY Zenon DEF MasterCrash
<1> QED BY <1>1, <1>3, <1>5, <1>7, <1>8, <1>9, <1>10 DEF ShapeKept, LogShape

\* Every step of the master keeps the shape and the copied part of its log.
LEMMA ShapeMaster ==
  ASSUME SetFacts, Inv, LogShape, MasterNext
  PROVE  ShapeKept
<1>1. eof \in Nat /\ Len(log) \in Nat /\ eof <= Len(log) /\ TypeOK
  BY Zenon, InvTypes DEF Inv
<1>2. CASE logpb_flush_all_append_pages
  BY Zenon, <1>1, <1>2, ShapeQuiet DEF logpb_flush_all_append_pages
<1>3. CASE css_transit_ha_server_state
  <2>1. PICK next \in ServerState :
          /\ eof' = Len(log')
          /\ log' = Append(log, [Rec("DUMMY_HA_SERVER_STATE", LOG_SYSTEM_TRANID)
                                   EXCEPT !.state = next])
    BY Zenon, <1>3 DEF css_transit_ha_server_state
  <2>2. PICK d \in OwnedRec : d = Rec("DUMMY_HA_SERVER_STATE", LOG_SYSTEM_TRANID)
    BY Zenon, <1>1, SystemRecOwned DEF SystemType
  <2>3. d.trid \notin Tran
    BY Zenon, <2>2, SystemTranidAssumption DEF Rec
  <2>4. PICK r : r = [d EXCEPT !.state = next]
    BY Zenon
  <2>5. r \in OwnedRec /\ r.trid \notin Tran
    BY Zenon, <2>3, <2>4 DEF OwnedRec, LogRec
  <2>6. log' = Append(log, r) /\ tstate' = tstate
    BY Zenon, <1>3, <2>1, <2>2, <2>4 DEF css_transit_ha_server_state
  <2>7. Len(log') = Len(log) + 1
    BY Zenon, <2>5, <2>6, Appended DEF Inv, ReaderInv
  <2>8. eof <= eof' /\ eof' \in Nat
    BY <1>1, <2>1, <2>7
  <2> QED BY Zenon, <2>5, <2>6, <2>8, ShapeSystem
<1> QED
  BY Zenon, <1>2, <1>3, ShapeTransaction, ShapeUnlock, ShapeRecovery, ShapeCrash DEF MasterNext

=============================================================================
