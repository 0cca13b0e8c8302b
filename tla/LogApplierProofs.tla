-------------------------- MODULE LogApplierProofs --------------------------
(***************************************************************************)
(* Theorems about the log applier.  The first three hold for every set of  *)
(* transactions, every bound and every combination of faults; the others   *)
(* under PlainOperation.                                                   *)
(***************************************************************************)
EXTENDS CommitListLemmas, ReplayLemmas, FiniteSetTheorems, WellFoundedInduction

-----------------------------------------------------------------------------
(* Sets.                                                                   *)

\* What the lemmas need to know of sets follows from the library's theorems.
LEMMA SetFactsHold == SetFacts
<1>1. ASSUME NEW S \in SUBSET Nat, S # {}
      PROVE  \E x \in S : \A y \in S : x <= y
  <2> DEFINE R == {ss \in Nat \X Nat : ss[1] < ss[2]}
  <2>1. IsWellFoundedOn(R, Nat)
    BY NatLessThanWellFounded DEF OpToRel
  <2>2. PICK x \in S : \A y \in S : ~(<<y, x>> \in R)
    BY Zenon, <1>1, <2>1, WFMin
  <2>3. ASSUME NEW y \in S PROVE x <= y
    <3>1. y \in Nat /\ x \in Nat
      OBVIOUS
    <3>2. <<y, x>> \in Nat \X Nat /\ <<y, x>>[1] = y /\ <<y, x>>[2] = x
      BY <3>1
    <3>3. y < x => <<y, x>> \in R
      BY <3>2
    <3> QED BY <2>2, <3>1, <3>3
  <2> QED BY Zenon, <2>3
<1>2. ASSUME NEW S \in SUBSET Tran
      PROVE  Cardinality(S) \in Nat
  BY ReplLogAssumption, FS_Subset, FS_CardinalityType
<1>3. Cardinality({}) = 0
  BY FS_EmptySet
<1> QED BY Zenon, <1>1, <1>2, <1>3 DEF SetFacts

\* The number of records of a type is a number.
LEMMA CountNat ==
  ASSUME Inv, NEW type
  PROVE  Count(type) \in Nat
<1>1. PICK n \in Nat : n = Len(log)
  BY ListTypes
<1>2. IsFiniteSet(1 .. n)
  BY FS_Interval
<1>3. {i \in 1 .. n : log[i].type = type} \subseteq 1 .. n
  OBVIOUS
<1>4. Cardinality({i \in 1 .. n : log[i].type = type}) \in Nat
  BY Zenon, <1>2, <1>3, FS_Subset, FS_CardinalityType
<1> QED BY <1>1, <1>4 DEF Count

-----------------------------------------------------------------------------
(* Theorems about every log.                                               *)

(***************************************************************************)
(* Type correctness of the log and of the applier's state: in particular    *)
(* the applier never reads past the copied log, la_apply_repl_log always    *)
(* works for an entry of the commit list, and the searches for the oldest   *)
(* start, the first item and the next item find one when they need one.     *)
(***************************************************************************)
THEOREM TypeCorrect == Spec => []TypeOK
<1>1. Inv /\ [Next]_vars => Inv'
  BY SetFactsHold, NextKeeps DEF Keeps
<1>2. Inv => TypeOK
  BY DEF Inv
<1> QED
  BY InitInv, <1>1, <1>2, PTL DEF Spec

(***************************************************************************)
(* The required_lsa saved in db_ha_apply_info never goes back, whatever     *)
(* crashes, restarts, role changes and ignored errors come in between: what *)
(* la_remove_archive_logs was once allowed to delete is never needed again. *)
(***************************************************************************)
THEOREM RequiredMonotone == Spec => RequiredNeverGoesBack
<1>1. Inv /\ [Next]_vars => Inv'
  BY SetFactsHold, NextKeeps DEF Keeps
<1>2. Inv /\ Inv' /\ [Next]_vars => [row'.required_lsa >= row.required_lsa]_vars
  <2> SUFFICES ASSUME Inv, Inv', [Next]_vars PROVE row'.required_lsa >= row.required_lsa
    OBVIOUS
  <2>1. row.required_lsa \in Nat /\ row'.required_lsa \in Nat
    BY DEF Inv, TypeOK, DbTypeOK, ApplyInfo, Lsa
  <2> QED
    BY SetFactsHold, <2>1, NextKeeps DEF Keeps
<1> QED
  BY InitInv, <1>1, <1>2, PTL DEF Spec, RequiredNeverGoesBack

(***************************************************************************)
(* The assertion in la_apply_repl_log holds for any number of transactions, *)
(* items, system operations, crashes, restarts and role changes: an item    *)
(* behind the commit point is left over only by a system operation.         *)
(***************************************************************************)
THEOREM TopopeAlone == Spec => []OnlyTopopeLeavesItems
<1>1. Inv /\ [Next]_vars => Inv'
  BY SetFactsHold, NextKeeps DEF Keeps
<1>2. Inv /\ CInv /\ [Next]_vars => CInv'
  BY Zenon, SetFactsHold, NextCInv
<1>3. Inv /\ CInv => OnlyTopopeLeavesItems
  BY Zenon, SetFactsHold, CInvLeavesItems
<1> QED
  BY InitInv, InitCInv, <1>1, <1>2, <1>3, PTL DEF Spec

-----------------------------------------------------------------------------
(* Theorems about a plain log.                                             *)

\* A master without system operations, role changes and restarts.
LEMMA PlainSteps ==
  ASSUME Inv, PlainInv, PlainOperation, MasterNext
  PROVE  PlainNext
<1>1. \A type : Count(type) \in Nat
  BY CountNat
<1>2. \A t \in Tran : ~log_append_repl_info(t)
  <2>1. {u \in Tran : tstate[u] = "topop"} = {}
    BY DEF PlainInv
  <2>2. Cardinality({u \in Tran : tstate[u] = "topop"}) = 0
    BY <2>1, FS_EmptySet
  <2>3. ~(Count("COMMIT_TOPOPE") + 0 < 0)
    BY <1>1
  <2> QED BY <2>2, <2>3 DEF log_append_repl_info, PlainOperation
<1>3. \A t \in Tran : ~log_complete_system_op(t)
  BY DEF log_complete_system_op, PlainInv
<1>4. ~log_recovery /\ ~css_transit_ha_server_state
  <2>1. ~(Count("DUMMY_CRASH_RECOVERY") < 0) /\ ~(Count("DUMMY_HA_SERVER_STATE") < 0)
    BY <1>1
  <2> QED BY Zenon, <2>1 DEF log_recovery, css_transit_ha_server_state, PlainOperation
<1> QED BY Zenon, <1>2, <1>3, <1>4 DEF MasterNext, PlainNext

\* A step of the master.
LEMMA MasterGrows ==
  ASSUME SetFacts, Inv, Inv', CInv, NInv, PlainOperation, MasterNext, UNCHANGED applierVars
  PROVE  NInv' /\ row' = row
<1>1. PlainInv /\ RowInv /\ hdr.ha_server_state \in Live /\ LogShape
  BY Zenon DEF NInv, CInv
<1>2. PlainInv'
  BY Zenon, <1>1, PlainSteps, PlainMaster
<1>3. ShapeKept
  BY <1>1, ShapeMaster
<1>4. ItemsLaw'
  BY Zenon, <1>2, <1>3, ItemsLawNext DEF ShapeKept
<1>5. LogGrows
  BY Zenon, <1>3, <1>4, NTypes DEF ShapeKept, LogGrows
<1>6. RowInv'
  BY <1>1, <1>5, RowStays
<1>7. /\ pc' = pc /\ pending' = pending /\ repl_lists' = repl_lists /\ hdr' = hdr /\ row' = row
  BY Zenon DEF applierVars
<1>8. pc # "down" => UpInv'
  BY <1>5, UpStays DEF NInv
<1>9. pc = "down" => DownInv'
  BY Zenon, <1>7 DEF NInv, DownInv
<1> QED BY Zenon, <1>1, <1>2, <1>6, <1>7, <1>8, <1>9 DEF NInv

\* What a step keeps.
NKept == NInv' /\ row.committed_lsa <= row'.committed_lsa

\* The invariant is inductive, and no step takes the saved commit point back.
LEMMA NextNInv ==
  ASSUME SetFacts, Inv, CInv, NInv, PlainOperation, [Next]_vars
  PROVE  NKept
<1>1. Inv'
  BY NextKeeps DEF Keeps
<1>2. PlainInv /\ RowInv /\ hdr.ha_server_state \in Live /\ (pc = "down" => DownInv)
      /\ (pc # "down" => UpInv)
  BY Zenon DEF NInv
<1>3. row.committed_lsa <= row.committed_lsa
  BY NTypes
<1>4. CASE UNCHANGED vars
  <2>1. UNCHANGED masterVars /\ UNCHANGED applierVars
    BY Zenon, <1>4 DEF vars
  <2>2. PlainInv' /\ LogShape'
    BY <1>2, <2>1, PlainSame, NextCInv DEF CInv
  <2>3. log' = log /\ eof' = eof
    BY Zenon, <2>1 DEF masterVars
  <2>4. ItemsLaw'
    BY Zenon, <1>1, <2>2, ItemsLawNext
  <2>5. LogGrows
    BY <2>3, <2>4, NTypes DEF LogGrows
  <2>6. /\ pc' = pc /\ pending' = pending /\ repl_lists' = repl_lists /\ hdr' = hdr /\ row' = row
    BY Zenon, <2>1 DEF applierVars
  <2>7. RowInv' /\ (pc # "down" => UpInv')
    BY <1>2, <2>1, <2>5, RowStays, UpStays
  <2>8. pc = "down" => DownInv'
    BY Zenon, <1>2, <2>6 DEF DownInv
  <2> QED BY Zenon, <1>2, <1>3, <2>2, <2>6, <2>7, <2>8 DEF NKept, NInv
<1>5. CASE MasterNext /\ UNCHANGED applierVars
  BY Zenon, <1>1, <1>3, <1>5, MasterGrows DEF NKept
<1>6. CASE UpNext
  <2>1. pc # "down" /\ UNCHANGED masterVars
    BY <1>6, UpOnly
  <2>2. Kept
    BY Zenon, <1>1, <1>2, <1>6, <2>1, UpKeeps
  <2>3. PlainInv'
    BY <1>2, <2>1, PlainSame
  <2> QED BY Zenon, <2>2, <2>3 DEF Kept, NKept, NInv
<1>7. CASE la_shutdown
  <2>1. UNCHANGED masterVars
    BY Zenon, <1>7 DEF la_shutdown
  <2>2. PlainInv'
    BY <1>2, <2>1, PlainSame
  <2>3. RowInv' /\ DownInv' /\ pc' = "down" /\ row' = row /\ hdr'.ha_server_state \in Live
    BY <1>2, <1>7, ShutdownKeeps
  <2> QED BY Zenon, <1>3, <2>2, <2>3 DEF NKept, NInv
<1>8. CASE la_get_last_ha_applied_info
  <2>1. pc = "down" /\ UNCHANGED masterVars
    BY Zenon, <1>8 DEF la_get_last_ha_applied_info, StartAt
  <2>2. PlainInv'
    BY <1>2, <2>1, PlainSame
  <2>3. Kept
    BY Zenon, <1>1, <1>2, <1>8, <2>1, StartKeeps
  <2> QED BY Zenon, <2>2, <2>3 DEF Kept, NKept, NInv
<1> QED BY Zenon, <1>4, <1>5, <1>6, <1>7, <1>8 DEF Next, ApplierNext, UpNext

\* The invariant holds at every step.
LEMMA AlwaysNInv ==
  ASSUME PlainOperation
  PROVE  Spec => [](Inv /\ CInv /\ NInv)
<1>1. Inv /\ [Next]_vars => Inv'
  BY SetFactsHold, NextKeeps DEF Keeps
<1>2. Inv /\ CInv /\ [Next]_vars => CInv'
  BY Zenon, SetFactsHold, NextCInv
<1>3. Inv /\ CInv /\ NInv /\ [Next]_vars => NInv'
  BY Zenon, SetFactsHold, NextNInv DEF NKept
<1> QED BY InitInv, InitCInv, InitNInv, <1>1, <1>2, <1>3, PTL DEF Spec

\* All four state properties.
LEMMA AlwaysReplayed ==
  ASSUME PlainOperation
  PROVE  Spec => []Replayed
<1>1. Inv /\ CInv /\ NInv => Replayed
  BY NInvReplayed
<1> QED BY AlwaysNInv, <1>1, PTL

(***************************************************************************)
(* la_apply_commit_list applies the items of committed transactions only,   *)
(* each once, and in the order of the UNLOCK_COMMITs, for any number of     *)
(* transactions, items and deaths of the applier.                           *)
(***************************************************************************)
THEOREM AppliedInOrder == PlainOperation => (Spec => []AppliedInUnlockOrder)
<1> SUFFICES ASSUME PlainOperation PROVE Spec => []AppliedInUnlockOrder
  OBVIOUS
<1>1. Replayed => AppliedInUnlockOrder
  BY DEF Replayed
<1> QED BY AlwaysReplayed, <1>1, PTL

(***************************************************************************)
(* The filters of la_apply_repl_log on last_committed_lsa and on            *)
(* last_committed_rep_lsa drop no item that the slave has not committed:    *)
(* what precedes an applied item is applied, or was refused.                *)
(***************************************************************************)
THEOREM NothingPassedOver == PlainOperation => (Spec => []NoItemPassedOver)
<1> SUFFICES ASSUME PlainOperation PROVE Spec => []NoItemPassedOver
  OBVIOUS
<1>1. Replayed => NoItemPassedOver
  BY DEF Replayed
<1> QED BY AlwaysReplayed, <1>1, PTL

(***************************************************************************)
(* committed_lsa in db_ha_apply_info claims no commit point whose items are *)
(* not committed in the slave.                                              *)
(***************************************************************************)
THEOREM RowAlwaysHonest == PlainOperation => (Spec => []RowHonest)
<1> SUFFICES ASSUME PlainOperation PROVE Spec => []RowHonest
  OBVIOUS
<1>1. Replayed => RowHonest
  BY DEF Replayed
<1> QED BY AlwaysReplayed, <1>1, PTL

(***************************************************************************)
(* required_lsa in db_ha_apply_info, where la_get_last_ha_applied_info      *)
(* starts, is never past the first record of a transaction with an item     *)
(* that the slave lacks.                                                    *)
(***************************************************************************)
THEOREM RequiredAlwaysCovers == PlainOperation => (Spec => []RequiredCoversUnapplied)
<1> SUFFICES ASSUME PlainOperation PROVE Spec => []RequiredCoversUnapplied
  OBVIOUS
<1>1. Replayed => RequiredCoversUnapplied
  BY DEF Replayed
<1> QED BY AlwaysReplayed, <1>1, PTL

(***************************************************************************)
(* committed_lsa in db_ha_apply_info never goes back, although a restart    *)
(* sets the one in memory to required_lsa.                                  *)
(***************************************************************************)
THEOREM CommittedMonotone == PlainOperation => (Spec => CommittedNeverGoesBack)
<1> SUFFICES ASSUME PlainOperation PROVE Spec => CommittedNeverGoesBack
  OBVIOUS
<1>1. Inv /\ Inv' /\ CInv /\ NInv /\ [Next]_vars => [row'.committed_lsa >= row.committed_lsa]_vars
  <2> SUFFICES ASSUME Inv, Inv', CInv, NInv, [Next]_vars
               PROVE  row'.committed_lsa >= row.committed_lsa
    OBVIOUS
  <2>1. row.committed_lsa <= row'.committed_lsa
    BY Zenon, SetFactsHold, NextNInv DEF NKept
  <2> QED BY <2>1
<1> QED BY AlwaysNInv, <1>1, PTL DEF Spec, CommittedNeverGoesBack
=============================================================================
