---------------------------- MODULE Replication ----------------------------
(***************************************************************************)
(* The log of the master and the log applier together implement module      *)
(* Replica: crashes and restarts of the applier, the order in which COMMIT  *)
(* records happen to be written, page boundaries and the points at which    *)
(* the applier commits are not visible in the slave database.               *)
(***************************************************************************)
EXTENDS LogApplier
LOCAL INSTANCE SequencesExt

(* The transaction of point p has come to an end by address lsa. *)
EndedAt(p, lsa) ==
  \/ DecidedAt(p, lsa)
  \/ \E c \in (p + 1)..lsa : log[c].type = "ABORT" /\ log[c].trid = log[p].trid

(* Commit points that no earlier, still undecided point can overtake. *)
Settled(lsa) ==
  {p \in Points : DecidedAt(p, lsa) /\ \A q \in Points : q <= p => EndedAt(q, lsa)}

(* The items committed up to lsa, in the order they must reach the slave. *)
ReplayOrder(lsa) ==
  SetToSortSeq(UNION {ItemsOf(p) : p \in Settled(lsa)}, Before)

Abstract == INSTANCE Replica WITH source <- ReplayOrder(eof), replica <- slave

(***************************************************************************)
(* The steps of the applier's process keep coming unless it dies; it is     *)
(* started again; the commit interval elapses again and again.  The master  *)
(* flushes its log and completes the commits it has begun.                  *)
(***************************************************************************)
ApplierStep ==
  \/ ReadPage \/ DoneLoop \/ la_log_record_process \/ EndOfLog \/ la_apply_commit_list
  \/ TimeCommitNotDue \/ la_check_time_commit \/ la_change_state
  \/ la_get_last_ha_applied_info

Fairness ==
  /\ WF_vars(ApplierStep)
  /\ SF_vars(la_check_time_commit)
  /\ WF_vars(logpb_flush_all_append_pages /\ UNCHANGED applierVars)
  /\ \A t \in Tran : WF_vars(log_complete_commit(t) /\ UNCHANGED applierVars)

FairSpec == Spec /\ Fairness

(***************************************************************************)
(* The slave database is at every moment a prefix of what the master has    *)
(* committed, in replay order, and it only ever grows (log_applier.c as a   *)
(* whole; a forced commit may stop in the middle of a transaction).         *)
(***************************************************************************)
ImplementsReplica == Abstract!AbstractSpec

(***************************************************************************)
(* Nothing the master commits is stuck: the slave catches up, through the   *)
(* queueing behind earlier UNLOCK_COMMITs, la_check_time_commit and         *)
(* restarts of the applier.                                                 *)
(***************************************************************************)
SlaveCatchesUp == Abstract!KeepsCatchingUp
=============================================================================
