------------------------------ MODULE Replica ------------------------------
(***************************************************************************)
(* What replication promises, without log, agents or crashes: the master    *)
(* commits changes in some order ("source" only ever grows at its end) and  *)
(* the replica takes them over in that order, some at a time, leaving out   *)
(* none and repeating none.                                                 *)
(***************************************************************************)
EXTENDS Sequences, Naturals

VARIABLES source, replica

abstractVars == <<source, replica>>

Prefix(s, t) == Len(s) <= Len(t) /\ s = SubSeq(t, 1, Len(s))

AbstractInit == source = <<>> /\ replica = <<>>

MasterCommits ==
  /\ source' # source /\ Prefix(source, source')
  /\ UNCHANGED replica

Replicate ==
  /\ replica' # replica /\ Prefix(replica, replica') /\ Prefix(replica', source)
  /\ UNCHANGED source

AbstractSpec == AbstractInit /\ [][MasterCommits \/ Replicate]_abstractVars

(* The replica keeps catching up with the master. *)
KeepsCatchingUp == []<>(replica = source)
=============================================================================
