---- MODULE MCLogApplier ----
(* The log applier and its master on a small instance. *)
EXTENDS LogApplier, TLC

CONSTANTS t1, t2, t3

Symm == Permutations(Tran)
====
