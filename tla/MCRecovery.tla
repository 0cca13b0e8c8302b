----------------------------- MODULE MCRecovery -----------------------------
(* Recovery for TLC.  Transactions are interchangeable.                    *)
EXTENDS Recovery, TLC

Symm == Permutations(Tran)

Bound(tran, update, postpone, sysop, prepare, chkpt, crash) ==
  [op \in Op |-> CASE op = "tran" -> tran [] op = "update" -> update [] op = "postpone" -> postpone
                   [] op = "sysop" -> sysop [] op = "prepare" -> prepare
                   [] op = "chkpt" -> chkpt [] op = "crash" -> crash]

\* Two transactions that update the same page, or one with postpones, a system
\* operation, or a prepare; a checkpoint of the running server besides those of
\* the restarts; two crashes where one transaction can be left half done twice.
Scenarios == {Bound(2, 2, 0, 0, 0, 1, 1),
              Bound(1, 1, 2, 0, 0, 1, 1), Bound(1, 0, 2, 0, 0, 1, 2),
              Bound(1, 2, 0, 1, 0, 1, 1), Bound(1, 1, 0, 1, 0, 1, 2),
              Bound(1, 1, 1, 0, 1, 1, 1), Bound(1, 1, 0, 0, 1, 1, 2)}

=============================================================================
