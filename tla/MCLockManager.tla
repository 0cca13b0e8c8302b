--------------------------- MODULE MCLockManager ---------------------------
(***************************************************************************)
(* Instances of LockManager: a class, with intention modes, and an         *)
(* instance of it.                                                         *)
(***************************************************************************)
EXTENDS LockManager

ClassAndInstance == [r \in Res |-> IF r = "class" THEN {"IS", "IX", "S"} ELSE {"X"}]

\* The youngest transaction asks once, the others twice.
Requests == [t \in Tran |-> IF t = NumTrans THEN 1 ELSE 2]
=============================================================================
