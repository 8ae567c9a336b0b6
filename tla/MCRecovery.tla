---------------------------- MODULE MCRecovery ----------------------------
(* Small instances of Recovery for TLC. *)
EXTENDS Recovery, TLC

CONSTANTS p1, p2, p3, h, w, s, n

At3(rows) == [rows |-> rows, version |-> 3, applied |-> 3]
At1(rows) == [rows |-> rows, version |-> 1, applied |-> 1]
Ledger(main, log, ok) == [main |-> main, wal |-> log, sound |-> ok]

(* None, one whose creation was interrupted, a current and an old one, with and   *)
(* without rows that are only in the log, and damaged ones.                       *)
Found == {Ledger(None, None, TRUE), Ledger(Empty, None, TRUE),
          Ledger(At3({h}), None, TRUE), Ledger(At1({h}), None, TRUE),
          Ledger(At1({h}), At1({h, w}), TRUE), Ledger(At3({h}), At3({h, w}), TRUE),
          Ledger(At3({h}), At3({h, w}), FALSE), Ledger(At1({h}), None, FALSE)}

JustInput == {s}
Interchangeable == Permutations(Proc)
=============================================================================
