---------------------------- MODULE MCOwnership ----------------------------
(* Small instances of Ownership for TLC. *)
EXTENDS Ownership, TLC

CONSTANTS main, side, shared, own, p1, p2, p3

(* The default ledger alone, whose lock is the only one. *)
MainLock == [l \in Ledger |-> shared]
NoLegacy == [l \in Ledger |-> None]

(* A second ledger with a lock of its own; before isolation it shared main's. *)
TwoLocks == [l \in Ledger |-> IF l = main THEN shared ELSE own]
SharedBefore == [l \in Ledger |-> IF l = main THEN None ELSE shared]

Interchangeable == Permutations(Pid)
=============================================================================
