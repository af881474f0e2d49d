------------------------- MODULE MCLockingScheduler -------------------------
(* A small instance of LockingScheduler for TLC.                           *)
EXTENDS LockingScheduler, TLC

\* Transactions and items are interchangeable.
Symmetry == Permutations(Txn) \union Permutations(Item)
=============================================================================
