------------------------- MODULE MCTimestampOrdering -------------------------
(* A small instance of TimestampOrdering for TLC.                          *)
EXTENDS TimestampOrdering, TLC

\* Transactions and items are interchangeable.
Symmetry == Permutations(Txn) \union Permutations(Item)
=============================================================================
