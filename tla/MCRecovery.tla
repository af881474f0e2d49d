----------------------------- MODULE MCRecovery -----------------------------
(* Small instances of Recovery.  One cell lies behind the end of an empty  *)
(* page, which grows by more than the cell when it is first written.       *)
EXTENDS Recovery

CONSTANTS p, q

Cells == {<<p, 2>>, <<q, 1>>}

\* Transactions are interchangeable.
Symmetry == Permutations(Txn)
=============================================================================
