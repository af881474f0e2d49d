-------------------------- MODULE MCLockingClients --------------------------
(* Small instances of LockingClients for TLC.                              *)
EXTENDS LockingClients

\* Any one or two requests, upgrades and opposite orders included.
AnyPrograms ==
    UNION {[1 .. n -> [item : Item, lock_type : LockType]] : n \in 1 .. 2}
=============================================================================
