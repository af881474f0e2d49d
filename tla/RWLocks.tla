------------------------------- MODULE RWLocks -------------------------------
(***************************************************************************)
(* What a two-phase lock manager promises: every item has many readers or  *)
(* one writer, and a transaction that has given anything back acquires     *)
(* nothing more.  No lock table, no per-transaction bookkeeping, no        *)
(* replies: TwoPhaseLocking is shown to implement it.                      *)
(***************************************************************************)
CONSTANTS Txn, Item

VARIABLES held,     \* held[x][t]: the mode in which t holds x
          closed    \* the transactions that may acquire no more locks

rwVars == <<held, closed>>

Mode == {"None", "Shared", "Exclusive"}

RWInit ==
    /\ held = [x \in Item |-> [t \in Txn |-> "None"]]
    /\ closed = {}

AcquireShared(t, x) ==
    /\ t \notin closed
    /\ held[x][t] = "None"
    /\ \A u \in Txn : held[x][u] # "Exclusive"
    /\ held' = [held EXCEPT ![x][t] = "Shared"]
    /\ UNCHANGED closed

\* Alone on the item, t acquires it exclusively or upgrades its shared lock.
AcquireExclusive(t, x) ==
    /\ t \notin closed
    /\ \A u \in Txn \ {t} : held[x][u] = "None"
    /\ held' = [held EXCEPT ![x][t] = "Exclusive"]
    /\ UNCHANGED closed

\* t gives back its locks on the items I (none, possibly) and is closed.
Release(t, I) ==
    /\ closed' = closed \union {t}
    /\ held' = [x \in Item |->
                  [u \in Txn |-> IF u = t /\ x \in I THEN "None" ELSE held[x][u]]]

RWNext ==
    \E t \in Txn :
        \/ \E x \in Item : AcquireShared(t, x) \/ AcquireExclusive(t, x)
        \/ \E I \in SUBSET Item : Release(t, I)

RWSpec == RWInit /\ [][RWNext]_rwVars
=============================================================================
