--------------------------- MODULE TwoPhaseLocking ---------------------------
(***************************************************************************)
(* struct TwoPhaseLocking of concurrency.rs: a lock table of shared and    *)
(* exclusive locks, the phase of every transaction, and each transaction's *)
(* own list of the locks it was granted.  Every method takes &mut self and *)
(* never waits, so a call is one atomic action; the order of the calls of  *)
(* different transactions is arbitrary.                                    *)
(***************************************************************************)
EXTENDS Naturals, FiniteSets

CONSTANTS Txn,      \* transaction ids
          Item      \* lockable items

VARIABLES locks,      \* the lock table
          phase,      \* phase[t]: absent, growing or shrinking
          txn_locks   \* txn_locks[t]: the <<item, type>> pairs listed for t

tplVars == <<locks, phase, txn_locks>>

LockType == {"Shared", "Exclusive"}

\* The value a call returns, the last parameter of the actions below.
LockResult == {"Granted", "Denied"}

\* A table entry; the type "None" stands for an item without an entry.
LockState == [lock_type : LockType \union {"None"}, holders : SUBSET Txn]

NoLock == [lock_type |-> "None", holders |-> {}]

Present(x) == locks[x].lock_type # "None"

holds_lock(t, x) == Present(x) /\ t \in locks[x].holders

TPLInit ==
    /\ locks = [x \in Item |-> NoLock]
    /\ phase = [t \in Txn |-> "absent"]
    /\ txn_locks = [t \in Txn |-> {}]

-----------------------------------------------------------------------------
(* lock(txn, item, lock_type): one disjunct per path through the method.   *)

\* Mutant: the phase is looked at, but a request is never refused for it.
GrowingAgain(t) == phase' = [phase EXCEPT ![t] = "growing"]

LockShrinking(t, r) ==
    /\ phase[t] = "shrinking"
    /\ r = "Denied"
    /\ UNCHANGED tplVars

\* Every other path first enters t in the growing phase, even if it then
\* denies the request.
Growing(t) ==
    /\ phase[t] # "shrinking"
    /\ phase' = [phase EXCEPT ![t] = "growing"]

LockFree(t, x, m, r) ==
    /\ Growing(t)
    /\ ~ Present(x)
    /\ locks' = [locks EXCEPT ![x] = [lock_type |-> m, holders |-> {t}]]
    /\ txn_locks' = [txn_locks EXCEPT ![t] = @ \union {<<x, m>>}]
    /\ r = "Granted"

Upgrading(t, x, m) ==
    holds_lock(t, x) /\ locks[x].lock_type = "Shared" /\ m = "Exclusive"

\* The pairs of t on x become exclusive.
Upgraded(t, x) ==
    {<<p[1], IF p[1] = x THEN "Exclusive" ELSE p[2]>> : p \in txn_locks[t]}

\* Mutant: other shared holders do not stop an upgrade.
LockUpgradeAnyway(t, x, m, r) ==
    /\ Growing(t)
    /\ Upgrading(t, x, m)
    /\ locks' = [locks EXCEPT ![x].lock_type = "Exclusive"]
    /\ txn_locks' = [txn_locks EXCEPT ![t] = Upgraded(t, x)]
    /\ r = "Granted"

LockUpgrade(t, x, m, r) ==
    /\ Growing(t)
    /\ Upgrading(t, x, m)
    /\ locks[x].holders = {t}
    /\ locks' = [locks EXCEPT ![x].lock_type = "Exclusive"]
    /\ txn_locks' = [txn_locks EXCEPT ![t] = Upgraded(t, x)]
    /\ r = "Granted"

LockUpgradeDenied(t, x, m, r) ==
    /\ Growing(t)
    /\ Upgrading(t, x, m)
    /\ locks[x].holders # {t}
    /\ r = "Denied"
    /\ UNCHANGED <<locks, txn_locks>>

LockSufficient(t, x, m, r) ==
    /\ Growing(t)
    /\ holds_lock(t, x)
    /\ ~ Upgrading(t, x, m)
    /\ r = "Granted"
    /\ UNCHANGED <<locks, txn_locks>>

\* Mutant: one shared side is enough.
ShareableEither(t, x, m) ==
    /\ Present(x)
    /\ t \notin locks[x].holders
    /\ locks[x].lock_type = "Shared" \/ m = "Shared"

\* t does not hold x, but both the lock in place and the request are shared.
Shareable(t, x, m) ==
    /\ Present(x)
    /\ t \notin locks[x].holders
    /\ locks[x].lock_type = "Shared"
    /\ m = "Shared"

LockShare(t, x, m, r) ==
    /\ Growing(t)
    /\ Shareable(t, x, m)
    /\ locks' = [locks EXCEPT ![x].holders = @ \union {t}]
    /\ txn_locks' = [txn_locks EXCEPT ![t] = @ \union {<<x, m>>}]
    /\ r = "Granted"

LockConflict(t, x, m, r) ==
    /\ Growing(t)
    /\ Present(x)
    /\ t \notin locks[x].holders
    /\ ~ Shareable(t, x, m)
    /\ r = "Denied"
    /\ UNCHANGED <<locks, txn_locks>>

Lock(t, x, m, r) ==
    \/ LockShrinking(t, r)
    \/ LockFree(t, x, m, r)
    \/ LockUpgrade(t, x, m, r)
    \/ LockUpgradeDenied(t, x, m, r)
    \/ LockSufficient(t, x, m, r)
    \/ LockShare(t, x, m, r)
    \/ LockConflict(t, x, m, r)

-----------------------------------------------------------------------------
(* unlock and unlock_all.                                                  *)

\* Mutant: an entry goes when its first holder goes.
WithoutEntry(entry, t) == NoLock

\* Mutant: an entry stays when its last holder goes.
WithoutHolderOnly(entry, t) == [entry EXCEPT !.holders = @ \ {t}]

\* An entry without t; an entry left with no holder is removed.
WithoutHolder(entry, t) ==
    IF entry.holders \ {t} = {}
    THEN NoLock
    ELSE [lock_type |-> entry.lock_type, holders |-> entry.holders \ {t}]

\* A denied unlock ends the growing phase too.
UnlockDenied(t, x, r) ==
    /\ ~ holds_lock(t, x)
    /\ phase' = [phase EXCEPT ![t] = "shrinking"]
    /\ r = "Denied"
    /\ UNCHANGED <<locks, txn_locks>>

\* Mutant: the transaction's own list is forgotten.
UnlockHeldTableOnly(t, x, r) ==
    /\ holds_lock(t, x)
    /\ phase' = [phase EXCEPT ![t] = "shrinking"]
    /\ locks' = [locks EXCEPT ![x] = WithoutHolder(@, t)]
    /\ r = "Granted"
    /\ UNCHANGED txn_locks

UnlockHeld(t, x, r) ==
    /\ holds_lock(t, x)
    /\ phase' = [phase EXCEPT ![t] = "shrinking"]
    /\ locks' = [locks EXCEPT ![x] = WithoutHolder(@, t)]
    /\ txn_locks' = [txn_locks EXCEPT ![t] = {p \in @ : p[1] # x}]
    /\ r = "Granted"

Unlock(t, x, r) == UnlockDenied(t, x, r) \/ UnlockHeld(t, x, r)

\* unlock_all goes by the transaction's own list, not by the lock table,
\* and returns nothing.
ListedItems(t) == {p[1] : p \in txn_locks[t]}

\* Mutant: the list is dropped, the table is not cleaned.
UnlockAllListOnly(t) ==
    /\ phase' = [phase EXCEPT ![t] = "shrinking"]
    /\ txn_locks' = [txn_locks EXCEPT ![t] = {}]
    /\ UNCHANGED locks

\* Mutant: entries left without a holder are not removed.
UnlockAllKeepsEntries(t) ==
    /\ phase' = [phase EXCEPT ![t] = "shrinking"]
    /\ locks' = [x \in Item |->
                   IF x \in ListedItems(t) /\ Present(x)
                   THEN [locks[x] EXCEPT !.holders = @ \ {t}]
                   ELSE locks[x]]
    /\ txn_locks' = [txn_locks EXCEPT ![t] = {}]

UnlockAll(t) ==
    /\ phase' = [phase EXCEPT ![t] = "shrinking"]
    /\ locks' = [x \in Item |->
                   IF x \in ListedItems(t) /\ Present(x)
                   THEN WithoutHolder(locks[x], t)
                   ELSE locks[x]]
    /\ txn_locks' = [txn_locks EXCEPT ![t] = {}]

TPLNext ==
    \E t \in Txn :
        \/ \E x \in Item, r \in LockResult :
               Unlock(t, x, r) \/ \E m \in LockType : Lock(t, x, m, r)
        \/ UnlockAll(t)

TPLSpec == TPLInit /\ [][TPLNext]_tplVars

-----------------------------------------------------------------------------
\* The variables have their types.
TPLTypeOK ==
    /\ locks \in [Item -> LockState]
    /\ phase \in [Txn -> {"absent", "growing", "shrinking"}]
    /\ txn_locks \in [Txn -> SUBSET (Item \X LockType)]

\* The table keeps no entry without a holder (nobody could ever lock such
\* an item exclusively), and a lock with two holders is shared: this is what
\* the removals in unlock and unlock_all and the upgrade path must preserve.
TableSound ==
    \A x \in Item :
        /\ Present(x) <=> locks[x].holders # {}
        /\ locks[x].lock_type = "Exclusive" =>
             \A t, u \in locks[x].holders : t = u

\* The two copies of who holds what never drift apart: the list of a
\* transaction, which unlock_all trusts, names exactly the table entries that
\* the transaction holds, with the type the table has.
TxnLocksAgree ==
    \A t \in Txn, x \in Item, m \in LockType :
        <<x, m>> \in txn_locks[t] <=>
            t \in locks[x].holders /\ locks[x].lock_type = m

(***************************************************************************)
(* The abstract lock manager that the calls implement.                     *)
(***************************************************************************)
HeldModes ==
    [x \in Item |-> [t \in Txn |->
        IF t \in locks[x].holders THEN locks[x].lock_type ELSE "None"]]

RW == INSTANCE RWLocks WITH held <- HeldModes,
                            closed <- {t \in Txn : phase[t] = "shrinking"}

\* Whatever the order of the calls, what is granted and released follows the
\* abstract lock manager: readers or one writer, no lock after a release.
ImplementsRWLocks == RW!RWSpec
=============================================================================
