----------------------- MODULE LockingSchedulerProofs -----------------------
(***************************************************************************)
(* TLAPS proofs about two-phase locking, for any sets of transactions and  *)
(* items.  First the lock manager alone, for any order of calls: types,    *)
(* the agreement of its two copies of the locks, and that it implements    *)
(* RWLocks.  Then the manager with its clients, for any bound on the       *)
(* schedule: what it lets happen is conflict serializable.                 *)
(*                                                                         *)
(* The argument: LockPointOrder alone is not inductive, since whether the  *)
(* next operation conflicts with an earlier one depends on who holds the   *)
(* item's lock.  LockingInv ties the three together: performed operations  *)
(* to locks (OperationsCovered), holders to earlier operations             *)
(* (HoldersAfter), and grants to the lock table (GrantsHonoured).          *)
(***************************************************************************)
EXTENDS LockingScheduler, SchedulesProofs, TLAPS

-----------------------------------------------------------------------------
(* The lock manager alone.                                                 *)

\* The lock manager's methods keep its fields within their types.
LEMMA TPLTypeStep ==
    ASSUME TPLTypeOK, [TPLNext]_tplVars
    PROVE  TPLTypeOK'
<1> USE DEF TPLTypeOK, LockState, LockType, NoLock, Growing
<1>1. CASE UNCHANGED tplVars
  BY <1>1 DEF tplVars
<1>2. ASSUME NEW t \in Txn, NEW x \in Item, NEW m \in LockType,
             NEW r \in LockResult, Lock(t, x, m, r)
      PROVE  TPLTypeOK'
  <2>1. CASE LockShrinking(t, r)
    BY <2>1 DEF LockShrinking, tplVars
  <2>2. CASE LockFree(t, x, m, r)
    BY <2>2 DEF LockFree
  <2>3. CASE LockUpgrade(t, x, m, r)
    <3>1. Upgraded(t, x) \in SUBSET (Item \X LockType)
      BY DEF Upgraded
    <3>2. QED BY <2>3, <3>1 DEF LockUpgrade
  <2>4. CASE LockUpgradeDenied(t, x, m, r)
    BY <2>4 DEF LockUpgradeDenied
  <2>5. CASE LockSufficient(t, x, m, r)
    BY <2>5 DEF LockSufficient
  <2>6. CASE LockShare(t, x, m, r)
    BY <2>6 DEF LockShare
  <2>7. CASE LockConflict(t, x, m, r)
    BY <2>7 DEF LockConflict
  <2>8. QED
    BY <1>2, <2>1, <2>2, <2>3, <2>4, <2>5, <2>6, <2>7 DEF Lock
<1>3. ASSUME NEW t \in Txn, NEW x \in Item, NEW r \in LockResult,
             Unlock(t, x, r)
      PROVE  TPLTypeOK'
  BY <1>3 DEF Unlock, UnlockDenied, UnlockHeld, WithoutHolder
<1>4. ASSUME NEW t \in Txn, UnlockAll(t)
      PROVE  TPLTypeOK'
  BY <1>4 DEF UnlockAll, WithoutHolder
<1>5. QED
  BY <1>1, <1>2, <1>3, <1>4 DEF TPLNext

\* Type correctness of the lock manager under any sequence of calls.
THEOREM TPLTypes == TPLSpec => []TPLTypeOK
<1>1. TPLInit => TPLTypeOK
  BY DEF TPLInit, TPLTypeOK, LockState, NoLock
<1>2. QED
  BY <1>1, TPLTypeStep, PTL DEF TPLSpec

-----------------------------------------------------------------------------
\* The lock table and the transactions' own lists, taken together.
TablesInv == TPLTypeOK /\ TableSound /\ TxnLocksAgree

LEMMA TablesInit == TPLInit => TablesInv
  BY DEF TPLInit, TablesInv, TPLTypeOK, LockState, NoLock, TableSound,
         TxnLocksAgree, Present, LockType

\* Dropping a holder leaves the others and, while there are any, the type.
LEMMA WithoutHolderSound ==
    ASSUME NEW e \in LockState, NEW t \in Txn
    PROVE  /\ WithoutHolder(e, t) \in LockState
           /\ WithoutHolder(e, t).holders = e.holders \ {t}
           /\ WithoutHolder(e, t).lock_type =
                IF e.holders \ {t} = {} THEN "None" ELSE e.lock_type
  BY DEF WithoutHolder, LockState, NoLock

\* Each path of lock, unlock and unlock_all changes both copies alike.
LEMMA TablesStep ==
    ASSUME TablesInv, [TPLNext]_tplVars
    PROVE  TablesInv'
<1>1. TPLTypeOK /\ TableSound /\ TxnLocksAgree /\ TPLTypeOK'
  BY TPLTypeStep DEF TablesInv
<1>2. /\ locks \in [Item -> LockState]
      /\ \A y \in Item : locks[y].holders \subseteq Txn
      /\ txn_locks \in [Txn -> SUBSET (Item \X LockType)]
  BY <1>1 DEF TPLTypeOK, LockState
<1>a. \A u \in Txn, y \in Item, n \in LockType :
        <<y, n>> \in txn_locks[u] <=>
          u \in locks[y].holders /\ locks[y].lock_type = n
  BY <1>1 DEF TxnLocksAgree
<1> SUFFICES TableSound' /\ TxnLocksAgree'
  BY <1>1 DEF TablesInv
<1>3. CASE UNCHANGED <<locks, txn_locks>>
  BY <1>1, <1>3 DEF TableSound, TxnLocksAgree, Present
<1>4. ASSUME NEW t \in Txn, NEW x \in Item, NEW m \in LockType,
             NEW r \in LockResult, Lock(t, x, m, r)
      PROVE  TableSound' /\ TxnLocksAgree'
  <2>1. CASE UNCHANGED <<locks, txn_locks>>
    BY <1>3, <2>1
  <2>2. CASE LockFree(t, x, m, r)
    <3>1. /\ \A y \in Item : y # x => locks'[y] = locks[y]
          /\ locks'[x].lock_type = m /\ locks'[x].holders = {t}
      BY <1>2, <2>2 DEF LockFree
    <3>2. \A u \in Txn, y \in Item, n \in LockType :
            <<y, n>> \in txn_locks'[u] <=>
              <<y, n>> \in txn_locks[u] \/ (u = t /\ y = x /\ n = m)
      BY <1>2, <2>2 DEF LockFree
    <3>3. locks[x].holders = {}
      BY <1>1, <2>2 DEF LockFree, TableSound
    <3>4. TableSound'
      BY <1>1, <3>1 DEF TableSound, Present, LockType
    <3>5. ASSUME NEW u \in Txn, NEW y \in Item, NEW n \in LockType
          PROVE  <<y, n>> \in txn_locks'[u] <=>
                   u \in locks'[y].holders /\ locks'[y].lock_type = n
      <4>1. CASE y # x
        BY <1>a, <3>1, <3>2, <4>1
      <4>2. CASE y = x
        BY <1>a, <3>1, <3>2, <3>3, <4>2
      <4>3. QED BY <4>1, <4>2
    <3>6. QED BY <3>4, <3>5 DEF TxnLocksAgree
  <2>3. CASE LockUpgrade(t, x, m, r)
    <3>1. /\ \A y \in Item : y # x => locks'[y] = locks[y]
          /\ locks'[x].lock_type = "Exclusive"
          /\ locks'[x].holders = {t} /\ locks[x].holders = {t}
      BY <1>2, <2>3 DEF LockUpgrade, LockState
    <3>2. \A u \in Txn : txn_locks'[u] =
            IF u = t THEN Upgraded(t, x) ELSE txn_locks[u]
      BY <1>2, <2>3 DEF LockUpgrade
    <3>3. <<x, "Shared">> \in txn_locks[t]
      BY <1>1, <2>3 DEF LockUpgrade, Upgrading, holds_lock, TxnLocksAgree, LockType
    <3>4. \A y \in Item, n \in LockType :
            <<y, n>> \in Upgraded(t, x) <=>
              IF y = x THEN n = "Exclusive" ELSE <<y, n>> \in txn_locks[t]
      BY <1>2, <3>3 DEF Upgraded
    <3>5. TableSound'
      BY <1>1, <3>1 DEF TableSound, Present
    <3>6. ASSUME NEW u \in Txn, NEW y \in Item, NEW n \in LockType
          PROVE  <<y, n>> \in txn_locks'[u] <=>
                   u \in locks'[y].holders /\ locks'[y].lock_type = n
      BY <1>a, <3>1, <3>2, <3>4
    <3>7. QED BY <3>5, <3>6 DEF TxnLocksAgree
  <2>4. CASE LockShare(t, x, m, r)
    <3>1. /\ \A y \in Item : y # x => locks'[y] = locks[y]
          /\ locks'[x].lock_type = "Shared" /\ locks[x].lock_type = "Shared"
          /\ locks'[x].holders = locks[x].holders \union {t}
      BY <1>2, <2>4 DEF LockShare, Shareable, LockState
    <3>2. \A u \in Txn, y \in Item, n \in LockType :
            <<y, n>> \in txn_locks'[u] <=>
              <<y, n>> \in txn_locks[u] \/ (u = t /\ y = x /\ n = "Shared")
      BY <1>2, <2>4 DEF LockShare, Shareable
    <3>3. TableSound'
      BY <1>1, <3>1 DEF TableSound, Present
    <3>4. ASSUME NEW u \in Txn, NEW y \in Item, NEW n \in LockType
          PROVE  <<y, n>> \in txn_locks'[u] <=>
                   u \in locks'[y].holders /\ locks'[y].lock_type = n
      BY <1>a, <3>1, <3>2
    <3>5. QED BY <3>3, <3>4 DEF TxnLocksAgree
  <2>5. QED
    BY <1>4, <2>1, <2>2, <2>3, <2>4
       DEF Lock, LockShrinking, LockUpgradeDenied, LockSufficient,
           LockConflict, tplVars
<1>5. ASSUME NEW t \in Txn, NEW I \in SUBSET Item,
             \A y \in Item : locks'[y] =
               IF y \in I THEN WithoutHolder(locks[y], t) ELSE locks[y],
             \A u \in Txn, y \in Item, n \in LockType :
               <<y, n>> \in txn_locks'[u] <=>
                 <<y, n>> \in txn_locks[u] /\ ~ (u = t /\ y \in I)
      PROVE  TableSound' /\ TxnLocksAgree'
  <2>1. \A y \in I :
          /\ locks'[y].holders = locks[y].holders \ {t}
          /\ locks'[y].lock_type =
               IF locks[y].holders \ {t} = {} THEN "None" ELSE locks[y].lock_type
    BY <1>2, <1>5, WithoutHolderSound
  <2>2. TableSound'
    BY <1>1, <1>5, <2>1 DEF TableSound, Present
  <2>3. ASSUME NEW u \in Txn, NEW y \in Item, NEW n \in LockType
        PROVE  <<y, n>> \in txn_locks'[u] <=>
                 u \in locks'[y].holders /\ locks'[y].lock_type = n
    <3>1. CASE y \in I
      <4>1. <<y, n>> \in txn_locks'[u] <=>
              u \in locks'[y].holders /\ locks[y].lock_type = n
        BY <1>a, <1>5, <2>1, <3>1
      <4>2. u \in locks'[y].holders => locks'[y].lock_type = locks[y].lock_type
        BY <2>1, <3>1
      <4>3. QED BY <4>1, <4>2
    <3>2. CASE y \notin I
      BY <1>a, <1>5, <3>2
    <3>3. QED BY <3>1, <3>2
  <2>4. QED BY <2>2, <2>3 DEF TxnLocksAgree
<1>6. ASSUME NEW t \in Txn, NEW x \in Item, NEW r \in LockResult,
             UnlockHeld(t, x, r)
      PROVE  TableSound' /\ TxnLocksAgree'
  <2> DEFINE I == {x}
  <2>1. \A y \in Item : locks'[y] =
          IF y \in I THEN WithoutHolder(locks[y], t) ELSE locks[y]
    BY <1>2, <1>6 DEF UnlockHeld
  <2>2. \A u \in Txn, y \in Item, n \in LockType :
          <<y, n>> \in txn_locks'[u] <=>
            <<y, n>> \in txn_locks[u] /\ ~ (u = t /\ y \in I)
    BY <1>2, <1>6 DEF UnlockHeld
  <2>3. I \in SUBSET Item
    OBVIOUS
  <2> HIDE DEF I
  <2>4. QED BY <1>5, <2>1, <2>2, <2>3
<1>7. ASSUME NEW t \in Txn, UnlockAll(t)
      PROVE  TableSound' /\ TxnLocksAgree'
  <2>1. \A y \in Item : y \in ListedItems(t) <=> t \in locks[y].holders
    <3>1. \A y \in Item : t \in locks[y].holders => locks[y].lock_type \in LockType
      BY <1>1, <1>2 DEF TableSound, Present, LockState
    <3>2. ASSUME NEW y \in Item
          PROVE  y \in ListedItems(t) <=> t \in locks[y].holders
      <4>1. y \in ListedItems(t) <=> \E n \in LockType : <<y, n>> \in txn_locks[t]
        <5>1. \A p \in txn_locks[t] : p = <<p[1], p[2]>> /\ p[2] \in LockType
          BY <1>2
        <5>2. QED BY <5>1 DEF ListedItems
      <4>2. QED BY <1>a, <3>1, <4>1
    <3>3. QED BY <3>2
  <2> DEFINE I == {y \in Item : t \in locks[y].holders}
  <2>3. \A y \in Item : locks'[y] =
          IF y \in I THEN WithoutHolder(locks[y], t) ELSE locks[y]
    BY <1>1, <1>7, <2>1 DEF UnlockAll, TableSound
  <2>4. \A u \in Txn, y \in Item, n \in LockType :
          <<y, n>> \in txn_locks'[u] <=>
            <<y, n>> \in txn_locks[u] /\ ~ (u = t /\ y \in I)
    BY <1>1, <1>2, <1>7 DEF UnlockAll, TxnLocksAgree
  <2>5. I \in SUBSET Item
    OBVIOUS
  <2> HIDE DEF I
  <2>6. QED BY <1>5, <2>3, <2>4, <2>5
<1>8. QED
  BY <1>3, <1>4, <1>6, <1>7 DEF TPLNext, tplVars, Unlock, UnlockDenied

\* The table and the lists agree for ever, and no entry outlives its holders.
THEOREM TablesAlwaysAgree == TPLSpec => [](TableSound /\ TxnLocksAgree)
<1>1. TPLSpec => []TablesInv
  BY TablesInit, TablesStep, PTL DEF TPLSpec
<1>2. QED
  BY <1>1, PTL DEF TablesInv

-----------------------------------------------------------------------------
(* The refinement: every call is one step of RWLocks, or none.             *)

ClosedTxns == {t \in Txn : phase[t] = "shrinking"}

LEMMA RefinementStep ==
    ASSUME TablesInv, [TPLNext]_tplVars
    PROVE  [RW!RWNext]_<<HeldModes, ClosedTxns>>
<1>1. TPLTypeOK /\ TableSound
  BY DEF TablesInv
<1>2. /\ locks \in [Item -> LockState]
      /\ phase \in [Txn -> {"absent", "growing", "shrinking"}]
      /\ \A y \in Item : locks[y].holders \subseteq Txn
  BY <1>1 DEF TPLTypeOK, LockState
<1>3. ASSUME UNCHANGED locks, ClosedTxns' = ClosedTxns
      PROVE  UNCHANGED <<HeldModes, ClosedTxns>>
  BY <1>3 DEF HeldModes
<1>4. ASSUME NEW t \in Txn, NEW x \in Item, NEW m \in LockType,
             NEW r \in LockResult, Lock(t, x, m, r)
      PROVE  [RW!RWNext]_<<HeldModes, ClosedTxns>>
  <2>1. CASE LockShrinking(t, r)
    BY <1>3, <2>1 DEF LockShrinking, tplVars, ClosedTxns
  <2>2. CASE Growing(t)
    <3>1. ClosedTxns' = ClosedTxns /\ t \notin ClosedTxns
      BY <1>2, <2>2 DEF Growing, ClosedTxns
    <3>2. CASE UNCHANGED locks
      BY <1>3, <3>1, <3>2
    <3>3. CASE \/ LockFree(t, x, m, r) /\ m = "Exclusive"
               \/ LockUpgrade(t, x, m, r)
      <4>1. \A u \in Txn \ {t} : HeldModes[x][u] = "None"
        BY <1>1, <1>2, <3>3 DEF LockFree, LockUpgrade, TableSound, HeldModes
      <4>2. /\ \A y \in Item : y # x => locks'[y] = locks[y]
            /\ locks'[x].holders = {t} /\ locks'[x].lock_type = "Exclusive"
        BY <1>2, <3>3 DEF LockFree, LockUpgrade, LockState
      <4>3. HeldModes' = [HeldModes EXCEPT ![x][t] = "Exclusive"]
        <5> DEFINE h(y, u) == IF y = x /\ u = t THEN "Exclusive"
                              ELSE HeldModes[y][u]
        <5>1. \A y \in Item, u \in Txn :
                h(y, u) = IF u \in locks'[y].holders
                          THEN locks'[y].lock_type ELSE "None"
          BY <4>1, <4>2 DEF HeldModes
        <5>2. [HeldModes EXCEPT ![x][t] = "Exclusive"] =
                [y \in Item |-> [u \in Txn |-> h(y, u)]]
          BY DEF HeldModes
        <5> HIDE DEF h
        <5>3. QED BY <5>1, <5>2 DEF HeldModes
      <4>4. RW!AcquireExclusive(t, x)
        BY <3>1, <4>1, <4>3 DEF RW!AcquireExclusive, ClosedTxns
      <4>5. QED BY <4>4 DEF RW!RWNext
    <3>4. CASE \/ LockFree(t, x, m, r) /\ m = "Shared"
               \/ LockShare(t, x, m, r)
      <4>1. HeldModes[x][t] = "None" /\ \A u \in Txn : HeldModes[x][u] # "Exclusive"
        BY <1>1, <1>2, <3>4 DEF LockFree, LockShare, Shareable, TableSound, HeldModes
      <4>2. /\ \A y \in Item : y # x => locks'[y] = locks[y]
            /\ locks'[x].holders = locks[x].holders \union {t}
            /\ locks'[x].lock_type = "Shared"
            /\ locks[x].holders # {} => locks[x].lock_type = "Shared"
        BY <1>1, <1>2, <3>4 DEF LockFree, LockShare, Shareable, TableSound, LockState
      <4>3. HeldModes' = [HeldModes EXCEPT ![x][t] = "Shared"]
        <5> DEFINE h(y, u) == IF y = x /\ u = t THEN "Shared"
                              ELSE HeldModes[y][u]
        <5>1. \A y \in Item, u \in Txn :
                h(y, u) = IF u \in locks'[y].holders
                          THEN locks'[y].lock_type ELSE "None"
          BY <4>2 DEF HeldModes
        <5>2. [HeldModes EXCEPT ![x][t] = "Shared"] =
                [y \in Item |-> [u \in Txn |-> h(y, u)]]
          BY DEF HeldModes
        <5> HIDE DEF h
        <5>3. QED BY <5>1, <5>2 DEF HeldModes
      <4>4. RW!AcquireShared(t, x)
        BY <3>1, <4>1, <4>3 DEF RW!AcquireShared, ClosedTxns
      <4>5. QED BY <4>4 DEF RW!RWNext
    <3>5. QED
      BY <1>4, <2>2, <3>2, <3>3, <3>4
         DEF Lock, LockShrinking, LockUpgradeDenied, LockSufficient,
             LockConflict, Growing, LockType
  <2>3. QED
    BY <1>4, <2>1, <2>2
       DEF Lock, LockFree, LockUpgrade, LockUpgradeDenied, LockSufficient,
           LockShare, LockConflict
<1>5. ASSUME NEW t \in Txn, NEW I \in SUBSET Item,
             phase' = [phase EXCEPT ![t] = "shrinking"],
             \A y \in Item : locks'[y] =
               IF y \in I THEN WithoutHolder(locks[y], t) ELSE locks[y]
      PROVE  RW!RWNext
  <2>1. \A y \in I :
          /\ locks'[y].holders = locks[y].holders \ {t}
          /\ locks[y].holders \ {t} # {} => locks'[y].lock_type = locks[y].lock_type
    BY <1>2, <1>5, WithoutHolderSound
  <2>2. HeldModes' = [y \in Item |-> [u \in Txn |->
                        IF u = t /\ y \in I THEN "None" ELSE HeldModes[y][u]]]
    BY <1>5, <2>1 DEF HeldModes
  <2>3. ClosedTxns' = ClosedTxns \union {t}
    BY <1>2, <1>5 DEF ClosedTxns
  <2>4. RW!Release(t, I)
    BY <2>2, <2>3 DEF RW!Release, ClosedTxns
  <2>5. QED BY <2>4 DEF RW!RWNext
<1>6. ASSUME NEW t \in Txn, NEW x \in Item, NEW r \in LockResult,
             Unlock(t, x, r)
      PROVE  RW!RWNext
  <2>1. CASE UnlockHeld(t, x, r)
    <3> DEFINE I == {x}
    <3>1. phase' = [phase EXCEPT ![t] = "shrinking"]
      BY <2>1 DEF UnlockHeld
    <3>2. \A y \in Item : locks'[y] =
            IF y \in I THEN WithoutHolder(locks[y], t) ELSE locks[y]
      BY <1>2, <2>1 DEF UnlockHeld
    <3>3. I \in SUBSET Item
      OBVIOUS
    <3> HIDE DEF I
    <3>4. QED BY <1>5, <3>1, <3>2, <3>3
  <2>2. CASE UnlockDenied(t, x, r)
    <3> DEFINE I == {}
    <3>1. phase' = [phase EXCEPT ![t] = "shrinking"]
      BY <2>2 DEF UnlockDenied
    <3>2. \A y \in Item : locks'[y] =
            IF y \in I THEN WithoutHolder(locks[y], t) ELSE locks[y]
      BY <2>2 DEF UnlockDenied
    <3>3. I \in SUBSET Item
      OBVIOUS
    <3> HIDE DEF I
    <3>4. QED BY <1>5, <3>1, <3>2, <3>3
  <2>3. QED BY <1>6, <2>1, <2>2 DEF Unlock
<1>7. ASSUME NEW t \in Txn, UnlockAll(t)
      PROVE  RW!RWNext
  <2> DEFINE I == {y \in Item : y \in ListedItems(t) /\ Present(y)}
  <2>1. phase' = [phase EXCEPT ![t] = "shrinking"]
    BY <1>7 DEF UnlockAll
  <2>2. \A y \in Item : locks'[y] =
          IF y \in I THEN WithoutHolder(locks[y], t) ELSE locks[y]
    BY <1>7 DEF UnlockAll
  <2>3. I \in SUBSET Item
    OBVIOUS
  <2> HIDE DEF I
  <2>4. QED BY <1>5, <2>1, <2>2, <2>3
<1>8. CASE UNCHANGED tplVars
  BY <1>3, <1>8 DEF tplVars, ClosedTxns
<1>9. QED
  BY <1>4, <1>6, <1>7, <1>8 DEF TPLNext

\* The lock manager implements RWLocks: readers or one writer on every item,
\* and no lock for a transaction that has released anything.
THEOREM TPLImplementsRWLocks == TPLSpec => ImplementsRWLocks
<1>1. TPLInit => RW!RWInit
  BY DEF TPLInit, NoLock, RW!RWInit, HeldModes
<1>2. TablesInv /\ [TPLNext]_tplVars => [RW!RWNext]_RW!rwVars
  BY RefinementStep DEF RW!rwVars, ClosedTxns
<1>3. QED
  BY <1>1, <1>2, TablesInit, TablesStep, PTL
     DEF TPLSpec, ImplementsRWLocks, RW!RWSpec

-----------------------------------------------------------------------------
(* The lock manager and its clients.                                       *)

\* Every step of the scheduler is a call of the lock manager or leaves it alone.
LEMMA SchedulerCalls ==
    ASSUME [Next]_vars
    PROVE  [TPLNext]_tplVars
  BY DEF Next, vars, Request, ReadItem, WriteItem, Perform, ReleaseItem,
         Finish, TPLNext

\* What the clients do to the lock manager are calls of its methods.
THEOREM SchedulerImplementsTPL == Spec => TPLSpec
<1>1. Init => TPLInit
  BY DEF Init
<1>2. QED
  BY <1>1, SchedulerCalls, PTL DEF Spec, TPLSpec

LEMMA TypeStep ==
    ASSUME ClientTypeOK, [Next]_vars
    PROVE  ClientTypeOK'
<1> USE DEF ClientTypeOK
<1>1. TPLTypeOK'
  BY TPLTypeStep, SchedulerCalls
<1>2. ASSUME NEW t \in Txn, NEW x \in Item, NEW m \in LockType,
             NEW r \in LockResult, Request(t, x, m, r)
      PROVE  ClientTypeOK'
  BY <1>1, <1>2 DEF Request, Stronger, Mode
<1>3. ASSUME NEW op \in Operation(Txn, Item), Perform(op)
      PROVE  ClientTypeOK'
  BY <1>1, <1>3 DEF Perform
<1>4. ASSUME NEW t \in Txn, NEW x \in Item, ReadItem(t, x) \/ WriteItem(t, x)
      PROVE  ClientTypeOK'
  <2>1. ReadOp(t, x) \in Operation(Txn, Item) /\ WriteOp(t, x) \in Operation(Txn, Item)
    BY DEF ReadOp, WriteOp, Operation
  <2>2. QED BY <1>3, <1>4, <2>1 DEF ReadItem, WriteItem
<1>5. ASSUME NEW t \in Txn, PassLockPoint(t)
      PROVE  clock' \in Nat /\ lockPoint' \in [Txn -> Nat]
  BY <1>5 DEF PassLockPoint
<1>6. ASSUME NEW t \in Txn, NEW x \in Item, NEW r \in LockResult,
             ReleaseItem(t, x, r)
      PROVE  ClientTypeOK'
  BY <1>1, <1>5, <1>6 DEF ReleaseItem, Mode
<1>7. ASSUME NEW t \in Txn, Finish(t)
      PROVE  ClientTypeOK'
  BY <1>1, <1>5, <1>7 DEF Finish, Mode, NoGrants
<1>8. CASE UNCHANGED vars
  BY <1>1, <1>8 DEF vars, clientVars
<1>9. QED
  BY <1>2, <1>4, <1>6, <1>7, <1>8 DEF Next

\* The transactions' own lists and the lock table agree in every reachable
\* state of the scheduler.
THEOREM SchedulerTablesAgree == Spec => []TxnLocksAgree
  BY SchedulerImplementsTPL, TablesAlwaysAgree, PTL

\* The calls the clients make implement the abstract lock manager.
THEOREM SchedulerImplementsRWLocks == Spec => ImplementsRWLocks
  BY SchedulerImplementsTPL, TPLImplementsRWLocks, PTL

-----------------------------------------------------------------------------
\* The inductive invariant of the scheduler.
SchedulerInv == ClientTypeOK /\ TablesInv /\ LockingInv

\* The invariant implies serializability: transactions past their lock point
\* are ranked by it, all others above them.
LEMMA InvSerializable ==
    ASSUME SchedulerInv
    PROVE  Serializable
<1> DEFINE rank == [t \in transactions(operations) |->
                      IF Shrinking(t) THEN lockPoint[t] ELSE clock]
<1>1. transactions(operations) \subseteq Txn
  <2>1. \A i \in DOMAIN operations : operations[i] \in Operation(Txn, Item)
    BY DEF SchedulerInv, ClientTypeOK
  <2>2. QED BY <2>1 DEF transactions, Operation
<1>2. rank \in [transactions(operations) -> Nat]
  BY <1>1 DEF SchedulerInv, ClientTypeOK
<1>3. ASSUME NEW i \in DOMAIN operations, NEW j \in DOMAIN operations,
             i < j, conflicts(operations[i], operations[j])
      PROVE  rank[operations[i].txn] < rank[operations[j].txn]
  <2> DEFINE t == operations[i].txn
             u == operations[j].txn
  <2>1. t \in transactions(operations) /\ u \in transactions(operations)
    BY DEF transactions
  <2>2. Shrinking(t) /\ (Shrinking(u) => lockPoint[t] < lockPoint[u])
    BY <1>3 DEF SchedulerInv, LockingInv, LockPointOrder
  <2>3. lockPoint[t] < clock
    BY <1>1, <2>1, <2>2 DEF SchedulerInv, LockingInv, LockPointsPast
  <2>4. QED BY <1>1, <2>1, <2>2, <2>3
<1> HIDE DEF rank
<1>4. QED
  BY <1>2, <1>3, RankedSerializable DEF Serializable

-----------------------------------------------------------------------------
(* LockingInv is inductive.                                                *)

LEMMA LockingInvInit == Init => LockingInv
  BY DEF Init, TPLInit, NoLock, NoGrants, LockingInv, TableSound, Present,
         GrantsHonoured, LockPointsPast, Shrinking, OperationsCovered,
         HoldersAfter, LockPointOrder

\* A call that releases nothing: lock, whether granted or denied.
LEMMA RequestStep ==
    ASSUME SchedulerInv, TPLTypeOK', TableSound',
           NEW t \in Txn, NEW x \in Item, NEW m \in LockType,
           NEW r \in LockResult, Request(t, x, m, r)
    PROVE  LockingInv'
<1>1. /\ locks \in [Item -> LockState]
      /\ \A y \in Item : locks[y].holders \subseteq Txn
      /\ phase \in [Txn -> {"absent", "growing", "shrinking"}]
      /\ granted \in [Txn -> [Item -> Mode]]
      /\ lockPoint \in [Txn -> Nat] /\ clock \in Nat
      /\ \A i \in DOMAIN operations : operations[i] \in Operation(Txn, Item)
  BY DEF SchedulerInv, ClientTypeOK, TPLTypeOK, LockState
<1>2. LockingInv /\ TableSound
  BY DEF SchedulerInv, TablesInv
<1>3. UNCHANGED <<operations, clock, lockPoint>> /\ Lock(t, x, m, r)
  BY DEF Request
<1>4. \A u \in Txn : Shrinking(u)' <=> Shrinking(u)
  BY <1>1, <1>3 DEF Lock, LockShrinking, LockFree, LockUpgrade,
     LockUpgradeDenied, LockSufficient, LockShare, LockConflict, Growing,
     Shrinking, tplVars
\* What a grant changes: only t's mode on x, and only upwards.
<1>5. \A y \in Item : y # x => locks'[y] = locks[y]
  BY <1>1, <1>3 DEF Lock, LockShrinking, LockFree, LockUpgrade,
     LockUpgradeDenied, LockSufficient, LockShare, LockConflict, tplVars
<1>6. \/ locks'[x] = locks[x]
      \/ /\ ~ Shrinking(t)
         /\ locks'[x].holders = locks[x].holders \union {t}
         /\ \/ locks'[x].holders = {t}
            \/ locks'[x].lock_type = "Shared" /\ locks[x].lock_type = "Shared"
         /\ locks[x].lock_type = "Exclusive" => locks'[x].lock_type = "Exclusive"
  <2>1. CASE locks' = locks
    BY <2>1
  <2>2. CASE LockFree(t, x, m, r)
    BY <1>1, <1>2, <2>2 DEF LockFree, Growing, Shrinking, TableSound, Present
  <2>3. CASE LockUpgrade(t, x, m, r)
    BY <1>1, <2>3 DEF LockUpgrade, Growing, Shrinking, LockState
  <2>4. CASE LockShare(t, x, m, r)
    BY <1>1, <2>4 DEF LockShare, Shareable, Growing, Shrinking, LockState
  <2>5. QED
    BY <1>3, <2>1, <2>2, <2>3, <2>4 DEF Lock, LockShrinking,
       LockUpgradeDenied, LockSufficient, LockConflict, tplVars
<1>7. LockPointsPast'
  BY <1>2, <1>3, <1>4 DEF LockingInv, LockPointsPast
<1>8. LockPointOrder'
  BY <1>1, <1>2, <1>3, <1>4 DEF LockingInv, LockPointOrder, Operation, Shrinking
<1>9. OperationsCovered'
  BY <1>1, <1>2, <1>3, <1>4, <1>5, <1>6
     DEF LockingInv, OperationsCovered, Operation
<1>10. HoldersAfter'
  BY <1>1, <1>2, <1>3, <1>4, <1>5, <1>6
     DEF LockingInv, OperationsCovered, HoldersAfter, Operation
\* A reply of Granted means what the client makes of it.
<1>11. r = "Granted" =>
         /\ t \in locks'[x].holders
         /\ m = "Exclusive" => locks'[x].lock_type = "Exclusive"
  <2>1. CASE LockFree(t, x, m, r)
    BY <1>1, <2>1 DEF LockFree
  <2>2. CASE LockUpgrade(t, x, m, r)
    BY <1>1, <2>2 DEF LockUpgrade, LockState
  <2>3. CASE LockSufficient(t, x, m, r)
    BY <1>1, <2>3 DEF LockSufficient, Upgrading, holds_lock, Present, LockState, LockType
  <2>4. CASE LockShare(t, x, m, r)
    BY <1>1, <2>4 DEF LockShare, Shareable, LockState
  <2>5. QED
    BY <1>3, <2>1, <2>2, <2>3, <2>4 DEF Lock, LockShrinking,
       LockUpgradeDenied, LockConflict
<1>12. ASSUME NEW u \in Txn, NEW y \in Item
       PROVE  /\ granted'[u][y] # "None" => u \in locks'[y].holders
              /\ granted'[u][y] = "Exclusive" => locks'[y].lock_type = "Exclusive"
  <2>1. /\ granted[u][y] # "None" => u \in locks[y].holders
        /\ granted[u][y] = "Exclusive" => locks[y].lock_type = "Exclusive"
    BY <1>2 DEF LockingInv, GrantsHonoured, holds_lock
  <2>2. CASE granted'[u][y] = granted[u][y]
    BY <1>5, <1>6, <2>1, <2>2
  <2>3. CASE u = t /\ y = x /\ r = "Granted"
    <3>1. granted'[t][x] = Stronger(granted[t][x], m)
      BY <1>1, <2>3 DEF Request
    <3>2. QED BY <1>6, <1>11, <2>1, <2>3, <3>1 DEF Stronger
  <2>4. QED BY <1>1, <2>2, <2>3 DEF Request
<1>13. GrantsHonoured'
  BY <1>12 DEF GrantsHonoured, holds_lock, TableSound
<1>14. QED
  BY <1>7, <1>8, <1>9, <1>10, <1>13 DEF LockingInv

\* An access performed under a grant.
LEMMA AccessStep ==
    ASSUME SchedulerInv, NEW t \in Txn, NEW x \in Item,
           NEW op \in Operation(Txn, Item), op.txn = t, op.item = x,
           granted[t][x] # "None",
           op.kind = "Write" => granted[t][x] = "Exclusive",
           Perform(op)
    PROVE  LockingInv'
<1>1. /\ LockingInv /\ TableSound /\ operations \in Seq(Operation(Txn, Item))
      /\ \A i \in DOMAIN operations : operations[i] \in Operation(Txn, Item)
  BY DEF SchedulerInv, TablesInv, ClientTypeOK
<1>2. /\ UNCHANGED <<locks, phase, txn_locks, granted, clock, lockPoint>>
      /\ operations' = Append(operations, op)
  BY DEF Perform, tplVars
<1>3. \A i \in DOMAIN operations' :
        \/ i \in DOMAIN operations /\ operations'[i] = operations[i]
        \/ i = Len(operations) + 1 /\ operations'[i] = op
  BY <1>1, <1>2
<1>4. /\ t \in locks[x].holders
      /\ op.kind = "Write" => locks[x].lock_type = "Exclusive"
  BY <1>1 DEF LockingInv, GrantsHonoured, holds_lock
<1>5. TableSound' /\ GrantsHonoured' /\ LockPointsPast'
  BY <1>1, <1>2 DEF LockingInv, TableSound, Present, GrantsHonoured,
     holds_lock, LockPointsPast, Shrinking
<1>6. OperationsCovered'
  BY <1>1, <1>2, <1>3, <1>4 DEF LockingInv, OperationsCovered, Shrinking
<1>7. HoldersAfter'
  <2>1. ASSUME NEW u \in locks[x].holders \ {t},
               op.kind = "Write" \/ locks[x].lock_type = "Exclusive"
        PROVE  FALSE
    BY <1>1, <1>4, <2>1 DEF TableSound
  <2>2. QED
    BY <1>1, <1>2, <1>3, <2>1 DEF LockingInv, HoldersAfter, Shrinking
<1>8. LockPointOrder'
  <2> SUFFICES ASSUME NEW i \in DOMAIN operations', NEW j \in DOMAIN operations',
                      i < j, conflicts(operations'[i], operations'[j])
               PROVE  LET a == operations'[i].txn
                          b == operations'[j].txn
                      IN /\ Shrinking(a)
                         /\ Shrinking(b) => lockPoint[a] < lockPoint[b]
    BY <1>2 DEF LockPointOrder, Shrinking
  <2>1. i \in DOMAIN operations /\ operations'[i] = operations[i]
    BY <1>1, <1>2, <1>3
  <2>2. CASE j \in DOMAIN operations
    <3>1. operations'[j] = operations[j]
      BY <1>1, <1>3, <2>2
    <3>2. QED BY <1>1, <2>1, <2>2, <3>1 DEF LockingInv, LockPointOrder
  <2>3. CASE operations'[j] = op
    <3>1. /\ operations[i].item = x /\ operations[i].txn # t
          /\ operations[i].kind = "Write" \/ op.kind = "Write"
      BY <1>1, <2>1, <2>3 DEF conflicts, Operation
    <3>2. operations[i].kind = "Write" \/ locks[x].lock_type = "Exclusive"
      BY <1>4, <3>1
    <3>3. QED
      BY <1>1, <1>4, <2>1, <2>3, <3>1, <3>2 DEF LockingInv, HoldersAfter
  <2>4. QED BY <1>3, <2>2, <2>3
<1>9. QED
  BY <1>5, <1>6, <1>7, <1>8 DEF LockingInv

\* A release, of one item or of all: t passes its lock point if it had not.
LEMMA ReleaseStep ==
    ASSUME SchedulerInv, TableSound', NEW t \in Txn, PassLockPoint(t),
           UNCHANGED operations,
           phase' = [phase EXCEPT ![t] = "shrinking"],
           \A y \in Item, u \in Txn \ {t} : granted'[u][y] = granted[u][y],
           \A y \in Item :
             \/ locks'[y] = locks[y] /\ granted'[t][y] \in {"None", granted[t][y]}
             \/ /\ locks'[y].holders = locks[y].holders \ {t}
                /\ locks'[y].holders # {} => locks'[y].lock_type = locks[y].lock_type
                /\ granted'[t][y] = "None"
    PROVE  LockingInv'
<1>1. /\ phase \in [Txn -> {"absent", "growing", "shrinking"}]
      /\ lockPoint \in [Txn -> Nat] /\ clock \in Nat
      /\ \A y \in Item : locks[y].holders \subseteq Txn
      /\ \A i \in DOMAIN operations :
           operations[i].txn \in Txn /\ operations[i].item \in Item
  <2>1. \A i \in DOMAIN operations : operations[i] \in Operation(Txn, Item)
    BY DEF SchedulerInv, ClientTypeOK
  <2>2. QED BY <2>1 DEF SchedulerInv, ClientTypeOK, TPLTypeOK, LockState, Operation
<1>2. LockingInv
  BY DEF SchedulerInv
<1>3. /\ Shrinking(t)'
      /\ \A u \in Txn \ {t} : Shrinking(u)' <=> Shrinking(u)
      /\ \A u \in Txn \ {t} : lockPoint'[u] = lockPoint[u]
      /\ IF Shrinking(t) THEN lockPoint'[t] = lockPoint[t] /\ clock' = clock
                         ELSE lockPoint'[t] = clock /\ clock' = clock + 1
  BY <1>1 DEF Shrinking, PassLockPoint
<1>4. LockPointsPast'
  BY <1>1, <1>2, <1>3 DEF LockingInv, LockPointsPast
\* Lock points already passed keep their order and precede a new one.
<1>5. \A u, v \in Txn :
        /\ Shrinking(u)
        /\ Shrinking(v) => lockPoint[u] < lockPoint[v]
        => /\ Shrinking(u)'
           /\ Shrinking(v)' => lockPoint'[u] < lockPoint'[v]
  BY <1>1, <1>2, <1>3 DEF LockingInv, LockPointsPast
<1>6. GrantsHonoured'
  BY <1>2 DEF LockingInv, GrantsHonoured, holds_lock, TableSound, Present
<1>7. OperationsCovered'
  <2> SUFFICES ASSUME NEW i \in DOMAIN operations
               PROVE  \/ Shrinking(operations[i].txn)'
                      \/ /\ operations[i].txn \in locks'[operations[i].item].holders
                         /\ operations[i].kind = "Write" =>
                              locks'[operations[i].item].lock_type = "Exclusive"
    BY DEF OperationsCovered
  <2>1. CASE operations[i].txn = t
    BY <1>3, <2>1
  <2>2. CASE operations[i].txn # t
    BY <1>1, <1>2, <1>3, <2>2 DEF LockingInv, OperationsCovered
  <2>3. QED BY <2>1, <2>2
<1>8. HoldersAfter'
  <2> SUFFICES ASSUME NEW i \in DOMAIN operations,
                      NEW u \in locks'[operations[i].item].holders \ {operations[i].txn},
                      operations[i].kind = "Write"
                        \/ locks'[operations[i].item].lock_type = "Exclusive"
               PROVE  /\ Shrinking(operations[i].txn)'
                      /\ Shrinking(u)' =>
                           lockPoint'[operations[i].txn] < lockPoint'[u]
    BY DEF HoldersAfter
  <2>1. /\ u \in locks[operations[i].item].holders
        /\ locks'[operations[i].item].lock_type = locks[operations[i].item].lock_type
    BY <1>1
  <2>2. /\ Shrinking(operations[i].txn)
        /\ Shrinking(u) => lockPoint[operations[i].txn] < lockPoint[u]
    BY <1>2, <2>1 DEF LockingInv, HoldersAfter
  <2>3. QED BY <1>1, <1>5, <2>1, <2>2
<1>9. LockPointOrder'
  BY <1>1, <1>2, <1>5 DEF LockingInv, LockPointOrder
<1>10. QED
  BY <1>4, <1>6, <1>7, <1>8, <1>9 DEF LockingInv

LEMMA LockingInvStep ==
    ASSUME SchedulerInv, [Next]_vars
    PROVE  SchedulerInv'
<1>1. ClientTypeOK' /\ TablesInv'
  BY TypeStep, TablesStep, SchedulerCalls DEF SchedulerInv
<1>2. TPLTypeOK' /\ TableSound'
  BY <1>1 DEF TablesInv
<1>3. /\ locks \in [Item -> LockState]
      /\ granted \in [Txn -> [Item -> Mode]]
  BY DEF SchedulerInv, ClientTypeOK, TPLTypeOK
<1> SUFFICES LockingInv'
  BY <1>1 DEF SchedulerInv
<1>4. ASSUME NEW t \in Txn, NEW x \in Item, NEW m \in LockType,
             NEW r \in LockResult, Request(t, x, m, r)
      PROVE  LockingInv'
  BY <1>2, <1>4, RequestStep
<1>5. ASSUME NEW t \in Txn, NEW x \in Item, ReadItem(t, x)
      PROVE  LockingInv'
  <2> DEFINE op == ReadOp(t, x)
  <2>1. /\ op \in Operation(Txn, Item) /\ op.txn = t /\ op.item = x
        /\ op.kind = "Read"
    BY DEF ReadOp, Operation
  <2>2. granted[t][x] # "None" /\ Perform(op)
    BY <1>5 DEF ReadItem
  <2> HIDE DEF op
  <2>3. QED BY <2>1, <2>2, AccessStep
<1>6. ASSUME NEW t \in Txn, NEW x \in Item, WriteItem(t, x)
      PROVE  LockingInv'
  <2> DEFINE op == WriteOp(t, x)
  <2>1. op \in Operation(Txn, Item) /\ op.txn = t /\ op.item = x
    BY DEF WriteOp, Operation
  <2>2. granted[t][x] = "Exclusive" /\ Perform(op)
    BY <1>6 DEF WriteItem
  <2> HIDE DEF op
  <2>3. QED BY <2>1, <2>2, AccessStep
<1>7. ASSUME NEW t \in Txn, NEW x \in Item, NEW r \in LockResult,
             ReleaseItem(t, x, r)
      PROVE  LockingInv'
  <2>1. /\ PassLockPoint(t) /\ UNCHANGED operations /\ Unlock(t, x, r)
        /\ phase' = [phase EXCEPT ![t] = "shrinking"]
    BY <1>7 DEF ReleaseItem, Unlock, UnlockHeld, UnlockDenied
  <2>2. /\ \A y \in Item, u \in Txn \ {t} : granted'[u][y] = granted[u][y]
        /\ \A y \in Item : granted'[t][y] \in {"None", granted[t][y]}
        /\ granted'[t][x] = "None"
    BY <1>3, <1>7 DEF ReleaseItem
  <2>3. CASE UnlockDenied(t, x, r)
    <3>1. locks' = locks
      BY <2>3 DEF UnlockDenied
    <3>2. QED BY <1>2, <2>1, <2>2, <3>1, ReleaseStep
  <2>4. CASE UnlockHeld(t, x, r)
    <3>1. /\ \A y \in Item : y # x => locks'[y] = locks[y]
          /\ locks'[x].holders = locks[x].holders \ {t}
          /\ locks'[x].holders # {} => locks'[x].lock_type = locks[x].lock_type
      BY <1>3, <2>4, WithoutHolderSound DEF UnlockHeld
    <3>2. \A y \in Item :
            \/ locks'[y] = locks[y] /\ granted'[t][y] \in {"None", granted[t][y]}
            \/ /\ locks'[y].holders = locks[y].holders \ {t}
               /\ locks'[y].holders # {} => locks'[y].lock_type = locks[y].lock_type
               /\ granted'[t][y] = "None"
      BY <2>2, <3>1
    <3>3. QED BY <1>2, <2>1, <2>2, <3>2, ReleaseStep
  <2>5. QED BY <2>1, <2>3, <2>4 DEF Unlock
<1>8. ASSUME NEW t \in Txn, Finish(t)
      PROVE  LockingInv'
  <2>1. /\ PassLockPoint(t) /\ UNCHANGED operations /\ UnlockAll(t)
        /\ phase' = [phase EXCEPT ![t] = "shrinking"]
    BY <1>8 DEF Finish, UnlockAll
  <2>2. /\ \A y \in Item, u \in Txn \ {t} : granted'[u][y] = granted[u][y]
        /\ \A y \in Item : granted'[t][y] = "None"
    BY <1>3, <1>8 DEF Finish, NoGrants
  <2>3. \A y \in Item :
          \/ locks'[y] = locks[y]
          \/ /\ locks'[y].holders = locks[y].holders \ {t}
             /\ locks'[y].holders # {} => locks'[y].lock_type = locks[y].lock_type
    BY <1>3, <2>1, WithoutHolderSound DEF UnlockAll
  <2>4. QED BY <1>2, <2>1, <2>2, <2>3, ReleaseStep
<1>9. CASE UNCHANGED vars
  BY <1>9 DEF SchedulerInv, vars, clientVars, tplVars, LockingInv, TableSound,
     Present, GrantsHonoured, holds_lock, LockPointsPast, OperationsCovered,
     HoldersAfter, LockPointOrder, Shrinking
<1>10. QED
  BY <1>4, <1>5, <1>6, <1>7, <1>8, <1>9 DEF Next

\* The inductive invariant holds in every reachable state.
LEMMA SchedulerInvariant == Spec => []SchedulerInv
<1>1. Init => SchedulerInv
  <2>1. Init => ClientTypeOK
    BY DEF Init, ClientTypeOK, TPLInit, TPLTypeOK, LockState, NoLock, NoGrants, Mode
  <2>2. QED
    BY <2>1, TablesInit, LockingInvInit DEF SchedulerInv, Init
<1>2. QED
  BY <1>1, LockingInvStep, PTL DEF Spec

\* Type correctness of the lock manager and its clients, for any sequence of
\* calls: every table entry has a holder, and an exclusive one a single one.
THEOREM SchedulerTypes == Spec => []TypeOK
<1>1. SchedulerInv => TypeOK
  BY DEF SchedulerInv, TablesInv, TypeOK
<1>2. QED BY <1>1, SchedulerInvariant, PTL

\* A granted lock covers its transaction until that transaction releases it.
THEOREM GrantsAlwaysHonoured == Spec => []GrantsHonoured
<1>1. SchedulerInv => GrantsHonoured
  BY DEF SchedulerInv, LockingInv
<1>2. QED BY <1>1, SchedulerInvariant, PTL

\* Conflicting operations follow the order of the lock points.
THEOREM LockPointsOrderConflicts == Spec => []LockPointOrder
<1>1. SchedulerInv => LockPointOrder
  BY DEF SchedulerInv, LockingInv
<1>2. QED BY <1>1, SchedulerInvariant, PTL

\* Two-phase locking guarantees conflict serializability.
THEOREM TwoPhaseLockingSerializes == Spec => []Serializable
  BY InvSerializable, SchedulerInvariant, PTL
=============================================================================
