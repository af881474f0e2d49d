-------------------------- MODULE LockingScheduler --------------------------
(***************************************************************************)
(* Transactions that use TwoPhaseLocking the way its tests and the README  *)
(* do: they call lock before they read or write, believe the reply, and    *)
(* release one by one (unlock) or all together (unlock_all).  The module   *)
(* records the schedule of the operations and asks of it what 2PL is for:  *)
(* that it is conflict serializable, in the order of the lock points.      *)
(*                                                                         *)
(* The clients are not in src/: they are the assumption under which the    *)
(* lock manager's guarantee is stated.  They are as free as the guarantee  *)
(* permits: any transaction calls anything at any time, also after it was  *)
(* denied or has released, but it accesses data only under a grant.        *)
(***************************************************************************)
EXTENDS TwoPhaseLocking, Schedules

CONSTANT MaxOps     \* bound on the length of the recorded schedule

ASSUME MaxOpsAssumption == MaxOps \in Nat

VARIABLES granted,     \* granted[t][x]: the mode in which t may use x
          operations,  \* the schedule so far
          clock,       \* history: lock points passed so far
          lockPoint    \* history: lockPoint[t], when t began to release

Mode == LockType \union {"None"}

NoGrants == [x \in Item |-> "None"]

clientVars == <<granted, operations, clock, lockPoint>>
vars == <<tplVars, clientVars>>

Init ==
    /\ TPLInit
    /\ granted = [t \in Txn |-> NoGrants]
    /\ operations = <<>>
    /\ clock = 0
    /\ lockPoint = [t \in Txn |-> 0]

\* What a client may do once m was granted to it, on top of the mode c.
Stronger(c, m) == IF c = "Exclusive" THEN c ELSE m

\* t asks for x in mode m; if the answer r is Granted it relies on that.
Request(t, x, m, r) ==
    /\ Lock(t, x, m, r)
    /\ granted' = IF r = "Granted"
                  THEN [granted EXCEPT ![t][x] = Stronger(@, m)]
                  ELSE granted
    /\ UNCHANGED <<operations, clock, lockPoint>>

Perform(op) ==
    /\ Len(operations) < MaxOps
    /\ operations' = Append(operations, op)
    /\ UNCHANGED <<tplVars, granted, clock, lockPoint>>

ReadItem(t, x) ==
    /\ granted[t][x] # "None"
    /\ Perform(ReadOp(t, x))

WriteItem(t, x) ==
    /\ granted[t][x] = "Exclusive"
    /\ Perform(WriteOp(t, x))

\* The growing phase of t ends with its first release.
PassLockPoint(t) ==
    IF phase[t] = "shrinking"
    THEN UNCHANGED <<clock, lockPoint>>
    ELSE /\ clock' = clock + 1
         /\ lockPoint' = [lockPoint EXCEPT ![t] = clock]

ReleaseItem(t, x, r) ==
    /\ Unlock(t, x, r)
    /\ granted' = [granted EXCEPT ![t][x] = "None"]
    /\ PassLockPoint(t)
    /\ UNCHANGED operations

Finish(t) ==
    /\ UnlockAll(t)
    /\ granted' = [granted EXCEPT ![t] = NoGrants]
    /\ PassLockPoint(t)
    /\ UNCHANGED operations

Next ==
    \E t \in Txn :
        \/ \E x \in Item, m \in LockType, r \in LockResult : Request(t, x, m, r)
        \/ \E x \in Item : ReadItem(t, x)
        \/ \E x \in Item : WriteItem(t, x)
        \/ \E x \in Item, r \in LockResult : ReleaseItem(t, x, r)
        \/ Finish(t)

Spec == Init /\ [][Next]_vars

-----------------------------------------------------------------------------
ClientTypeOK ==
    /\ TPLTypeOK
    /\ granted \in [Txn -> [Item -> Mode]]
    /\ operations \in Seq(Operation(Txn, Item))
    /\ clock \in Nat
    /\ lockPoint \in [Txn -> Nat]

\* Type invariant of the lock manager and its clients.  The type of a table
\* entry includes that it is well formed: whichever of lock, unlock and
\* unlock_all touched it last, it has a holder, and only one if exclusive.
TypeOK == ClientTypeOK /\ TableSound

Shrinking(t) == phase[t] = "shrinking"

\* A grant is never taken back behind the holder's back: what lock once
\* answered Granted is covered by the table until that transaction releases
\* it itself, whatever the others lock, upgrade or release in between.
GrantsHonoured ==
    \A t \in Txn, x \in Item :
        /\ granted[t][x] # "None" => holds_lock(t, x)
        /\ granted[t][x] = "Exclusive" => locks[x].lock_type = "Exclusive"

\* The README's lock points (README.md, Two-Phase Locking): of two conflicting
\* operations, the transaction of the first has passed its lock point, and
\* passed it before the transaction of the second passed its own.
LockPointOrder ==
    \A i, j \in DOMAIN operations :
        i < j /\ conflicts(operations[i], operations[j]) =>
            LET t == operations[i].txn
                u == operations[j].txn
            IN /\ Shrinking(t)
               /\ Shrinking(u) => lockPoint[t] < lockPoint[u]

\* Every schedule of clients that access data only under grants is conflict
\* serializable, although nothing else coordinates them.
Serializable == is_conflict_serializable(operations)

-----------------------------------------------------------------------------
(* The strengthening that makes LockPointOrder inductive.                  *)

\* Lock points lie in the past.
LockPointsPast == \A t \in Txn : Shrinking(t) => lockPoint[t] < clock

\* A performed operation is still covered by a lock, or its transaction has
\* passed its lock point.
OperationsCovered ==
    \A i \in DOMAIN operations :
        LET op == operations[i]
        IN \/ Shrinking(op.txn)
           \/ /\ op.txn \in locks[op.item].holders
              /\ op.kind = "Write" => locks[op.item].lock_type = "Exclusive"

\* Whoever holds a lock that conflicts with an operation already performed
\* got it after that operation's transaction passed its lock point.
HoldersAfter ==
    \A i \in DOMAIN operations :
        LET op == operations[i]
        IN \A u \in locks[op.item].holders \ {op.txn} :
             op.kind = "Write" \/ locks[op.item].lock_type = "Exclusive" =>
                /\ Shrinking(op.txn)
                /\ Shrinking(u) => lockPoint[op.txn] < lockPoint[u]

LockingInv ==
    /\ TableSound
    /\ GrantsHonoured
    /\ LockPointsPast
    /\ OperationsCovered
    /\ HoldersAfter
    /\ LockPointOrder
=============================================================================
