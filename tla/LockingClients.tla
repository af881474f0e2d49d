--------------------------- MODULE LockingClients ---------------------------
(***************************************************************************)
(* Transactions that run a fixed list of lock requests against             *)
(* TwoPhaseLocking, ask again while they are denied, and release           *)
(* everything at the end, all at once or item by item.                     *)
(*                                                                         *)
(* The lock manager keeps no wait queue: a denied caller has to call       *)
(* again.  The module asks when that makes progress, and on whom a denied  *)
(* caller waits.  The clients are not in src/.                             *)
(***************************************************************************)
EXTENDS TwoPhaseLocking, Sequences

CONSTANT Programs   \* the request lists that transactions may run

\* Items are numbers so that programs can request them in order.
ASSUME ItemAssumption == Item \subseteq Nat

ASSUME ProgramsAssumption ==
    \A p \in Programs :
        p \in Seq([item : Item, lock_type : LockType])

VARIABLES program,  \* program[t]: the requests of t
          pc        \* pc[t]: the next one; past the end, t releases

vars == <<tplVars, program, pc>>

Init ==
    /\ TPLInit
    /\ program \in [Txn -> Programs]
    /\ pc = [t \in Txn |-> 1]

Requesting(t) == pc[t] <= Len(program[t])

\* All locks acquired; t releases until it holds nothing.
Releasing(t) == pc[t] = Len(program[t]) + 1

Done(t) == pc[t] = Len(program[t]) + 2

Pending(t) == program[t][pc[t]]

\* t calls lock; a denied request is repeated later.
Ask(t, r) ==
    /\ Requesting(t)
    /\ Lock(t, Pending(t).item, Pending(t).lock_type, r)
    /\ pc' = IF r = "Granted" THEN [pc EXCEPT ![t] = @ + 1] ELSE pc
    /\ UNCHANGED program

ReleaseOne(t, x) ==
    /\ Releasing(t)
    /\ holds_lock(t, x)
    /\ \E r \in LockResult : Unlock(t, x, r)
    /\ pc' = IF \E y \in Item \ {x} : holds_lock(t, y)
             THEN pc ELSE [pc EXCEPT ![t] = @ + 1]
    /\ UNCHANGED program

ReleaseAll(t) ==
    /\ Releasing(t)
    /\ UnlockAll(t)
    /\ pc' = [pc EXCEPT ![t] = @ + 1]
    /\ UNCHANGED program

Step(t) ==
    \/ \E r \in LockResult : Ask(t, r)
    \/ \E x \in Item : ReleaseOne(t, x)
    \/ ReleaseAll(t)

Terminated == (\A t \in Txn : Done(t)) /\ UNCHANGED vars

Next == (\E t \in Txn : Step(t)) \/ Terminated

Spec == Init /\ [][Next]_vars

\* Every transaction keeps calling until it is done.
FairSpec == Spec /\ \A t \in Txn : WF_vars(Step(t))

-----------------------------------------------------------------------------
\* t's next call, whenever it comes before others move, will be denied.
Blocked(t) == Requesting(t) /\ ~ ENABLED Ask(t, "Granted")

WaitsFor(t, u) ==
    /\ Blocked(t)
    /\ u # t
    /\ holds_lock(u, Pending(t).item)

\* Nobody is denied because of a transaction that is done, or of a lock
\* table entry without an owner: a blocked transaction waits for one that
\* still has calls to make, so that it is worth its while to ask again.  Nor
\* do readers block readers, or anybody a sole reader's upgrade.
BlockedByTheLiving ==
    \A t \in Txn : Blocked(t) =>
        \E u \in Txn :
            /\ WaitsFor(t, u) /\ ~ Done(u)
            /\ "Exclusive" \in {Pending(t).lock_type, locks[Pending(t).item].lock_type}

\* t requests every item once, in the order of the items.
Ordered(t) ==
    \A i, j \in DOMAIN program[t] :
        i < j => program[t][i].item < program[t][j].item

\* When all transactions request items in one common order and none upgrades,
\* asking again is enough: all of them finish, although the lock manager
\* neither queues nor detects anything.
AllFinish == (\A t \in Txn : Ordered(t)) => <>(\A t \in Txn : Done(t))

\* README.md lists deadlock detection and a LockResult::Deadlock: it should
\* not happen that all unfinished transactions can only be told Denied.
NoSilentDeadlock ==
    (\E t \in Txn : ~ Done(t)) => \E t \in Txn : ~ Done(t) /\ ~ Blocked(t)
=============================================================================
