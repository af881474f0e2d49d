----------------------------- MODULE AtomicStore -----------------------------
(***************************************************************************)
(* What recovery promises: a store whose transactions are atomic and       *)
(* durable.  A transaction's writes are seen in place while it is live,    *)
(* become durable together when it commits, and disappear together when it *)
(* aborts or when a crash interrupts it.  No log, no pages, no buffer.     *)
(***************************************************************************)
CONSTANTS Txn, Cell, Byte

VARIABLES durable,  \* durable[c]: the last committed value
          pending,  \* pending[t]: the cells and values t has written
          ended,    \* the transactions that committed or aborted
          view      \* what readers see, or Down

storeVars == <<durable, pending, ended, view>>

NoWrites == [c \in {} |-> 0]

\* While the system is down, there is nothing to see.
Down == [c \in {} |-> 0]

SInit ==
    /\ durable = [c \in Cell |-> 0]
    /\ pending = [t \in Txn |-> NoWrites]
    /\ ended = {}
    /\ view = durable

Up == view # Down

\* A cell that a live transaction has written is its own until it ends.
Free(t, c) == \A u \in Txn \ {t} : c \notin DOMAIN pending[u]

Written(t, c, v) ==
    [d \in DOMAIN pending[t] \union {c} |-> IF d = c THEN v ELSE pending[t][d]]

Write(t, c, v) ==
    /\ Up /\ t \notin ended /\ Free(t, c)
    /\ pending' = [pending EXCEPT ![t] = Written(t, c, v)]
    /\ view' = [view EXCEPT ![c] = v]
    /\ UNCHANGED <<durable, ended>>

Commit(t) ==
    /\ Up /\ t \notin ended
    /\ ended' = ended \union {t}
    /\ durable' = [c \in Cell |-> IF c \in DOMAIN pending[t]
                                  THEN pending[t][c] ELSE durable[c]]
    /\ pending' = [pending EXCEPT ![t] = NoWrites]
    /\ UNCHANGED view

Abort(t) ==
    /\ Up /\ t \notin ended
    /\ ended' = ended \union {t}
    /\ view' = [c \in Cell |-> IF c \in DOMAIN pending[t]
                               THEN durable[c] ELSE view[c]]
    /\ pending' = [pending EXCEPT ![t] = NoWrites]
    /\ UNCHANGED durable

\* A crash ends any set of transactions, all that had written included.
Crash(interrupted) ==
    /\ {t \in Txn : pending[t] # NoWrites} \subseteq interrupted
    /\ ended' = ended \union interrupted
    /\ pending' = [t \in Txn |-> NoWrites]
    /\ view' = Down
    /\ UNCHANGED durable

Restart ==
    /\ ~ Up
    /\ view' = durable
    /\ UNCHANGED <<durable, pending, ended>>

SNext ==
    \/ \E t \in Txn, c \in Cell, v \in Byte : Write(t, c, v)
    \/ \E t \in Txn : Commit(t) \/ Abort(t)
    \/ \E interrupted \in SUBSET Txn : Crash(interrupted)
    \/ Restart

StoreSpec == SInit /\ [][SNext]_storeVars
=============================================================================
