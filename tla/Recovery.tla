------------------------------ MODULE Recovery ------------------------------
(***************************************************************************)
(* The write-ahead log in use.  A transaction manager and a page buffer    *)
(* (not in src/; what recovery.rs needs from its callers) log every change *)
(* before they make it, may write any page to disk at any time, and crash  *)
(* at any time, during recovery too; then analyze, redo and undo run.      *)
(*                                                                         *)
(* Assumed of the callers: an appended record is on disk before anything   *)
(* that follows it happens; a cell written by a live transaction is        *)
(* written by no other (strict locking); transaction ids are not reused;   *)
(* and, unless the constant says otherwise, a checkpoint first writes all  *)
(* pages to disk.                                                          *)
(***************************************************************************)
EXTENDS WAL

CONSTANTS FlushAtCheckpoint,  \* does a checkpoint write the pages to disk?
          MaxRecords,         \* bound on the log, outside recovery
          MaxCrashes          \* bound on the crashes

ASSUME RecoveryAssumption ==
    /\ FlushAtCheckpoint \in BOOLEAN
    /\ MaxRecords \in Nat /\ MaxCrashes \in Nat

VARIABLES
    status,    \* of each transaction: idle, live, rolling, committed, aborted
    toUndo,    \* toUndo[t]: what a rollback of t has yet to compensate
    buffer,    \* the pages in memory
    disk,      \* the pages on disk
    stage,     \* running, crashed, analyzed, redone or undoing
    analysis,  \* what analyze returned
    losers,    \* undo: the transactions not yet undone
    undoing,   \* undo: the current one and its remaining updates
    crashes,   \* crashes so far
    durable,   \* history: the committed contents of each cell
    pending,   \* history: the uncommitted writes of each transaction
    crashed    \* history: the contents of the cells when the crash came

managerVars == <<status, toUndo>>
recoveryVars == <<analysis, losers, undoing>>
storeVars == <<durable, pending>>
vars == <<walVars, managerVars, buffer, disk, stage, recoveryVars, crashes,
          storeVars, crashed>>

NoAnalysis == [active_txns |-> <<>>, dirty_pages |-> <<>>,
               committed |-> {}, aborted |-> {}]
NoWrites == [c \in {} |-> 0]
Nobody == [txn |-> {}, ops |-> <<>>]
Blank == [p \in Page |-> <<>>]
Contents(pages) == [c \in Cell |-> Get(pages, c)]

Init ==
    /\ WALInit
    /\ status = [t \in Txn |-> "idle"]
    /\ toUndo = [t \in Txn |-> <<>>]
    /\ buffer = Blank /\ disk = Blank
    /\ stage = "running"
    /\ analysis = NoAnalysis /\ losers = {} /\ undoing = Nobody
    /\ crashes = 0
    /\ durable = [c \in Cell |-> 0]
    /\ pending = [t \in Txn |-> NoWrites]
    /\ crashed = [c \in Cell |-> 0]

Live == {t \in Txn : status[t] \in {"live", "rolling"}}

Running == stage = "running" /\ Len(records) < MaxRecords

-----------------------------------------------------------------------------
(* The callers.                                                            *)

Begin(t) ==
    /\ Running /\ status[t] = "idle"
    /\ begin(t)
    /\ status' = [status EXCEPT ![t] = "live"]
    /\ UNCHANGED <<toUndo, buffer, disk, stage, recoveryVars, crashes, storeVars, crashed>>

\* Log the update, then make it.
Update(t, c, v) ==
    /\ Running /\ status[t] = "live"
    /\ \A u \in Txn \ {t} : c \notin DOMAIN pending[u]
    /\ v # Get(buffer, c)
    /\ update(t, c, Get(buffer, c), v)
    /\ buffer' = [buffer EXCEPT ![c[1]] = Put(@, c[2], v)]
    /\ pending' = [pending EXCEPT ![t] = Bind(@, c, v)]
    /\ UNCHANGED <<managerVars, disk, stage, recoveryVars, crashes, durable, crashed>>

Commit(t) ==
    /\ Running /\ status[t] = "live"
    /\ commit(t)
    /\ status' = [status EXCEPT ![t] = "committed"]
    /\ durable' = [c \in Cell |-> IF c \in DOMAIN pending[t]
                                  THEN pending[t][c] ELSE durable[c]]
    /\ pending' = [pending EXCEPT ![t] = NoWrites]
    /\ UNCHANGED <<toUndo, buffer, disk, stage, recoveryVars, crashes, crashed>>

\* A rollback compensates the updates of t one by one, the latest first,
\* each with a CLR, and then logs the abort.
StartRollback(t) ==
    /\ Running /\ status[t] = "live"
    /\ status' = [status EXCEPT ![t] = "rolling"]
    /\ toUndo' = [toUndo EXCEPT ![t] = UndoOps(records, t)]
    /\ UNCHANGED <<walVars, buffer, disk, stage, recoveryVars, crashes, storeVars, crashed>>

RollbackOne(t) ==
    /\ Running /\ status[t] = "rolling" /\ toUndo[t] # <<>>
    /\ LET op == Head(toUndo[t])
       IN /\ clr(t, op.cell, op.before)
          /\ buffer' = [buffer EXCEPT ![op.cell[1]] = Put(@, op.cell[2], op.before)]
    /\ toUndo' = [toUndo EXCEPT ![t] = Tail(@)]
    /\ UNCHANGED <<status, disk, stage, recoveryVars, crashes, storeVars, crashed>>

EndRollback(t) ==
    /\ Running /\ status[t] = "rolling" /\ toUndo[t] = <<>>
    /\ abort(t)
    /\ status' = [status EXCEPT ![t] = "aborted"]
    /\ pending' = [pending EXCEPT ![t] = NoWrites]
    /\ UNCHANGED <<toUndo, buffer, disk, stage, recoveryVars, crashes, durable, crashed>>

Checkpoint ==
    /\ Running
    /\ checkpoint(Live)
    /\ disk' = IF FlushAtCheckpoint THEN buffer ELSE disk
    /\ UNCHANGED <<managerVars, buffer, stage, recoveryVars, crashes, storeVars, crashed>>

\* The buffer may write a page out at any time, uncommitted changes included.
FlushPage(p) ==
    /\ stage \in {"running", "redone", "undoing"}
    /\ disk' = [disk EXCEPT ![p] = buffer[p]]
    /\ UNCHANGED <<walVars, managerVars, buffer, stage, recoveryVars, crashes, storeVars, crashed>>

-----------------------------------------------------------------------------
(* Crash and recovery.                                                     *)

\* Memory is lost.  What was in it is remembered for RedoRepeatsHistory.
Crash ==
    /\ crashes < MaxCrashes
    /\ crashes' = crashes + 1
    /\ stage' = "crashed"
    /\ crashed' = IF stage \in {"crashed", "analyzed"} THEN crashed
                  ELSE Contents(buffer)
    /\ buffer' = Blank
    /\ analysis' = NoAnalysis /\ losers' = {} /\ undoing' = Nobody
    /\ toUndo' = [t \in Txn |-> <<>>]
    /\ pending' = [t \in Txn |-> NoWrites]
    /\ UNCHANGED <<walVars, status, disk, durable>>

Analyze ==
    /\ stage = "crashed"
    /\ stage' = "analyzed"
    /\ analysis' = analyze(records)
    /\ UNCHANGED <<walVars, managerVars, buffer, disk, losers, undoing, crashes, storeVars, crashed>>

Redo ==
    /\ stage = "analyzed"
    /\ stage' = "redone"
    /\ buffer' = redo(records, analysis, disk)
    /\ UNCHANGED <<walVars, managerVars, disk, recoveryVars, crashes, storeVars, crashed>>

StartUndo ==
    /\ stage = "redone"
    /\ stage' = "undoing"
    /\ losers' = DOMAIN analysis.active_txns
    /\ UNCHANGED <<walVars, managerVars, buffer, disk, analysis, undoing, crashes, storeVars, crashed>>

\* The losers come in the order of a hash map.
UndoNext(t) ==
    /\ stage = "undoing" /\ undoing = Nobody
    /\ t \in losers
    /\ losers' = losers \ {t}
    /\ undoing' = [txn |-> {t}, ops |-> UndoOps(records, t)]
    /\ UNCHANGED <<walVars, managerVars, buffer, disk, stage, analysis, crashes, storeVars, crashed>>

UndoOne(t) ==
    /\ stage = "undoing" /\ undoing.txn = {t} /\ undoing.ops # <<>>
    /\ LET op == Head(undoing.ops)
       IN /\ buffer' = [buffer EXCEPT ![op.cell[1]] =
                          PutIfThere(@, op.cell[2], op.before)]
          /\ undoPush(CLR(t, op.cell, op.before))
    /\ undoing' = [undoing EXCEPT !.ops = Tail(@)]
    /\ UNCHANGED <<managerVars, disk, stage, analysis, losers, crashes, storeVars, crashed>>

UndoEnd(t) ==
    /\ stage = "undoing" /\ undoing.txn = {t} /\ undoing.ops = <<>>
    /\ undoPush([kind |-> "Abort", lsn |-> next_lsn, txn |-> t])
    /\ undoing' = Nobody
    /\ status' = [status EXCEPT ![t] = "aborted"]
    /\ UNCHANGED <<toUndo, buffer, disk, stage, analysis, losers, crashes, storeVars, crashed>>

\* Recovery is over and the callers take over again.
Restart ==
    /\ stage = "undoing" /\ undoing = Nobody /\ losers = {}
    /\ stage' = "running"
    /\ analysis' = NoAnalysis
    /\ UNCHANGED <<walVars, managerVars, buffer, disk, losers, undoing, crashes, storeVars, crashed>>

Caller(t) ==
    \/ Begin(t)
    \/ \E c \in Cell, v \in Byte : Update(t, c, v)
    \/ Commit(t)
    \/ StartRollback(t)
    \/ RollbackOne(t)
    \/ EndRollback(t)

Recover ==
    \/ Analyze
    \/ Redo
    \/ StartUndo
    \/ \E t \in Txn : UndoNext(t) \/ UndoOne(t) \/ UndoEnd(t)
    \/ Restart

Next ==
    \/ \E t \in Txn : Caller(t)
    \/ Checkpoint
    \/ \E p \in Page : FlushPage(p)
    \/ Crash
    \/ Recover

Spec == Init /\ [][Next]_vars

-----------------------------------------------------------------------------
\* README.md, ARIES Correctness: redo brings the database to its crash-time
\* state, whatever was on disk, and also when the crash hit a recovery that
\* had undone some of the work.
RedoRepeatsHistory ==
    stage = "redone" => Contents(buffer) = crashed

\* The log alone tells at any time which transactions are live, from the last
\* checkpoint on; so recovery undoes all interrupted transactions and no
\* other, and after it a second recovery finds nothing to undo.
AnalysisExact == DOMAIN analyze(records).active_txns = Live

\* The records of a transaction, and those of a page.
TxnRecords(t) ==
    {i \in DOMAIN records : records[i].kind # "Checkpoint" /\ records[i].txn = t}

PageRecords(p) ==
    {i \in DOMAIN records : /\ records[i].kind \in {"Update", "CLR"}
                            /\ records[i].cell[1] = p}

\* Record i can be one that undo appended: it compensates or ends a
\* transaction which a recovery has undone, or is still undoing.
ByUndo(i) ==
    /\ crashes > 0
    /\ records[i].kind \in {"CLR", "Abort"}
    /\ status[records[i].txn] \in
          {"aborted"} \union (IF stage = "running" THEN {} ELSE {"live", "rolling"})

\* An entry of last_lsn or page_lsn names the last of the records S that it
\* is about (0: there is none), but for those that undo appended after it.
Names(lsn, S) ==
    /\ lsn \in S \union {0}
    /\ \A i \in S : i > lsn => ByUndo(i)

\* LSNs are the positions in the log, also across recoveries; last_lsn names
\* the last record of each transaction and page_lsn that of each page, except
\* that undo leaves both behind.  So they are right for every transaction
\* that is up, and as long as nothing has been undone for all.
LsnsExact ==
    /\ next_lsn = Len(records) + 1
    /\ \A i \in DOMAIN records : records[i].lsn = i
    /\ \A t \in Txn : Names(last_lsn[t], TxnRecords(t))
    /\ \A p \in Page : Names(page_lsn[p], PageRecords(p))

\* undo writes a CLR also for an update whose page is missing or too short to
\* be restored, and a later redo would apply it.  It never meets such a page:
\* redo has brought back all that it is going to undo.
UndoFindsPages ==
    \A i \in DOMAIN undoing.ops :
        LET c == undoing.ops[i].cell
        IN Len(buffer[c[1]]) >= c[2]

\* Committed work survives: whenever the system is up, a cell that no live
\* transaction has written has its last committed value.
CommittedSurvives ==
    stage = "running" =>
        \A c \in Cell :
            (\A t \in Live : c \notin DOMAIN pending[t]) =>
                Get(buffer, c) = durable[c]

(***************************************************************************)
(* The abstract store.  A rollback in progress has logically happened.     *)
(***************************************************************************)
Rolling == {t \in Txn : status[t] = "rolling"}

StoreView ==
    IF stage # "running" THEN [c \in {} |-> 0]
    ELSE [c \in Cell |-> IF \E t \in Rolling : c \in DOMAIN pending[t]
                         THEN durable[c] ELSE Get(buffer, c)]

Store == INSTANCE AtomicStore WITH
            pending <- [t \in Txn |-> IF t \in Rolling THEN NoWrites ELSE pending[t]],
            ended <- {t \in Txn : status[t] \in {"rolling", "committed", "aborted"}
                                    \/ (status[t] = "live" /\ stage # "running")},
            view <- StoreView

\* Through crashes and recoveries the pages behave as an atomic store.
ImplementsAtomicStore == Store!StoreSpec
=============================================================================
