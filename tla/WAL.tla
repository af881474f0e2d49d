--------------------------------- MODULE WAL ---------------------------------
(***************************************************************************)
(* struct WAL of recovery.rs: the log, its four fields, the methods that   *)
(* append to it, and the three passes of recovery as functions of the log. *)
(*                                                                         *)
(* A cell is one <<page, offset>>, offsets counted from 1; an update       *)
(* carries the images of one cell, one byte each.  Absence in the maps     *)
(* last_lsn and page_lsn is 0.                                             *)
(***************************************************************************)
EXTENDS Naturals, FiniteSets, SequencesExt

CONSTANTS Txn,      \* transaction ids
          Page,     \* page ids
          Cell,     \* the cells in use
          Byte      \* contents of a cell; 0 fills a page that grows

ASSUME WALAssumption ==
    /\ Cell \subseteq Page \X (Nat \ {0}) /\ Cell # {}
    /\ 0 \in Byte

VARIABLES records, next_lsn, last_lsn, page_lsn

walVars == <<records, next_lsn, last_lsn, page_lsn>>

LogRecord ==
    [kind : {"Begin", "Commit", "Abort"}, lsn : Nat, txn : Txn]
      \union [kind : {"Checkpoint"}, lsn : Nat, active_txns : SUBSET Txn]
      \union [kind : {"Update"}, lsn : Nat, txn : Txn, cell : Cell,
              before : Byte, after : Byte]
      \union [kind : {"CLR"}, lsn : Nat, txn : Txn, cell : Cell, after : Byte]

WALInit ==
    /\ records = <<>>
    /\ next_lsn = 1
    /\ last_lsn = [t \in Txn |-> 0]
    /\ page_lsn = [p \in Page |-> 0]

-----------------------------------------------------------------------------
(* The methods that append.                                                *)

\* alloc_lsn and the push of every method.
Push(record) ==
    /\ records' = Append(records, record)
    /\ next_lsn' = next_lsn + 1

Mark(kind, t) ==
    /\ Push([kind |-> kind, lsn |-> next_lsn, txn |-> t])
    /\ last_lsn' = [last_lsn EXCEPT ![t] = next_lsn]
    /\ UNCHANGED page_lsn

begin(t)  == Mark("Begin", t)
commit(t) == Mark("Commit", t)
abort(t)  == Mark("Abort", t)

update(t, c, before, after) ==
    /\ Push([kind |-> "Update", lsn |-> next_lsn, txn |-> t, cell |-> c,
             before |-> before, after |-> after])
    /\ last_lsn' = [last_lsn EXCEPT ![t] = next_lsn]
    /\ page_lsn' = [page_lsn EXCEPT ![c[1]] = next_lsn]

\* A checkpoint belongs to no transaction and to no page.
checkpoint(active) ==
    /\ Push([kind |-> "Checkpoint", lsn |-> next_lsn, active_txns |-> active])
    /\ UNCHANGED <<last_lsn, page_lsn>>

CLR(t, c, after) ==
    [kind |-> "CLR", lsn |-> next_lsn, txn |-> t, cell |-> c, after |-> after]

\* Mutant: the page is not told of its CLR.
clrPageLeft(t, c, after) ==
    /\ Push(CLR(t, c, after))
    /\ last_lsn' = [last_lsn EXCEPT ![t] = next_lsn]
    /\ UNCHANGED page_lsn

clr(t, c, after) ==
    /\ Push(CLR(t, c, after))
    /\ last_lsn' = [last_lsn EXCEPT ![t] = next_lsn]
    /\ page_lsn' = [page_lsn EXCEPT ![c[1]] = next_lsn]

\* Mutant: undo does not advance next_lsn.
undoPushOnly(record) ==
    /\ records' = Append(records, record)
    /\ UNCHANGED <<next_lsn, last_lsn, page_lsn>>

\* What undo appends does not go through the methods above: the two maps
\* are left behind.
undoPush(record) ==
    /\ Push(record)
    /\ UNCHANGED <<last_lsn, page_lsn>>

-----------------------------------------------------------------------------
(* Pages: byte vectors that grow with zeros.  An absent page is empty.     *)

Grown(page, n) ==
    IF Len(page) >= n THEN page
    ELSE page \o [i \in 1 .. n - Len(page) |-> 0]

\* The page with v written at offset o, as redo does it.
Put(page, o, v) == [Grown(page, o) EXCEPT ![o] = v]

\* undo restores only what is there.
PutIfThere(page, o, v) == IF Len(page) >= o THEN Put(page, o, v) ELSE page

Get(pages, c) == IF Len(pages[c[1]]) >= c[2] THEN pages[c[1]][c[2]] ELSE 0

-----------------------------------------------------------------------------
(* analyze: which transactions were active, which pages may be dirty.      *)

Checkpoints(recs) == {i \in DOMAIN recs : recs[i].kind = "Checkpoint"}

\* The scan starts at the last checkpoint, with the transactions it lists
\* active and their last LSN unknown (0).
StartIdx(recs) == IF Checkpoints(recs) = {} THEN 1 ELSE Max(Checkpoints(recs))

InitialActive(recs) ==
    IF Checkpoints(recs) = {} THEN <<>>
    ELSE [t \in recs[Max(Checkpoints(recs))].active_txns |-> 0]

Bind(f, k, v) == [x \in DOMAIN f \union {k} |-> IF x = k THEN v ELSE f[x]]

BindNew(f, k, v) == IF k \in DOMAIN f THEN f ELSE Bind(f, k, v)

\* Mutant: the end of a transaction does not make it inactive.
StillActive(a, t) == a

Inactive(a, t) == [a EXCEPT !.active_txns = Restrict(@, DOMAIN @ \ {t})]

\* An update or CLR counts only while its transaction is known to be active.
AnalyzeStep(a, r) ==
    CASE r.kind = "Begin" ->
            [a EXCEPT !.active_txns = Bind(@, r.txn, r.lsn)]
      [] r.kind \in {"Update", "CLR"} ->
            IF r.txn \in DOMAIN a.active_txns
            THEN [a EXCEPT !.active_txns = Bind(@, r.txn, r.lsn),
                           !.dirty_pages = BindNew(@, r.cell[1], r.lsn)]
            ELSE a
      [] r.kind = "Commit" ->
            [Inactive(a, r.txn) EXCEPT !.committed = @ \union {r.txn}]
      [] r.kind = "Abort" ->
            [Inactive(a, r.txn) EXCEPT !.aborted = @ \union {r.txn}]
      [] r.kind = "Checkpoint" -> a

analyze(recs) ==
    LET scan[i \in 0 .. Len(recs)] ==
          IF i < StartIdx(recs)
          THEN [active_txns |-> InitialActive(recs), dirty_pages |-> <<>>,
                committed |-> {}, aborted |-> {}]
          ELSE AnalyzeStep(scan[i - 1], recs[i])
    IN scan[Len(recs)]

-----------------------------------------------------------------------------
(* redo: replay updates and CLRs of dirty pages from the least rec_lsn on. *)

MinRecLsn(dirty) == IF DOMAIN dirty = {} THEN 0 ELSE Min(Range(dirty))

\* Mutant: compensation records are not replayed.
ReplayedUpdates(analysis, r) ==
    /\ r.lsn >= MinRecLsn(analysis.dirty_pages)
    /\ r.kind = "Update"
    /\ r.cell[1] \in DOMAIN analysis.dirty_pages

\* Mutant: the first record that dirtied a page is not replayed.
ReplayedLater(analysis, r) ==
    /\ r.lsn > MinRecLsn(analysis.dirty_pages)
    /\ r.kind \in {"Update", "CLR"}
    /\ r.cell[1] \in DOMAIN analysis.dirty_pages

Replayed(analysis, r) ==
    /\ r.lsn >= MinRecLsn(analysis.dirty_pages)
    /\ r.kind \in {"Update", "CLR"}
    /\ r.cell[1] \in DOMAIN analysis.dirty_pages

Replay(pages, r) == [pages EXCEPT ![r.cell[1]] = Put(@, r.cell[2], r.after)]

redo(recs, analysis, pages) ==
    LET replay[i \in 0 .. Len(recs)] ==
          IF i = 0 THEN pages
          ELSE IF Replayed(analysis, recs[i]) THEN Replay(replay[i - 1], recs[i])
          ELSE replay[i - 1]
    IN replay[Len(recs)]

-----------------------------------------------------------------------------
(* undo: all updates of a transaction, the latest first.                   *)

\* Mutant: the earliest update first.
UndoOpsForward(recs, t) ==
    SelectSeq(recs, LAMBDA r : r.kind = "Update" /\ r.txn = t)

UndoOps(recs, t) ==
    LET back[i \in 0 .. Len(recs)] ==
          IF i = 0 THEN <<>>
          ELSE IF recs[i].kind = "Update" /\ recs[i].txn = t THEN <<recs[i]>> \o back[i - 1]
          ELSE back[i - 1]
    IN back[Len(recs)]
=============================================================================
