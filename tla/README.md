# A verification project for lau-database-theory

TLA+ specifications of the crate's components, TLC configurations that check
them on small instances, and theorems that TLAPS proves for all instances.
Every definition that stands for code is listed with its source lines in
`PROJECT.json` under `map`.

Run a model with `tlc -config X.cfg M`, a proof module with `tlapm M.tla`.

## 1. Inventory

The crate is a library without threads, I/O or persistence of its own: every
method runs to its end on `&mut self`. What makes it hard is what its methods
are *for*: several transactions whose calls interleave, crashes between two
calls, hash containers iterated in an order nobody controls, and long sequences
of calls that restructure an index. Callers, pages and disks are outside
`src/`; the models that need them state what they assume of them.

| Component | State | Operations | Interacts with |
|---|---|---|---|
| Two-phase locking (`concurrency.rs`) | lock table per item, phase of each transaction, list of items each transaction holds | `lock`, `unlock`, `unlock_all`, `is_compliant`, `holds_lock` | transactions that access data under its grants |
| Timestamp ordering (`concurrency.rs`) | stamp per transaction, read and write stamp per item, next stamp | `begin`, `ts`, `read`, `write` | transactions that begin, are rejected and begin again |
| Schedules and graphs (`transactions.rs`) | a list of operations; sets of nodes and edges | `conflicts`, `precedence_graph`, `is_conflict_serializable`, `serial_order`, `has_cycle`, `topological_sort` | defines what the two controllers above must achieve |
| Write-ahead log and recovery (`recovery.rs`) | records, next LSN, last LSN per transaction and per page | `begin`, `update`, `commit`, `abort`, `clr`, `checkpoint`, `analyze`, `redo`, `undo` | a transaction manager and a page buffer that crash |
| B-tree (`btree.rs`) | tree of nodes, order | `insert`, `search`, `range_query`, `keys` | the agent store |
| Hash indexes (`hash_index.rs`) | bucket vector; or directory and buckets with local depths | `insert`, `get`, `remove`, split and doubling | the chained table indexes the agent store |
| Normal forms (`normal_forms.rs`) | none; local loops | closure, keys, checks of normal forms, minimal cover, two decompositions | decompositions call the closure, the keys and the cover |
| Relational algebra (`relational.rs`) | a schema and a list of tuples | select, project, natural, theta and cross joins, set operations, rename | the agent store |
| Query optimizer (`query_opt.rs`) | statistics; table of the best plan per subset | estimates, join order, rewriting, choice of a join algorithm | no other component |
| Agent store (`agent_state.rs`) | a relation, a B-tree, a chained hash table, the next id | `put`, `get`, `get_all`, `query`, `project`, `join`, `len`, hash of names, base64 | writes a relation and two indexes, reads the relation |

### What is hard, and what makes each component correct

* **Locking.** Interleaved calls of several transactions; upgrades; a denied
  call that still has an effect (`unlock` moves the phase before it looks for
  the lock); the same fact kept twice, in the lock table and in each
  transaction's list; no wait queue, so deadlock and progress are the
  callers' problem. Correct: at most one writer per item, a grant is honoured
  until its holder releases it, nothing is acquired after a release, and hence
  every schedule is serializable in the order of the lock points.
* **Timestamp ordering.** Stale stamps, transactions that never began (they all
  share stamp 0), transactions that begin twice, writes answered `Ok` and
  dropped (Thomas write rule). Correct: what takes effect is equivalent to the
  serial execution in stamp order, dropped writes included; the youngest is
  never rejected.
* **Graphs.** Three colours kept across the roots of a depth-first search in
  arbitrary order; unsigned in-degrees. Correct: verdict and order agree with
  the definition of acyclicity in every iteration order, and both loops end.
* **Recovery.** A crash at any point, including in recovery; pages written out
  at any time, with uncommitted changes; records appended by `undo` itself.
  Correct: the pages behave as an atomic, durable store.
* **B-tree.** Splits of leaves, internal nodes and the root in long sequences;
  the extremes of `i64` as sentinels. Correct: a finite map, balanced, at least
  half full, ranges exact.
* **Hash indexes.** Repeated doubling, slots of one bucket far apart, splits that
  send all entries to one side and recurse; negative keys cast to unsigned
  words; removals from a chain with a counter beside it. Correct: finite maps,
  the directory consistent with the local depths and no larger than needed, the
  counter exact.
* **Normal forms.** Order of hash containers decides what is reduced first;
  reductions of one pass are all judged by the list before the pass; the parts
  of a decomposition keep only some dependencies. Correct: keys, cover and
  checks agree with the meaning of dependencies; decompositions lose nothing.
* **Relational algebra.** Columns found by position after other operators have
  moved them; floats that are not a number. Correct: any composition of
  operators means what the set operators give.
* **Agent store.** Ties and signed casts of timestamps, hashes of names, values
  stored as text, three structures updated by one call. Correct: `get` returns
  the value with the latest timestamp put for that agent and key, lists lose
  nothing, the three structures agree.
* **Optimizer.** Masks enumerated by shifts and carries, subsets that need their
  parts planned first. Correct: every query of known relations gets a plan that
  joins each once, and none is estimated cheaper.

`PROJECT.json` lists each hazard at its line, with the properties that guard it.

## 2. The modules

```
Schedules <--- LockingScheduler <--- MCLockingScheduler
   ^  ^             |  EXTENDS
   |  |        TwoPhaseLocking --INSTANCE--> RWLocks
   |  |             ^
   |  |        LockingClients <--- MCLockingClients
   |  +------- TimestampOrdering <--- MCTimestampOrdering
   +---------- PrecedenceGraph
WAL <--- Recovery <--- MCRecovery          Recovery --INSTANCE--> AtomicStore
BTree, ExtendibleHashTable, ChainedHashTable <--- MCIndexes
   each --INSTANCE--> Dictionary
RelationalAlgebra <--- RelationSessions -+
        ^--------- AgentStateStore ------+--- MCQueries
                   QueryOptimizer -------+
                   AgentStateStore --INSTANCE--> Dictionary (twice)
NormalForms <--- Decompositions <--- MCDecompositions
SchedulesProofs <--- LockingSchedulerProofs, TimestampOrderingProofs, PrecedenceGraphProofs
RecoveryProofs, ChainedHashTableProofs, ExtendibleHashTableProofs
AgentStateStore, RelationSessions, Decompositions <--- RelationalProofs
```

A module `XProofs` extends `X` and has nothing but lemmas, theorems and the
invariants they need; `LockingSchedulerProofs` begins with those of the lock manager
alone, `TwoPhaseLocking`. `RelationalProofs` has those about the agent store, the
relational algebra and normal forms.

### Locking: `TwoPhaseLocking`, `RWLocks`, `LockingScheduler`, `LockingClients`

`TwoPhaseLocking` has the three maps of the struct as `locks`, `phase` and
`txn_locks`. `lock` is the action `Lock(t, x, m, r)`, a disjunction of its
return paths: `LockShrinking`, `LockFree`, `LockUpgrade`, `LockUpgradeDenied`,
`LockSufficient`, `LockShare`, `LockConflict`; `unlock` is `UnlockHeld` or
`UnlockDenied`, `unlock_all` is `UnlockAll`. A transaction the maps do not know
has phase `"absent"`; an item the lock table does not know has lock type
`"None"`.

`RWLocks` is the promise: every item has readers or one writer, and a
transaction that has released acquires nothing. The refinement maps the table
to a mode per transaction and item, forgetting the second bookkeeping.

`LockingScheduler` adds clients that read and write *only under a grant they
were given* and are otherwise free: they call anything in any order, also after
a denial or a release. It records the schedule, and asks for serializability in
lock-point order. `LockingClients` adds clients with a fixed program of
requests, which ask again when denied, to ask about progress.

### Timestamps: `TimestampOrdering`

`begin`, `read`, `write` and `writeIgnored` (a `write` answered `Ok` by the
Thomas rule) and `Rejected`. Callers are unrestricted, so unregistered
transactions act with stamp 0, and a transaction that begins again is a new
incarnation. The history records what took effect and which writes were
dropped. Properties compare it with the serial execution in stamp order.
Transactions that share stamp 0 have no order; the two serializability
statements range over registered incarnations.

### Graphs: `Schedules`, `PrecedenceGraph`

`Schedules` holds `conflicts`, `precedence_graph` and
`is_conflict_serializable` as operators, with acyclicity by its definition
(every non-empty set of nodes has one without a predecessor in the set).
`PrecedenceGraph` is the code that decides it: `has_cycle` and `dfs_cycle` with
an explicit stack of calls and one action per loop turn, `topological_sort`
with one action per pop and per decrement. Loops over hash sets take any
element. `topological_sort` is public, so it is also run on cyclic graphs.

### Recovery: `WAL`, `Recovery`, `AtomicStore`

`WAL` has the four fields of the struct and one operator per method; the loops
of `analyze`, `redo` and `undo` over the log are functions of the number of
records already visited. `Recovery` puts it to use: each
method of the log as a transaction manager calls it, a page buffer and a disk,
`FlushPage` at any time, `Crash` at any time, and the three passes, `undo`
record by record so that a crash can fall between two compensations.
`AtomicStore` is the promise: writes of a transaction become durable together or
disappear together.

What `Recovery` assumes of the callers, none of which `src/` enforces: a record is
on disk when the method that appends it returns; a cell written by a live
transaction is written by no other; a rollback compensates each update with
`clr` and then calls `abort`; transaction ids are used once; and a checkpoint
writes the pages to disk first (`FlushAtCheckpoint`; see the findings for what
happens otherwise).

### Indexes: `Dictionary`, `BTree`, `ExtendibleHashTable`, `ChainedHashTable`

`Dictionary` is a finite map with `Put` and `Remove`. All three indexes
implement it, mapped through their own lookup: `dict` is what `search` or `get`
finds. The refinement is stated call by call, `insert(k, v)` as `Put(k, v)` and
`remove(k)` as `Remove(k)`: an insertion that loses, hides or duplicates another
key, or that binds the wrong value, is not one. `BTree` holds the tree as nested
records, with `insert_node`, `SplitLeaf` and `SplitInternal` recursive as in the
code. `ExtendibleHashTable` holds the struct as one record, with the
multiplicative hash on `Width`-bit words and two's complement keys.
`split_and_insert`, which calls itself in the code until there is room, is a function of
the number of splits.
`ChainedHashTable` has the array of buckets and the counter, `insert` as `Update`
or `Push`, `remove` and `removeMissing`.

`MCIndexes` puts the three beside each other. A session uses one of them only, so
that the states of the three add up and do not multiply. (The chained table may
be emptied and another index used after it: nothing is shared between them.)

### Relations: `RelationalAlgebra`, `RelationSessions`

`RelationalAlgebra` has the operators of `Relation` on lists of tuples, in the
order the code builds them. `Filter` is the loop of `select`, `Glued` the double
loop of the three joins, `AddNew` the loop that appends what is not there yet.
`RelationSessions` is a caller that applies one operator after another, and beside
the result carries its *meaning*: a set of functions from column names to values,
on which every operator is its textbook definition. The caller starts from
relations whose tuples have a value for each column, as `Relation::with_tuples`
asserts, and, as the theory does, from distinct column names and no tuple twice
(`SessionAssumption`). It keeps column names distinct; the code does not check that,
and renaming or a product can break it (see the findings).

### Agent store: `AgentStateStore`

`put` writes all three structures in one action; the indexes are two instances
of `Dictionary`, which `BTree` and `ChainedHashTable` implement, the relation is
one of `RelationalAlgebra`. `get`, `get_all` and `query` are operators that read
the relation, with the order of `max_by_key` on ties. `hash_string`, the casts of
timestamps and base64 are modelled by what they do, on words of `Width` bits.
The only history is `puts`, the arguments of the calls so far.

### Optimizer: `QueryOptimizer`

`optimize_join_order` as a loop over masks: `StartQuery` enters the scans,
`StartSubset` takes a mask, `TakeSplit` and `SkipSplit` look at one way to cut it,
`EndSubset` enters the best and computes the next mask (`NextMask`) with the
code's shifts, `NextSize` starts the next `subsets_of_size`. The code builds the
list of masks of a size before it uses it; here the two loops run together,
which changes nothing because neither reads what the other writes.
Costs are integers in hundredths. The floats of the code may order two plans of
equal cost either way, so both `TakeSplit` and `SkipSplit` are possible on a tie,
except for a mere swap of both sides, which costs the same to the last bit.

`MCQueries` puts the algebra, the store and the optimizer beside each other, one per
session, as `MCIndexes` does.

### Normal forms: `NormalForms`, `Decompositions`

`NormalForms` has the pure functions (`closure`, `superkeys`, `candidate_keys`, the
checks of normal forms) and, apart from them, the reference: two tuples that
agree on exactly the attributes S satisfy a list of dependencies iff S is closed
under it, so the *closed sets* are the meaning of the list; a decomposition is
lossless iff the chase of its tableau says so. The rounds of `closure` and of the
chase are recursive functions of their number. `Decompositions` runs the loops:
`Reduce`, `EndPass`, `RemoveRedundant` (compute_minimal_cover), `Group`,
`VisitSuperkey`, `AddKey` (decompose_3nf and the key search in it), `Split`,
`Keep` (decompose_bcnf), with hash-ordered choices arbitrary. `candidate_keys`
tests subsets that do not determine the relation without effect, so
`VisitSuperkey` steps over superkeys only.

## 3. The runs

| Run | Instance | Distinct states | Shows |
|---|---|---|---|
| `locking` | 3 transactions, 2 items, schedules up to 4 operations | 290 000 | `RWLocks` is implemented; the table is well-formed; table and lists agree; grants are honoured; conflicts follow lock points; schedules are serializable |
| `locking_progress` | 3 transactions, 2 items, any 1 or 2 requests each | 780 000 | whoever is denied waits for a live transaction and for a real conflict; if all request in item order, all finish |
| `locking_deadlock` | 2 transactions, 2 items | violation | see findings |
| `timestamps` | 3 transactions, 2 items, 3 stamps, 4 operations | 930 000 | serializability in stamp order, reads and final values right under the Thomas rule, the youngest never rejected |
| `precedence_graph` | 4 transactions, up to 4 edges | 310 000 | cycle search and sort exact in every iteration order, counters exact, both end without a panic |
| `recovery` | 2 transactions, 2 pages, 1 cell on each, 6 records before recovery, 2 crashes | 2 600 000 | `AtomicStore` is implemented; redo repeats history; analysis finds exactly the live transactions; LSNs dense, the maps `last_lsn` and `page_lsn` name last records; undo meets no page it would have to skip |
| `recovery_checkpoint` | as above, 5 records, checkpoints that do not flush | violation | see findings |
| `indexes` | B-tree: keys 1..7, orders 3 and 4; extendible: 7 keys on 6-bit words, buckets of 2; chained: 6 keys, 3 buckets; 2 values | 11 500 | `Dictionary` is implemented three times; balance and occupancy, exact ranges, directory exact and minimal, counter exact |
| `normal_forms` | up to 2 dependencies on up to 4 attributes (3 for keys and covers) | 164 000 | verdicts, keys, cover and 3NF synthesis agree with the reference; BCNF splits are lossless |
| `bcnf` | up to 2 dependencies on 4 attributes | violation | see findings |
| `queries` | algebra: 4 relations, 4 operators; optimizer: 4 relations, 4 statistics, queries of up to 4; store: 3 agents, 2 keys, 4 values, 3 timestamps, 3 puts on 16-bit words | 230 000 | compositions of operators mean what they should; every query gets a sound plan; `get`, `get_all` and `query` exact; the three structures agree |
| `join_order` | as above | violation | see findings |

### Bounds, and why they are enough

* *Locking and timestamps.* A cycle of conflicts needs two transactions and two
  items or three transactions; a broken lock point needs one transaction
  between two others. Four operations are the shortest schedules that fail with
  two items; `MaxOps` bounds the recorded schedule only, locks and releases
  go on. `MaxTs` 3 lets one transaction begin again between two others. The
  theorems below remove all these bounds.
* *Graphs.* Four nodes and four edges include self-loops, two components, a cycle
  reached from outside, a diamond (cross edge to a black node), and every order
  of the roots.
* *Recovery.* Six records hold two transactions that both update and one
  that ends, a rollback in progress, or a checkpoint between; `undo` appends
  beyond the bound. Two crashes put one into recovery from the first. One
  cell is at offset 2 of an empty page, so that pages grow with a fill.
* *Indexes.* Seven keys are the fewest with which an internal node of a B-tree below
  the root splits at order 3; keys 1 and 7 stand for `i64::MIN` and `i64::MAX`,
  which `range_node` uses as bounds. For the extendible table the bucket capacity
  is scaled from 3 to 2 and the word from 64 bits to 6 (with the multiplier taken
  modulo 64). Three keys agree in their four low bits, so a single insertion
  recurses; three others fill a bucket which is left behind and split below the
  global depth. The chained table has three buckets, no divisor of the words;
  three of its six keys share the first bucket, a negative one among them.
* *Relations.* Four operators (`MaxOps`) let a projection or a renaming move columns
  before and after a join. The bases share both columns, one or none, and hold a
  float that is not a number.
* *Store.* Three puts (`MaxPuts`) are a value, one that replaces it and one that
  must not. On 16-bit words the names `az` and `bY` have one hash (as they have on
  64) and the hash of `ime` is the least word, whose absolute value is itself.
  The values have lengths 0 to 4, every length modulo 3, with bytes of every
  digit pattern at the ends; timestamps tie, differ, or have the highest bit set.
* *Optimizer.* Four relations are the fewest for which the masks of one size need
  more than one carry; one query joins a relation with itself. Words have 5 bits,
  the fewest that hold the bound 2^4: a longer query needs a wider word in the
  code too.
* *Normal forms.* Four attributes are the fewest on which a part of a
  decomposition is split again; two dependencies with several attributes on the
  right are up to six after splitting, enough for reductions and redundancies
  that depend on each other.

### Symmetry

Transactions and items are interchangeable for locking and timestamps, values
for the indexes, keys for the agent store, attributes for normal forms, transactions for recovery. It is
used only in runs without liveness properties.

### Fairness

Two liveness properties are checked. `AllFinish` assumes weak fairness of each
transaction's next call: a transaction that was denied calls again, and one that
has its locks releases them; the lock manager itself does nothing between
calls, so no fairness of it is assumed, and none is assumed of *which* of its
calls succeed. `Terminates` assumes weak fairness of the running function's next
loop turn: sequential code that was called runs on. The run `precedence_graph` checks no
deadlocks, since there is nothing left to do when the functions have returned.

## 4. Findings

1. **No deadlock detection** (`locking_deadlock`). `src/README.md:22` lists
   deadlock detection, `:295` a result `Deadlock`, `:299` a function
   `detect_deadlock`. The code answers `Denied` and records no waits. Two
   transactions with opposite requests, or two readers that both upgrade, are
   denied for ever. `BlockedByTheLiving` shows how far it goes: there always is
   a live transaction behind a denial.
2. **Checkpoints forget dirty pages** (`recovery_checkpoint`). `analyze` starts at
   the last checkpoint with an empty dirty page table, so redo skips updates
   logged before it, committed ones included (`recovery.rs:188-196`, `245-258`),
   against `src/README.md:424-425`. It is sound only if a checkpoint is
   preceded by writing all pages, which neither code nor documentation asks
   for.
3. **BCNF decomposition may return relations that are not in BCNF** (`bcnf`). The
   parts keep the listed dependencies that fit, not those that follow
   (`normal_forms.rs:219-228`), against `src/README.md:430`. Example:
   {A,B,C,D} with A → B and A → B,C gives {A,C,D}, in which A → C still holds.
4. **The join-order search skips subsets** (`join_order`, a bug). `subsets_of_size`
   shall "generate all bitmasks with exactly `k` bits set" (`query_opt.rs:317`); its
   step to the next mask has one right shift too many (`:328`), so that after 3 of
   the masks with two bits comes 4, not 5. With relations r, s, t only {r, s} gets
   a plan, the first two are always joined first, and a cheaper order is missed,
   against `query_opt.rs:247` and `src/README.md:139`. `PlansSound` shows what is left:
   there still is a plan for every query and it joins each relation once.

Met while modelling, and kept as conditions of properties or outside the models:

* `is_2nf` looks at listed dependencies only and can answer "in 2NF" wrongly
  (A → B, B → A, A,B → N with keys A,D and B,D), so `VerdictsExact` claims only that
  a "no" is right.
* `is_3nf` and `decompose_bcnf` take the whole right side of a dependency, its
  overlap with the left side included, so their statements assume disjoint sides
  (with A → A,B on {A,B,C} the parts {A,B} and {C} do not join back, although
  `src/README.md:430` calls the decomposition lossless without a condition).
* Keys, superkeys and reductions never consider the empty set, so unconditional
  dependencies are excluded where that matters.
* The agent store knows an agent by the hash of its name only (`agent_state.rs:178`):
  two names with one hash, such as `az` and `bY`, read each other's values, which
  the isolation that `test_agent_isolation` (`agent_state.rs:289`) tests for two names
  excludes. `GetExact` and `ListsExact` speak of agents that are `Alone` on their
  hash. `query` returns that hash, not the name, as `agent_id`.
* Timestamps from 2^63 on are cast to negative ones and sort before all others, so
  that `get` returns an older value, against `agent_state.rs:85` ("highest timestamp");
  `GetExact` assumes the highest bit clear. (`get_all` casts them back: `ListsExact`
  assumes nothing.)
* The store's B-tree holds for an agent the value put *last*, which need not be the
  latest by timestamp nor of the key asked for; no call reads it. `IndexesFollow`
  states what it does hold.
* `src/README.md:332-333` lists `get` and `query_by_agent`; the latter does not exist.
  `src/README.md:266` lists a `remove` of the extendible hash table, which has none.
  `src/README.md:364` and `:418` speak of left-deep trees; the search is over bushy
  ones. Its selection pushdown (`src/README.md:20`, `:364`) is a function that
  rebuilds its argument in every branch (`query_opt.rs:207`).
* `rename`, and a product of relations with a common column, can give two columns
  one name; by name only the first is then found.
* `undo` takes a transaction's updates from the start of the log: an id used again
  after a commit has the committed updates of its first use undone. `Recovery` uses
  ids once, as the tests do.

## 5. What is proved

TLAPS checks these for every value of the constants. Assumptions: the bounds are
natural numbers; `Txn` and `Item` are arbitrary sets, `Attr` an arbitrary finite one.

**Lock manager** (`LockingSchedulerProofs`): `TPLTypes`, `TablesAlwaysAgree` and
`TPLImplementsRWLocks`, for *any* sequence of calls. The invariant `TablesInv` is
types, `TableSound` (an entry exists only with holders; an exclusive one has a
single holder; the run `locking` checks it as part of `TypeOK`) and `TxnLocksAgree`
(list and table agree). `TxnLocksAgree` is
needed because `unlock_all` walks the list, not the table. Refinement is proved
action by action from the same invariant.

**Two-phase locking serializes** (`LockingSchedulerProofs`): `SchedulerTypes`,
`SchedulerTablesAgree`, `SchedulerImplementsRWLocks`, `GrantsAlwaysHonoured`,
`LockPointsOrderConflicts` and `TwoPhaseLockingSerializes`. That conflicts follow
lock points is not inductive: it says nothing about operations whose
transactions still hold their locks. `LockingInv` adds that every operation is
covered by a lock until its transaction's lock point (`OperationsCovered`), that
whoever holds a conflicting lock got it after that lock point (`HoldersAfter`),
and that lock points lie in the past. Serializability follows because lock
points rank the transactions and a relation that respects a ranking by natural
numbers is acyclic (`RankedSerializable` in `SchedulesProofs`).

**Timestamp ordering** (`TimestampOrderingProofs`): `TOTypes`,
`TimestampsSerialize`, `ReadsAlwaysFollowStamps`, `LastWriteAlwaysYoungest`,
`YoungestNeverTooLate`. The invariant `TOInv` adds to the read property that
stamps are unique to an incarnation (`StampsUnique`), that the stamps on items
bound those of accepted operations and the last write carries the item's write
stamp (`StampsBound`), and that conflicts follow stamps (`StampOrder`), which
ranks the incarnations.

**Graphs** (`PrecedenceGraphProofs`): `ColoursAlwaysMeanCalls`,
`VerdictAlwaysCorrect`, `CountersAlwaysExact`, `CountersNeverUnderflow`,
`SortAlwaysCorrect` and `SerialOrderComplete`, for any transactions and edges and any iteration order.
That gray nodes are the active calls does not explain the verdict. `SearchInv`
adds that every edge already followed from an active call leads to a black node
or to the next call (`CallsSeen`), that no edge leaves the black nodes and no
cycle is among them (`Finalised`), and that the loop over the roots leaves no
white node behind (`RootsSeen`). A gray successor then closes a cycle along the
stack; without one, all nodes end up black and hence acyclic. `SortInv` has the
counters (`DegreesExact`), each node queued or output once (`OnceEach`), exactly
at count zero (`QueuedAtZero`), and after its predecessors (`OutputInOrder`). What
is left when the queue is empty has a predecessor in what is left, so it is
`Unsortable`; what was output is not, by induction along the list. That
`serial_order` names every transaction joins both halves. The decrement of a counter
is modelled as a debug build runs it: at zero it panics, and `DropEdge` is not
possible. `CountersNeverUnderflow` shows that this never happens, and `Terminates`
would fail if a call got stuck there.

**Recovery** (`RecoveryProofs`): `LsnsAlwaysExact` and `AnalysisAlwaysExact` without
further assumptions; `RedoAlwaysRepeatsHistory`, `UndoAlwaysFindsPages`,
`CommittedAlwaysSurvives` and `RecoveryImplementsAtomicStore` under
`FlushAtCheckpoint`, without which the run `recovery_checkpoint` refutes the third. Txn, Page and Cell are arbitrary, and the
bounds on records and crashes any numbers. `WALAssumption` asks for a cell at all:
a store without cells could not tell being up from being down.

The invariant has two halves. `ControlInv` does not look at pages: the log is
numbered by position, the stages of recovery know what they should (`StageInv`),
the scan of `analyze` finds the live transactions (`AnalysisInv`), and what `last_lsn`
and `page_lsn` name is followed only by records of undo (`NamesInv`); it is the same
whatever checkpoints write. `undo` appends its records behind the back of the two
maps, so what they name need not be the last record. Records that can be by undo are
CLRs and aborts of a transaction that is `Behind`: one that aborted after a crash, or
that a recovery has yet to end. That is kept because recovery ends before anything
else begins, and undoes all live transactions.
`DataInv` relates pages and log. `BufferInv`: each cell holds what the log says
last for it. `DiskInv`: the same on disk for cells not logged since the last
checkpoint; this is what a checkpoint must establish by flushing, and what makes
it sound that redo skips pages. `CellInv`: what is not written by a live
transaction is durable, and the *first* update of a live transaction to a cell
saved the durable value. `UndoInv`: applying the updates still to be undone,
latest first, leads to the durable values (`Restores`), also when a crash has
interrupted an earlier undo and its compensations were replayed. The loops of
`analyze`, `redo` and `undo` are recursive functions on the positions of the log; what
they do when a record is appended, or all through, is proved by well-founded
induction over sets of positions (`ScanExtended`, `RedoOutcome`, `UndoOpsOutcome`). For
the refinement every step is shown to be the abstract step of the same name or a
stutter (`...Simulates`).

**Chained hash table** (`ChainedHashTableProofs`): `ChainedTypes`, `SizeAlwaysExact`,
`ChainedImplementsDictionary`, for every capacity, word width and key set within
the words. The invariant `ChainsSound` says that every entry lies in the bucket of
its key and no bucket has two entries of one key; `CountsExact` that the counter is
the number of found keys and of entries. The refinement covers `CallsRefine`: each
call is the abstract call with the same arguments.

**Extendible hash table** (`ExtendibleHashTableProofs`): `ExtendibleTypes`,
`DirectoryAlwaysExact` and `ExtendibleImplementsDictionary`, for every word width, odd
multiplier, bucket capacity and key set within the words (`HashAssumption`, which the
run `indexes` assumes of its instance too). The run checks `DirectoryExact` and
`ImplementsDictionary` of an instance of the module. The invariant, for one table:
the slots of a bucket of depth d are those that share d low bits (`Pointed`), an
entry is in the bucket its key's hash leads to (`Placed`), a bucket has no key twice
(`Distinct`) and no more entries than fit (`Roomy`), and a directory of more than one
slot had, under some slot of half of it, more keys than fit a bucket (`Crowded`). The
loop that hashes the entries again and the repeated split are recursive functions;
`SplitForSound` and `SplitAndInsertSound` follow them step by step. Splitting ends
because a full bucket that splits gets one bit deeper, and none is as deep as the
word: keys that agree in all bits are the same key, which needs the multiplier to be
odd (`OddFactor`, `LowInjective`). Doubling keeps the lookup since the low bits of the
low bits are the low bits (`LowBits`), halving since one bit more is the bit looked
at (`NextBit`). Powers of two are counted as subsets (`PowerStep`), for the prover
knows nothing of exponents.

**Agent store** (`RelationalProofs`): `IndexesAlwaysFollow`, `GetAlwaysExact` and
`ListsAlwaysExact`, for any names, keys, lists of bytes, timestamps and word width of
more than eight bits (`StoreAssumption`). `StoreInv` describes all three structures by
the list of puts: the records one for one, the hash table by ids, the B-tree by the
last put of each hash. What is selected from the records are the puts at the same
positions (`SelectedAre`), of which `max_by_key` takes the last of the greatest
(`LastGreatest`). That a value comes back as it was put is `Base64Exact`: a chunk of
one to three bytes becomes two to four digits, from which the shifts and masks of
`base64_decode` make the same bytes (`DecodedChunk`); the padding can only be at the
end of the text, so that without it the text falls into chunks of four where the value
fell into chunks of three (`FilterPrefix`, `ChunksExact`, `ChunksJoined`). The casts of
a timestamp to signed and back are division with remainder (`CastsExact`). What the
hash computes is not looked into: `Alone` names the agents that do not share theirs.

**Relational algebra** (`RelationalProofs`): `AlgebraAlwaysExact`, for any base
relations that satisfy `SessionAssumption`, any names and any number of operators.
That a list of tuples means the right set of rows is not inductive: two tuples that
are the same would still be one row, and with two columns of one name a row says less
than its tuple. `SessionInv` adds that the result is `Sound`: as many values in each
tuple as columns, the names distinct, no tuple in it twice. Then the rows are the
tuples one for one (`RowInjective`), and the code's equality of tuples is the equality
of rows that have no NaN (`ContainsExact`), whence the odd clauses of union, difference
and intersection. The loops are recursive functions (`FilterRuns`, `AddNewRuns`,
`FlattenRuns`), whose steps are followed by induction on the positions of the list. The
three joins are one lemma, `JoinedSound`: if the code's predicate holds of two tuples
iff the theory's holds of their rows (`Matching`), and the columns that are cut away
are among those kept (`Covering`), then the joined tuples lie side by side as the rows
do (`RowBeside`). That no joined tuple comes twice needs of the natural join that two
tuples which match the same one and agree in the columns kept agree in the common
ones too (`KeptApart`).

**Normal forms** (`RelationalProofs`): `VerdictsAlwaysExact`, `KeysAlwaysExact`,
`CoverAlwaysMinimal`, `SynthesisAlwaysSound` and `SplitsAlwaysLossless`: all that the
run `normal_forms` checks, for every finite set of attributes (`DecompositionAssumption`;
a `Vec` of names has no other), every list of dependencies and every order in which
hash sets are walked. The argument has three layers.

* *What the pure functions compute.* `ClosureExact`: `closure` returns the least closed
  set around its argument. Each round that changes anything puts one more right side
  into the set for good, so as many rounds as there are dependencies suffice
  (`AppliedExact`), which is why the model may bound the code's unbounded loop. From
  it, `CandidateKeysExact`, `FollowsExact` and the verdicts (`BcnfExact`, `ThirdExact`,
  `SecondSound`): a dependency follows from a list iff every closed set obeys it, so
  lists are compared by their closed sets from there on.
* *The loops.* The invariant `Inv` of `decompose_3nf`: `CoverMinimal` speaks of the
  finished cover, and `Reducing` and `Removing` say what holds in the middle of a
  pass. The reduced beginning of a list and its rest in the old form together still
  mean what was given, and if the pass has changed nothing so far, the left sides in
  its beginning have nothing to spare. (A reduction is judged by the list before the
  pass, which means the same, so two of them cannot justify each other.) `Removing`
  says of each dependency kept that it does not follow from the others kept *and
  those not yet looked at*; the latter only get fewer. `Searching`: the keys are the
  least of the superkeys seen, whatever the order. `Grouped`: the relations are the
  groups of the cover and, if none has a key, one key.
* *The decompositions.* Relations of the synthesis are in third normal form because the
  cover is minimal (`GroupsThird`, `KeyThird`), preserve the dependencies because each
  of the cover lies in one (`SchemasPreserve`), and join back because one has a key:
  `ChaseEnds` shows that the rounds the reference runs the chase for are enough for a
  tableau that obeys all dependencies, so that what every such tableau has
  (`Joins`), a whole row, the chase finds (`ChaseExact`); and every such tableau has
  one, because the row of the relation with the key is filled along the closure of
  the key (`SchemasLossless`).
  For `decompose_bcnf`, `Splitting` says that the parts done and the parts still to be
  looked at join to the whole; a split of one of them along a dependency that holds
  in it keeps that (`JoinsSplit`).

**Only model-checked.**

* Liveness and what rests on `ENABLED` (`BlockedByTheLiving`, `AllFinish`, `Terminates`):
  the prover handles neither.
* `BTree` and `QueryOptimizer`: they declare recursive operators, over nested nodes and
  plans, or use bitwise operators, which the prover does not reason about
  (`TreeBalanced`, `TreeRangeExact`, the B-tree's `Dictionary` refinement, `PlansSound`).
* `CommittedSurvives` is checked by TLC only where it fails; where it holds it is
  proved. (`ImplementsAtomicStore`, which `recovery` checks, implies it.)

## 6. What is not modelled

* `is_view_serializable` (it calls `is_conflict_serializable`) and the builder
  `Transaction`, which only appends.
* Of the optimizer: the estimates of the plan nodes that `optimize_join_order` does
  not build (selections, index scans, nested-loop and sort-merge joins);
  `choose_join_algorithm`, a comparison of three estimates with logarithms; and
  `push_selections`, whose result equals its argument.
* Of the agent store: `project` and `join`, which pass the call on to the relation,
  and the metadata of a record, which is always empty.
* `Bool` and `Null` values and text in the algebra's runs: equality and order treat
  them as it does integers. Floats are kept as the one that is not a number.
* `ChainedHashTable::new(0)`, whose first call divides by zero, and queries of as many
  relations as a word has bits, whose 2^64 subsets are out of the code's reach too.
* The crate root, serialization derives, `Display`, formatting: wording and layout.
* Payloads: a log record carries one byte of one cell; a rewrite of several
  bytes is several such cells of the same record, applied by the same loop.
* The debug build's panics on overflow, but for the counters of `topological_sort`
  (section 5): the models wrap as a release build does (`hash_string` negates the
  least word to itself).
* Edges to nodes that are not in the graph. The fields of `PrecedenceGraph` are public
  and could hold them; `precedence_graph`, `add_node` and `add_edge` never make one.
* Relations of 32 and more attributes, for which the closures' `1u32 << n` overflows
  (`normal_forms.rs:77`), and dependencies that name attributes which the
  relation does not have.
* An abort without the CLRs of its updates, as in `test_wal_abort`
  (`recovery.rs:374`): the callers of `Recovery` compensate first.

## 7. Plan

Done, in this order: locking (abstract lock manager, lock manager, clients,
proofs), timestamps with proofs, graphs, recovery with its abstract store, the
indexes against one abstract map, normal forms, relational algebra, the agent
store over two abstract maps, the join-order search.

Then proofs: graphs, the write-ahead log with recovery and its refinement, the
two hash tables, the agreement of the agent store's structures, normal forms with
both decompositions, the relational algebra, what the agent store gives back.

Worth proving next: `PlansSound` of the optimizer, with the table of plans as the
invariant's subject, once masks are sets of relations and plans are not built by
recursive operators: every entry joins exactly the relations of its mask.

Models worth adding: recovery with reuse of transaction ids and several cells per
record; agents that share a hash.
