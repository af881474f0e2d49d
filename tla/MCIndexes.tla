------------------------------ MODULE MCIndexes ------------------------------
(***************************************************************************)
(* The three indexes side by side.  A session uses one of them, so that    *)
(* the states of the three add up.                                         *)
(*                                                                         *)
(* B-tree: seven keys, the least enough for an internal node below the     *)
(* root to split.  Extendible table: words of six bits, buckets of two     *)
(* entries; three of the keys agree in their four low bits, so that a      *)
(* split recurses four levels down, and three others fill a bucket that    *)
(* stays behind and is split later, below the global depth.  Chained       *)
(* table: three buckets, not a divisor of the words; three of the keys     *)
(* share the first bucket, one of them negative.                           *)
(***************************************************************************)
EXTENDS ChainedHashTable

CONSTANTS MinKey, MaxKey, Orders, BUCKET_CAPACITY, Multiplier

VARIABLES root, order, table

ChainedKeys == {-1, 0, 3, -8, 5, 1}

CollidingKeys == {-32, 0, 16, 1, 2, 3, 5}

Tree == INSTANCE BTree

Extendible == INSTANCE ExtendibleHashTable WITH Key <- CollidingKeys

ASSUME IndexAssumption == Tree!BTreeAssumption /\ Extendible!HashAssumption

all == <<vars, Tree!vars, table>>

MCInit == Init /\ Tree!Init /\ Extendible!Init

\* The tree is not in use; its order is then fixed, for it says nothing.
TreeFresh == root = {} /\ \A o \in Orders : order <= o

ExtendibleFresh == Extendible!Contents = <<>>

\* The chained table may become empty again before another is used.
ChainedStep == TreeFresh /\ ExtendibleFresh /\ Next /\ UNCHANGED <<root, order, table>>

TreeStep == size = 0 /\ ExtendibleFresh /\ Tree!Next /\ UNCHANGED <<buckets, size, table>>

ExtendibleStep == size = 0 /\ TreeFresh /\ Extendible!Next /\ UNCHANGED <<buckets, size, root, order>>

MCNext == ChainedStep \/ TreeStep \/ ExtendibleStep

MCSpec == MCInit /\ [][MCNext]_all

Symmetry == Permutations(Value)

-----------------------------------------------------------------------------
\* Every node of a B-tree is well-formed (as many values as keys, one child
\* more) and between half full and full, and every path to a leaf is as long,
\* after any splits.
TreeBalanced == Tree!TypeOK /\ Tree!Balanced

\* The B-tree's keys and range queries agree with its search, for all
\* bounds, the least and the greatest i64 included.
TreeRangeExact == Tree!RangeExact

\* An insertion into the B-tree is seen by search at its key only.
TreeImplements == Tree!ImplementsDictionary

\* The extendible table's directory is exact after splits and doublings, and
\* no longer than its entries need.
DirectoryExact == Extendible!DirectoryExact

\* An insertion into the extendible table is seen by get at its key only.
ExtendibleImplements == Extendible!ImplementsDictionary
=============================================================================
