-------------------------------- MODULE BTree --------------------------------
(***************************************************************************)
(* struct BTree of btree.rs: values in the leaves, separators in the       *)
(* internal nodes, insertion with splits on the way back up.  There is no  *)
(* removal.  The keys are the integers MinKey .. MaxKey, whose ends play   *)
(* the part of i64::MIN and i64::MAX, which range_node treats specially.   *)
(*                                                                         *)
(* An Option is a set of at most one element.                              *)
(***************************************************************************)
EXTENDS Integers, FiniteSets, SequencesExt

CONSTANTS MinKey, MaxKey,   \* the least and greatest i64
          Value,
          Orders            \* the values given to with_order

\* What the module assumes of its constants.
BTreeAssumption ==
    /\ MinKey \in Int /\ MaxKey \in Int /\ MinKey < MaxKey
    /\ Orders \subseteq Nat \ (0 .. 2)

VARIABLES root,     \* the root node, if any
          order     \* the maximal number of children

vars == <<root, order>>

TreeKey == MinKey .. MaxKey

Leaf(ks, vs) == [leaf |-> TRUE, keys |-> ks, values |-> vs]
Internal(ks, cs) == [leaf |-> FALSE, keys |-> ks, children |-> cs]

-----------------------------------------------------------------------------
(* Queries.                                                                *)

Least(S) == CHOOSE i \in S : \A j \in S : i <= j

\* Where the first element greater than key is, or the end.
Above(ks, key) == Least({i \in DOMAIN ks : key < ks[i]} \union {Len(ks) + 1})

\* Mutant: a key equal to a separator is looked for on the left.
ChildIdxLeft(node, key) ==
    Least({i \in DOMAIN node.keys : key <= node.keys[i]} \union {Len(node.keys) + 1})

\* The child that covers key, numbered from 1.
ChildIdx(node, key) == Above(node.keys, key)

RECURSIVE search_node(_, _)
search_node(node, key) ==
    IF node.leaf
    THEN {node.values[i] : i \in {j \in DOMAIN node.keys : node.keys[j] = key}}
    ELSE search_node(node.children[ChildIdx(node, key)], key)

search(key) == UNION {search_node(node, key) : node \in root}

Pairs(node) == [i \in DOMAIN node.keys |-> <<node.keys[i], node.values[i]>>]

\* Mutant: the last child is not exempt from the upper bound.
OverlapsStrictly(node, i, start, end) ==
    LET lower == IF i = 1 THEN MinKey ELSE node.keys[i - 1]
        upper == IF i > Len(node.keys) THEN MaxKey ELSE node.keys[i]
    IN lower <= end /\ upper > start

\* Does range_node descend into child i of the node?
Overlaps(node, i, start, end) ==
    LET lower == IF i = 1 THEN MinKey ELSE node.keys[i - 1]
        upper == IF i > Len(node.keys) THEN MaxKey ELSE node.keys[i]
    IN lower <= end /\ (upper = MaxKey \/ upper > start)

RECURSIVE range_node(_, _, _)
range_node(node, start, end) ==
    IF node.leaf
    THEN SelectSeq(Pairs(node), LAMBDA p : p[1] >= start /\ p[1] <= end)
    ELSE FlattenSeq([i \in DOMAIN node.children |->
            IF Overlaps(node, i, start, end)
            THEN range_node(node.children[i], start, end)
            ELSE <<>>])

range_query(start, end) ==
    IF root = {} THEN <<>>
    ELSE range_node(CHOOSE node \in root : TRUE, start, end)

RECURSIVE collect_keys(_)
collect_keys(node) ==
    IF node.leaf THEN node.keys
    ELSE FlattenSeq([i \in DOMAIN node.children |-> collect_keys(node.children[i])])

keys == IF root = {} THEN <<>> ELSE collect_keys(CHOOSE node \in root : TRUE)

-----------------------------------------------------------------------------
(* Insertion.                                                              *)

\* InsertResult: one node, or two with the key that separates them.
Done(node) == [split |-> FALSE, node |-> node]
Split(left, mid, right) ==
    [split |-> TRUE, left |-> left, mid |-> mid, right |-> right]

Prefix(s, n) == SubSeq(s, 1, n)
Suffix(s, n) == SubSeq(s, n + 1, Len(s))

\* Mutant: keys and values are cut at different places.
SplitLeafApart(ks, vs) ==
    LET mid == Len(ks) \div 2
    IN Split(Leaf(Prefix(ks, mid), Prefix(vs, mid + 1)),
             ks[mid + 1],
             Leaf(Suffix(ks, mid), Suffix(vs, mid + 1)))

\* Mutant: the left half gets one key.
SplitLeafAtOne(ks, vs) ==
    Split(Leaf(Prefix(ks, 1), Prefix(vs, 1)), ks[2], Leaf(Suffix(ks, 1), Suffix(vs, 1)))

SplitLeaf(ks, vs) ==
    LET mid == Len(ks) \div 2
    IN Split(Leaf(Prefix(ks, mid), Prefix(vs, mid)),
             ks[mid + 1],
             Leaf(Suffix(ks, mid), Suffix(vs, mid)))

\* The middle key moves up: it stays in neither half.
SplitInternal(ks, cs) ==
    LET mid == Len(ks) \div 2
    IN Split(Internal(Prefix(ks, mid), Prefix(cs, mid + 1)),
             ks[mid + 1],
             Internal(Suffix(ks, mid + 1), Suffix(cs, mid + 1)))

InsertLeaf(node, key, value, max_keys) ==
    IF \E i \in DOMAIN node.keys : node.keys[i] = key
    THEN Done(Leaf(node.keys, [i \in DOMAIN node.keys |->
                     IF node.keys[i] = key THEN value ELSE node.values[i]]))
    ELSE LET at == Above(node.keys, key)
             ks == InsertAt(node.keys, at, key)
             vs == InsertAt(node.values, at, value)
         IN IF Len(ks) > max_keys THEN SplitLeaf(ks, vs) ELSE Done(Leaf(ks, vs))

\* The two halves of child at take its place.
InsertSplit(node, at, result, max_keys) ==
    LET ks == InsertAt(node.keys, at, result.mid)
        cs == InsertAt([node.children EXCEPT ![at] = result.left],
                       at + 1, result.right)
    IN IF Len(ks) > max_keys THEN SplitInternal(ks, cs) ELSE Done(Internal(ks, cs))

RECURSIVE insert_node(_, _, _, _)
insert_node(node, key, value, max_keys) ==
    IF node.leaf
    THEN InsertLeaf(node, key, value, max_keys)
    ELSE LET at == ChildIdx(node, key)
             result == insert_node(node.children[at], key, value, max_keys)
         IN IF result.split
            THEN InsertSplit(node, at, result, max_keys)
            ELSE Done(Internal(node.keys,
                               [node.children EXCEPT ![at] = result.node]))

NewRoot(result) ==
    IF result.split
    THEN Internal(<<result.mid>>, <<result.left, result.right>>)
    ELSE result.node

InsertFirst(key, value) ==
    /\ root = {}
    /\ root' = {Leaf(<<key>>, <<value>>)}
    /\ UNCHANGED order

Insert(key, value) ==
    \E node \in root :
        /\ root' = {NewRoot(insert_node(node, key, value, order - 1))}
        /\ UNCHANGED order

Init == root = {} /\ order \in Orders

Next == \E k \in TreeKey, v \in Value : InsertFirst(k, v) \/ Insert(k, v)

Spec == Init /\ [][Next]_vars

-----------------------------------------------------------------------------
\* The type of a node: as many values as keys, or one more child.
RECURSIVE NodeOK(_)
NodeOK(node) ==
    /\ node.keys \in Seq(TreeKey)
    /\ IF node.leaf
       THEN node.values \in Seq(Value) /\ Len(node.values) = Len(node.keys)
       ELSE /\ Len(node.children) = Len(node.keys) + 1
            /\ \A i \in DOMAIN node.children : NodeOK(node.children[i])

\* The variables have their types.
TypeOK == order \in Orders /\ \A node \in root : NodeOK(node)

RECURSIVE Depths(_)
Depths(node) ==
    IF node.leaf THEN {0}
    ELSE {d + 1 : d \in UNION {Depths(node.children[i]) : i \in DOMAIN node.children}}

\* The nodes below the root have between half and all of the children or
\* values that the order allows.
RECURSIVE HalfFull(_, _)
HalfFull(node, m) ==
    /\ Len(node.keys) <= m - 1
    /\ IF node.leaf THEN Len(node.keys) >= m \div 2
       ELSE /\ 2 * Len(node.children) >= m
            /\ \A i \in DOMAIN node.children : HalfFull(node.children[i], m)

\* README.md, B-Tree Complexity, rests on this: all leaves are at one depth,
\* for a split on one path never makes it longer than the others, and no
\* insertion order leaves a node overfull, or less than half full.
Balanced ==
    \A node \in root :
        /\ Cardinality(Depths(node)) = 1
        /\ Len(node.keys) < order
        /\ ~ node.leaf =>
             \A i \in DOMAIN node.children : HalfFull(node.children[i], order)

Present == {k \in TreeKey : search(k) # {}}

Contents == [k \in Present |-> CHOOSE v \in search(k) : TRUE]

\* keys() and range_query agree with search for all bounds, also the least
\* and the greatest i64 and an empty range: every key in the range once, in
\* ascending order, with its value.
RangeExact ==
    LET ascending == SetToSortSeq(Present, <)
        entries == [i \in DOMAIN ascending |-> <<ascending[i], Contents[ascending[i]]>>]
    IN /\ keys = ascending
       /\ \A a, b \in TreeKey :
            range_query(a, b) =
                SelectSeq(entries, LAMBDA p : a <= p[1] /\ p[1] <= b)

Dict == INSTANCE Dictionary WITH Key <- TreeKey, dict <- Contents

\* The tree implements a dictionary, call by call: an insertion is seen by
\* search at its own key and at no other, through every split.
ImplementsDictionary ==
    /\ Dict!DictInit
    /\ [][\A k \in TreeKey, v \in Value :
            InsertFirst(k, v) \/ Insert(k, v) => Dict!Put(k, v)]_vars
=============================================================================
