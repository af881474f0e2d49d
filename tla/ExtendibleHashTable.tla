------------------------ MODULE ExtendibleHashTable ------------------------
(***************************************************************************)
(* struct ExtendibleHashTable of hash_index.rs: a directory indexed by the *)
(* low bits of the hash, buckets of bounded size with a local depth, and   *)
(* splits that double the directory when the full bucket is at the global  *)
(* depth.  There is no removal.                                            *)
(*                                                                         *)
(* i64 and usize are scaled from 64 to Width bits.  Directory slots count  *)
(* from 0 as in the code, buckets from 1.                                  *)
(***************************************************************************)
EXTENDS Integers, FiniteSets, SequencesExt

CONSTANTS Width,            \* of the machine words
          Key,              \* the keys in use, of those Width bits can hold
          Value,
          BUCKET_CAPACITY,
          Multiplier        \* 2654435761, Knuth's constant, modulo 2^Width

\* What the module assumes of its constants.
HashAssumption ==
    /\ Width \in Nat \ {0}
    /\ Key \subseteq -(2^(Width - 1)) .. 2^(Width - 1) - 1
    /\ BUCKET_CAPACITY \in Nat \ {0}
    /\ Multiplier \in 1 .. 2^Width - 1 /\ Multiplier % 2 = 1

VARIABLE table  \* the struct, a record of its three fields

Table(depth, dir, bs) == [global_depth |-> depth, directory |-> dir, buckets |-> bs]

Bucket(depth, es) == [local_depth |-> depth, entries |-> es]

Slots(depth) == 0 .. 2^depth - 1

Init == table = Table(0, [i \in Slots(0) |-> 1], <<Bucket(0, <<>>)>>)

\* The two's complement of key times the multiplier, wrapping, low bits only.
Low(key, depth) == (((key % 2^Width) * Multiplier) % 2^Width) % 2^depth

hash(t, key) == Low(key, t.global_depth)

bucket_index_for_key(t, key) == t.directory[hash(t, key)]

EntriesFor(t, key) == t.buckets[bucket_index_for_key(t, key)].entries

\* The value of the first entry with the key, if any.
get(t, key) ==
    LET es == EntriesFor(t, key)
        found == {i \in DOMAIN es : es[i][1] = key}
    IN {es[i][2] : i \in {j \in found : \A k \in found : j <= k}}

-----------------------------------------------------------------------------
Full(t, b) == Len(t.buckets[b].entries) >= BUCKET_CAPACITY

AddEntry(t, key, value) ==
    LET b == bucket_index_for_key(t, key)
    IN [t EXCEPT !.buckets[b].entries = Append(@, <<key, value>>)]

\* Mutant: each slot is repeated beside itself, as for hashes read from the top.
DoubledInPlace(t, b) ==
    IF t.buckets[b].local_depth # t.global_depth THEN t
    ELSE [t EXCEPT !.global_depth = @ + 1,
                   !.directory = [i \in Slots(t.global_depth + 1) |->
                                    t.directory[i \div 2]]]

\* The directory is repeated once if the bucket is as deep as the table.
Doubled(t, b) ==
    IF t.buckets[b].local_depth # t.global_depth THEN t
    ELSE [t EXCEPT !.global_depth = @ + 1,
                   !.directory = [i \in Slots(t.global_depth + 1) |->
                                    t.directory[i % 2^t.global_depth]]]

\* Is bit number n (from 0) of i set?
Bit(i, n) == (i \div 2^n) % 2 = 1

\* Mutant: only the first of the slots whose next bit is set is repointed.
HalvedFirstSlot(t, b) ==
    LET depth == t.buckets[b].local_depth
        moving == {i \in DOMAIN t.directory : t.directory[i] = b /\ Bit(i, depth)}
    IN [t EXCEPT
          !.buckets = Append([@ EXCEPT ![b] = Bucket(depth + 1, <<>>)],
                             Bucket(depth + 1, <<>>)),
          !.directory = [i \in DOMAIN @ |->
                           IF i \in moving /\ \A j \in moving : i <= j
                           THEN Len(t.buckets) + 1 ELSE @[i]]]

\* Bucket b becomes two empty buckets one deeper: the slots of b whose next
\* bit is set go to the new one.
Halved(t, b) ==
    LET depth == t.buckets[b].local_depth
        new == Len(t.buckets) + 1
    IN [t EXCEPT
          !.buckets = Append([@ EXCEPT ![b] = Bucket(depth + 1, <<>>)],
                             Bucket(depth + 1, <<>>)),
          !.directory = [i \in DOMAIN @ |->
                           IF @[i] = b /\ Bit(i, depth) THEN new ELSE @[i]]]

\* Bucket b is split and its entries are hashed again, one by one.
SplitBucket(t, b) ==
    LET old == t.buckets[b].entries
        rehashed[i \in 0 .. Len(old)] ==
          IF i = 0 THEN Halved(Doubled(t, b), b)
          ELSE AddEntry(rehashed[i - 1], old[i][1], old[i][2])
    IN rehashed[Len(old)]

SplitFor(t, key) == SplitBucket(t, bucket_index_for_key(t, key))

\* All entries may have gone to one half; then that half is split again, until
\* there is room.  Each split is one bit deeper, so there are at most Width.
split_and_insert(t, key, value) ==
    LET split[n \in 1 .. Width] ==
          IF n = 1 THEN SplitFor(t, key)
          ELSE LET s == split[n - 1]
               IN IF Full(s, bucket_index_for_key(s, key)) THEN SplitFor(s, key) ELSE s
    IN AddEntry(split[Width], key, value)

Known(t, key) == \E i \in DOMAIN EntriesFor(t, key) : EntriesFor(t, key)[i][1] = key

Update(key, value) ==
    /\ Known(table, key)
    /\ table' = [table EXCEPT
                   !.buckets[bucket_index_for_key(table, key)].entries =
                       [i \in DOMAIN @ |-> IF @[i][1] = key THEN <<key, value>> ELSE @[i]]]

InsertInRoom(key, value) ==
    /\ ~ Known(table, key)
    /\ ~ Full(table, bucket_index_for_key(table, key))
    /\ table' = AddEntry(table, key, value)

InsertWithSplit(key, value) ==
    /\ ~ Known(table, key)
    /\ Full(table, bucket_index_for_key(table, key))
    /\ table' = split_and_insert(table, key, value)

insert(key, value) ==
    Update(key, value) \/ InsertInRoom(key, value) \/ InsertWithSplit(key, value)

Next == \E k \in Key, v \in Value : insert(k, v)

Spec == Init /\ [][Next]_table

-----------------------------------------------------------------------------
\* The variable has its type.
TypeOK ==
    /\ table.global_depth \in 0 .. Width
    /\ table.directory \in [Slots(table.global_depth) -> DOMAIN table.buckets]
    /\ \A b \in DOMAIN table.buckets :
         /\ table.buckets[b].local_depth \in 0 .. table.global_depth
         /\ table.buckets[b].entries \in Seq(Key \X Value)
         /\ Len(table.buckets[b].entries) <= BUCKET_CAPACITY

\* The slots of a bucket are all the slots that agree in its local depth's
\* low bits; so is every entry's hash.
SlotsExact ==
    \A b \in DOMAIN table.buckets :
        LET depth == table.buckets[b].local_depth
            slots == {i \in DOMAIN table.directory : table.directory[i] = b}
        IN \E low \in Slots(depth) :
             /\ slots = {i \in DOMAIN table.directory : i % 2^depth = low}
             /\ \A i \in DOMAIN table.buckets[b].entries :
                  Low(table.buckets[b].entries[i][1], depth) = low

\* A table that has grown had more entries than a bucket holds that share
\* all the bits before the last.
Minimal ==
    LET EntriesUnder(low, depth) ==
            {p \in UNION {{b} \X DOMAIN table.buckets[b].entries : b \in DOMAIN table.buckets} :
                Low(table.buckets[p[1]].entries[p[2]][1], depth) = low}
    IN table.global_depth > 0 =>
         \E low \in Slots(table.global_depth - 1) :
             Cardinality(EntriesUnder(low, table.global_depth - 1)) > BUCKET_CAPACITY

\* However buckets were split and the directory doubled, every slot points
\* at the bucket for its low bits, and the directory is no longer than the
\* entries force it to be.  An update of directory entries that missed one
\* after an earlier doubling would break this.
DirectoryExact == SlotsExact /\ Minimal

\* What get finds, as a map.
Contents ==
    [k \in {j \in Key : get(table, j) # {}} |-> CHOOSE v \in get(table, k) : TRUE]

Dict == INSTANCE Dictionary WITH dict <- Contents

\* The table implements a dictionary, call by call: an insertion is seen by
\* get at its own key and at no other, through splits, doublings and splits
\* that move every entry to one side.
ImplementsDictionary ==
    /\ Dict!DictInit
    /\ [][\A k \in Key, v \in Value : insert(k, v) => Dict!Put(k, v)]_table
=============================================================================
