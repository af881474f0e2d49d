-------------------------- MODULE ChainedHashTable --------------------------
(***************************************************************************)
(* struct ChainedHashTable of hash_index.rs: an array of buckets, each a   *)
(* list of entries searched from its front, and a counter of the entries.  *)
(*                                                                         *)
(* i64 and usize are scaled from 64 to Width bits.  Buckets count from 0   *)
(* as in the code.  new(0) makes a table whose first call divides by zero: *)
(* the capacity is positive here.                                          *)
(***************************************************************************)
EXTENDS Integers, FiniteSets, SequencesExt

CONSTANTS Width,        \* of the machine words
          Key,          \* the keys in use, of those Width bits can hold
          Value,
          Capacity      \* the number of buckets, given to new

ASSUME ChainedAssumption ==
    /\ Width \in Nat \ {0}
    /\ Key \subseteq -(2^(Width - 1)) .. 2^(Width - 1) - 1
    /\ Capacity \in 1 .. 2^Width - 1

VARIABLES buckets, size

vars == <<buckets, size>>

Slots == 0 .. Capacity - 1

Init == buckets = [i \in Slots |-> <<>>] /\ size = 0

\* The key as an unsigned word, modulo the number of buckets.
hash(key) == (key % 2^Width) % Capacity

\* The positions of the key in its bucket.
Positions(key) ==
    {i \in DOMAIN buckets[hash(key)] : buckets[hash(key)][i][1] = key}

First(S) == CHOOSE i \in S : \A j \in S : i <= j

\* The value of the first entry with the key, if any.
get(key) ==
    IF Positions(key) = {} THEN {}
    ELSE {buckets[hash(key)][First(Positions(key))][2]}

Update(key, value) ==
    /\ Positions(key) # {}
    /\ buckets' = [buckets EXCEPT ![hash(key)][First(Positions(key))] = <<key, value>>]
    /\ UNCHANGED size

Push(key, value) ==
    /\ Positions(key) = {}
    /\ buckets' = [buckets EXCEPT ![hash(key)] = Append(@, <<key, value>>)]
    /\ size' = size + 1

insert(key, value) == Update(key, value) \/ Push(key, value)

\* Mutant: the size counts all insertions ever made.
removeUncounted(key) ==
    /\ Positions(key) # {}
    /\ buckets' = [buckets EXCEPT ![hash(key)] = RemoveAt(@, First(Positions(key)))]
    /\ UNCHANGED size

\* Mutant: the front entry of the bucket goes, not the one found.
removeFront(key) ==
    /\ Positions(key) # {}
    /\ buckets' = [buckets EXCEPT ![hash(key)] = Tail(@)]
    /\ size' = size - 1

remove(key) ==
    /\ Positions(key) # {}
    /\ buckets' = [buckets EXCEPT ![hash(key)] = RemoveAt(@, First(Positions(key)))]
    /\ size' = size - 1

removeMissing(key) ==
    /\ Positions(key) = {}
    /\ UNCHANGED vars

Next == \E k \in Key :
          \/ remove(k)
          \/ removeMissing(k)
          \/ \E v \in Value : insert(k, v)

Spec == Init /\ [][Next]_vars

-----------------------------------------------------------------------------
\* The variables have their types.
TypeOK ==
    /\ buckets \in [Slots -> Seq(Key \X Value)]
    /\ size \in Nat

\* However keys were inserted, replaced and removed, the counter that len and
\* load_factor answer with is the number of keys that get finds: no key is
\* held twice, or in a bucket where it is not looked for.
SizeExact ==
    /\ size = Cardinality({k \in Key : get(k) # {}})
    /\ size = Cardinality(UNION {{i} \X DOMAIN buckets[i] : i \in Slots})

\* What get finds, as a map.
Contents ==
    [k \in {j \in Key : get(j) # {}} |-> CHOOSE v \in get(k) : TRUE]

Dict == INSTANCE Dictionary WITH dict <- Contents

\* The table implements a dictionary, and call by call: an insertion or a
\* removal is seen by get at its own key and at no other, also at keys of the
\* same bucket and at negative ones.
ImplementsDictionary ==
    /\ Dict!DictSpec
    /\ [][\A k \in Key :
            /\ remove(k) => Dict!Remove(k)
            /\ \A v \in Value : insert(k, v) => Dict!Put(k, v)]_vars
=============================================================================
