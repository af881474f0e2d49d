----------------------------- MODULE Dictionary -----------------------------
(***************************************************************************)
(* What an index promises: a finite map from keys to values.  An insertion *)
(* binds one key, a removal unbinds one, and both leave every other key as *)
(* it was, whatever the index does to its nodes, buckets or directory.     *)
(***************************************************************************)
CONSTANTS Key, Value

VARIABLE dict   \* a function from the keys that are present to their values

Empty == [k \in {} |-> 0]

Put(k, v) ==
    LET old == dict
    IN dict' = [j \in DOMAIN old \union {k} |-> IF j = k THEN v ELSE old[j]]

DictInit == dict = Empty

Remove(k) ==
    LET old == dict
    IN dict' = [j \in DOMAIN old \ {k} |-> old[j]]

DictNext == \E k \in Key : Remove(k) \/ \E v \in Value : Put(k, v)

DictSpec == DictInit /\ [][DictNext]_dict
=============================================================================
