--------------------------- MODULE AgentStateStore ---------------------------
(***************************************************************************)
(* struct AgentStateStore of agent_state.rs: a relation of all records     *)
(* ever put, a B-tree from the hash of an agent's name to a value and a    *)
(* chained hash table from record ids to keys.  The two indexes are        *)
(* written by put and read by nothing; they are dictionaries here, which   *)
(* BTree and ChainedHashTable implement.                                   *)
(*                                                                         *)
(* i64 and u64 are scaled from 64 to Width bits, with the wrapping of a    *)
(* release build.  A name or a value is a list of bytes, a key a model     *)
(* value for its string and for its bytes.                                 *)
(***************************************************************************)
EXTENDS RelationalAlgebra, FiniteSets

CONSTANTS Width,        \* of the machine words
          Agent,        \* names, lists of bytes
          KeyName,
          Bytes,        \* the values put, lists of bytes
          Timestamp,    \* unsigned words
          MaxPuts       \* bound on the calls of put

ASSUME StoreAssumption ==
    /\ Width \in Nat /\ Width > 8
    /\ \A v \in Bytes : v \in Seq(0 .. 2^8 - 1)
    /\ Timestamp \subseteq 0 .. 2^Width - 1

VARIABLES agent_index, key_index, table, next_id,
          puts  \* history: the arguments of the calls of put

storeVars == <<agent_index, key_index, table, next_id, puts>>

-----------------------------------------------------------------------------
(* Conversions.                                                            *)

\* The signed word with the low bits of i, and the unsigned one.
Signed(i) ==
    LET low == i % 2^Width IN IF low < 2^(Width - 1) THEN low ELSE low - 2^Width

Unsigned(i) == i % 2^Width

\* The absolute value of the least word is that word again.
hash_string(s) ==
    LET h == FoldLeft(LAMBDA hash, byte : Signed(hash * 33 + byte), 5381, s)
    IN IF h < 0 THEN Signed(-h) ELSE h

Chunks(s, k) ==
    [i \in 1 .. (Len(s) + k - 1) \div k |->
        SubSeq(s, k * (i - 1) + 1, IF k * i < Len(s) THEN k * i ELSE Len(s))]

Pad == 64

\* Up to three bytes as four digits of six bits, padded.
EncodeChunk(chunk) ==
    LET byte(j) == IF j <= Len(chunk) THEN chunk[j] ELSE 0
        triple == byte(1) * 2^16 + byte(2) * 2^8 + byte(3)
    IN [j \in 1 .. 4 |-> IF j <= Len(chunk) + 1 THEN (triple \div 2^(24 - 6 * j)) % 64 ELSE Pad]

base64_encode(data) ==
    LET chunks == Chunks(data, 3)
    IN FlattenSeq([i \in DOMAIN chunks |-> EncodeChunk(chunks[i])])

\* The number with these digits.
Number(digits) == FoldLeft(LAMBDA acc, digit : acc * 64 + digit, 0, digits)

\* Mutant: the bits that do not fill a byte are given out too.
DecodeChunkUp(chunk) ==
    LET acc == Number(chunk) * 2^8
        bits == 6 * Len(chunk)
    IN [j \in 1 .. (bits + 7) \div 8 |-> (acc \div 2^(bits + 8 - 8 * j)) % 256]

\* Up to four digits as the whole bytes in them.
DecodeChunk(chunk) ==
    LET acc == Number(chunk)
        bits == 6 * Len(chunk)
    IN [j \in 1 .. bits \div 8 |-> (acc \div 2^(bits - 8 * j)) % 256]

base64_decode(text) ==
    LET chunks == Chunks(Filter(text, ToSet(text) \ {Pad}), 4)
    IN FlattenSeq([i \in DOMAIN chunks |-> DecodeChunk(chunks[i])])

-----------------------------------------------------------------------------
Agents == INSTANCE Dictionary
            WITH Key <- {hash_string(a) : a \in Agent}, Value <- Bytes, dict <- agent_index

RecordKeys == INSTANCE Dictionary
            WITH Key <- 1 .. MaxPuts, Value <- KeyName, dict <- key_index

StoreInit ==
    /\ Agents!DictInit /\ RecordKeys!DictInit
    /\ table = Relation(<<"id", "agent_id_hash", "key", "value", "timestamp">>, <<>>)
    /\ next_id = 1
    /\ puts = <<>>

\* Mutant: the key index gets the next record's id.
putNextKey(agent, key, value, timestamp) ==
    /\ next_id' = next_id + 1
    /\ Agents!Put(hash_string(agent), value)
    /\ RecordKeys!Put(next_id', key)
    /\ table' = [table EXCEPT !.tuples = Append(@,
                    <<VInt(next_id), VInt(hash_string(agent)), Text(key),
                      Text(base64_encode(value)), VInt(Signed(timestamp))>>)]
    /\ puts' = Append(puts, [agent |-> agent, key |-> key, value |-> value, ts |-> timestamp])

put(agent, key, value, timestamp) ==
    /\ next_id' = next_id + 1
    /\ Agents!Put(hash_string(agent), value)
    /\ RecordKeys!Put(next_id, key)
    /\ table' = [table EXCEPT !.tuples = Append(@,
                    <<VInt(next_id), VInt(hash_string(agent)), Text(key),
                      Text(base64_encode(value)), VInt(Signed(timestamp))>>)]
    /\ puts' = Append(puts, [agent |-> agent, key |-> key, value |-> value, ts |-> timestamp])

Stamp(t) == t[5][2]

Tuples == ToSet(table.tuples)

\* Mutant: the first of the tuples with the greatest timestamp.
LatestFirst(tuples) ==
    tuples[CHOOSE j \in DOMAIN tuples : \A k \in DOMAIN tuples :
             \/ Stamp(tuples[k]) < Stamp(tuples[j])
             \/ Stamp(tuples[k]) = Stamp(tuples[j]) /\ j <= k]

\* max_by_key: the last of the tuples with the greatest timestamp.
Latest(tuples) ==
    tuples[CHOOSE j \in DOMAIN tuples : \A k \in DOMAIN tuples :
             \/ Stamp(tuples[k]) < Stamp(tuples[j])
             \/ Stamp(tuples[k]) = Stamp(tuples[j]) /\ k <= j]

\* The value got, if any.
get(agent, key) ==
    LET found == select(table, {t \in Tuples : /\ Same(t[2], VInt(hash_string(agent)))
                                               /\ Same(t[3], Text(key))}).tuples
    IN IF found = <<>> THEN {} ELSE {base64_decode(Latest(found)[4][2])}

get_all(agent) ==
    LET found == select(table, {t \in Tuples : Same(t[2], VInt(hash_string(agent)))}).tuples
    IN [i \in DOMAIN found |->
          <<found[i][3][2], base64_decode(found[i][4][2]), Unsigned(Stamp(found[i]))>>]

\* The agent's name is given by its hash.
query(predicate) ==
    LET found == select(table, predicate).tuples
    IN [i \in DOMAIN found |->
          [agent_id |-> found[i][2][2], key |-> found[i][3][2],
           value |-> base64_decode(found[i][4][2]), timestamp |-> Unsigned(Stamp(found[i]))]]

len == Len(table.tuples)

StoreNext ==
    /\ len < MaxPuts
    /\ \E a \in Agent, k \in KeyName, v \in Bytes, t \in Timestamp : put(a, k, v, t)

StoreSpec == StoreInit /\ [][StoreNext]_storeVars

-----------------------------------------------------------------------------
\* Has another agent with the same hash put anything?
Alone(agent) ==
    \A i \in DOMAIN puts :
        hash_string(puts[i].agent) = hash_string(agent) => puts[i].agent = agent

\* README.md, AgentStateStore: an agent that shares its hash with no other
\* gets the value it put under the key with the greatest timestamp, the last
\* of these if several puts had it, in whatever order they came, as long as
\* no timestamp has its highest bit set.
GetExact ==
    \A a \in Agent, k \in KeyName :
        LET mine == {i \in DOMAIN puts : puts[i].agent = a /\ puts[i].key = k}
            top == {i \in mine : \A j \in mine : puts[j].ts <= puts[i].ts}
        IN Alone(a) /\ (\A i \in mine : puts[i].ts < 2^(Width - 1)) =>
             get(a, k) = {puts[i].value : i \in {j \in top : \A l \in top : l <= j}}

\* get_all lists an agent's puts and query all puts under a key, in their
\* order, with values and timestamps as they were put: base64 and the casts
\* of the timestamp to signed and back lose nothing.
ListsExact ==
    /\ \A a \in Agent :
         LET mine == Filter(puts, {p \in ToSet(puts) : p.agent = a})
         IN Alone(a) => get_all(a) = [i \in DOMAIN mine |->
                                       <<mine[i].key, mine[i].value, mine[i].ts>>]
    /\ \A k \in KeyName :
         LET under == Filter(puts, {p \in ToSet(puts) : p.key = k})
         IN query({t \in Tuples : Same(t[3], Text(k))}) =
              [i \in DOMAIN under |->
                 [agent_id |-> hash_string(under[i].agent), key |-> k,
                  value |-> under[i].value, timestamp |-> under[i].ts]]

\* The three structures agree: the records have distinct ids, the hash table
\* holds exactly these and for each the key of its record, and the B-tree
\* holds, for a hash, the value put last.
IndexesFollow ==
    /\ \A i \in DOMAIN puts :
         /\ LET id == table.tuples[i][1][2]
            IN id \in DOMAIN key_index /\ key_index[id] = puts[i].key
         /\ \A j \in DOMAIN puts : table.tuples[j][1] = table.tuples[i][1] => j = i
         /\ (\A j \in DOMAIN puts : j > i => hash_string(puts[j].agent) # hash_string(puts[i].agent))
              => agent_index[hash_string(puts[i].agent)] = puts[i].value
    /\ Len(puts) = len /\ Cardinality(DOMAIN key_index) = len
=============================================================================
