-------------------------- MODULE RelationalProofs --------------------------
(***************************************************************************)
(* Proofs about the relational half of the system: the agent store, the    *)
(* relational algebra and the theory of normal forms.                      *)
(*                                                                         *)
(* The relation and the two indexes of the agent store never part, and     *)
(* what it gives back is what was put, for any names, keys, lists of       *)
(* bytes, timestamps, word width and sequence of puts.  What the hash      *)
(* computes is not looked into.                                            *)
(*                                                                         *)
(* A relation that the operators made, in whatever order, is the set of    *)
(* rows that the operators of the theory give, for any base relations with *)
(* as many values in a tuple as columns.                                   *)
(*                                                                         *)
(* The checks of normal forms, the minimal cover, the candidate keys and   *)
(* both decompositions do what the theory says, for any finite set of      *)
(* attributes, any list of dependencies and any order in which hash sets   *)
(* are iterated.                                                           *)
(***************************************************************************)
EXTENDS Decompositions, AgentStateStore, RelationSessions, FiniteSetTheorems,
        SequenceTheorems, WellFoundedInduction, TLAPS

-----------------------------------------------------------------------------
(* The agent store.                                                        *)

\* The tuple that put pushes for its p-th call.
Record(id, p) ==
    <<VInt(id), VInt(hash_string(p.agent)), Text(p.key), Text(base64_encode(p.value)),
      VInt(Signed(p.ts))>>

\* One record for each put, in their order, numbered from 1.
RecordsInv ==
    /\ puts \in Seq([agent : Agent, key : KeyName, value : Bytes, ts : Timestamp])
    /\ next_id = Len(puts) + 1
    /\ table.tuples = [i \in 1 .. Len(puts) |-> Record(i, puts[i])]
    /\ table = [schema |-> table.schema, tuples |-> table.tuples]

KeysInv == key_index = [i \in 1 .. Len(puts) |-> puts[i].key]

\* No later put has the hash of the i-th.
LastOfHash(i) ==
    \A j \in 1 .. Len(puts) : j > i => hash_string(puts[j].agent) # hash_string(puts[i].agent)

AgentsInv ==
    \A i \in 1 .. Len(puts) :
        /\ hash_string(puts[i].agent) \in DOMAIN agent_index
        /\ LastOfHash(i) => agent_index[hash_string(puts[i].agent)] = puts[i].value

StoreInv == RecordsInv /\ KeysInv /\ AgentsInv

\* What an appended sequence is.
LEMMA Appended ==
    ASSUME NEW S, NEW s \in Seq(S), NEW e \in S
    PROVE  /\ Append(s, e) \in Seq(S)
           /\ Len(Append(s, e)) = Len(s) + 1
           /\ \A i \in 1 .. Len(s) : Append(s, e)[i] = s[i]
           /\ Append(s, e)[Len(s) + 1] = e
           /\ Append(s, e) = [i \in 1 .. Len(s) + 1 |-> Append(s, e)[i]]
<1>1. Append(s, e) \in Seq(S) /\ Len(Append(s, e)) = Len(s) + 1
  OBVIOUS
<1>2. Append(s, e) = [i \in 1 .. Len(Append(s, e)) |-> Append(s, e)[i]]
  BY <1>1, LenProperties
<1>3. QED BY <1>1, <1>2

LEMMA Numbered == ASSUME NEW n \in Nat PROVE Cardinality(1 .. n) = n
<1>1. Cardinality(1 .. n) = IF 1 > n THEN 0 ELSE n - 1 + 1
  BY FS_Interval
<1>2. QED BY <1>1

LEMMA StoreStarts == StoreInit => StoreInv
<1> SUFFICES ASSUME StoreInit PROVE StoreInv
  OBVIOUS
<1>1. puts = <<>> /\ Len(puts) = 0 /\ next_id = 1
  BY DEF StoreInit
<1>2. table.tuples = <<>> /\ table = [schema |-> table.schema, tuples |-> table.tuples]
  BY DEF StoreInit, Relation
<1>3. RecordsInv
  BY <1>1, <1>2 DEF RecordsInv
<1>4. KeysInv
  BY <1>1 DEF StoreInit, RecordKeys!DictInit, RecordKeys!Empty, KeysInv
<1>5. AgentsInv
  BY <1>1 DEF AgentsInv
<1>6. QED BY <1>3, <1>4, <1>5 DEF StoreInv

LEMMA PutKeeps ==
    ASSUME StoreInv, NEW a \in Agent, NEW k \in KeyName, NEW v \in Bytes, NEW t \in Timestamp,
           put(a, k, v, t)
    PROVE  StoreInv'
<1> DEFINE n == Len(puts)
           p == [agent |-> a, key |-> k, value |-> v, ts |-> t]
           Calls == [agent : Agent, key : KeyName, value : Bytes, ts : Timestamp]
<1> USE DEF StoreInv
<1>1. /\ puts \in Seq(Calls) /\ n \in Nat /\ next_id = n + 1 /\ p \in Calls
      /\ next_id' = n + 2
  BY DEF RecordsInv, put
<1>2. puts' = Append(puts, p)
  BY DEF put
<1>3. /\ puts' \in Seq(Calls) /\ Len(puts') = n + 1
      /\ \A i \in 1 .. n : puts'[i] = puts[i]
      /\ puts'[n + 1] = p
  BY <1>1, <1>2, Appended
<1> HIDE DEF Calls
<1>4. RecordsInv'
  <2> DEFINE old == table.tuples
             added == Record(n + 1, p)
  <2>1. old = [i \in 1 .. n |-> Record(i, puts[i])]
    BY DEF RecordsInv
  <2>2. /\ table' = [table EXCEPT !.tuples = Append(@, added)]
        /\ table = [schema |-> table.schema, tuples |-> table.tuples]
    BY <1>1 DEF put, Record, RecordsInv
  <2>3. table'.tuples = Append(old, added) /\ table' = [schema |-> table'.schema, tuples |-> table'.tuples]
    <3> HIDE DEF added
    <3> QED BY <2>2
  <2>4. Append(old, added) = [i \in 1 .. n + 1 |-> Record(i, puts'[i])]
    <3>1. old \in Seq({Record(i, puts[i]) : i \in 1 .. n} \union {added}) /\ Len(old) = n
      <4> HIDE DEF added
      <4> QED BY <1>1, <2>1
    <3>2. /\ Append(old, added) \in Seq({Record(i, puts[i]) : i \in 1 .. n} \union {added})
          /\ Len(Append(old, added)) = n + 1
          /\ \A i \in 1 .. n : Append(old, added)[i] = old[i]
          /\ Append(old, added)[n + 1] = added
          /\ Append(old, added) = [i \in 1 .. n + 1 |-> Append(old, added)[i]]
      <4> HIDE DEF added, old
      <4> QED BY <3>1, Appended
    <3>3. \A i \in 1 .. n + 1 : Append(old, added)[i] = Record(i, puts'[i])
      <4> SUFFICES ASSUME NEW i \in 1 .. n + 1 PROVE Append(old, added)[i] = Record(i, puts'[i])
        OBVIOUS
      <4>1. CASE i = n + 1
        <5>1. Append(old, added)[i] = added
          <6> HIDE DEF added, old
          <6> QED BY <4>1, <3>2
        <5>2. puts'[i] = p
          BY <4>1, <1>3
        <5>3. QED BY <5>1, <5>2, <4>1
      <4>2. CASE i \in 1 .. n
        <5>1. Append(old, added)[i] = old[i] /\ old[i] = Record(i, puts[i])
          <6> HIDE DEF added
          <6> QED BY <4>2, <3>2, <2>1
        <5>2. QED BY <5>1, <4>2, <1>3
      <4>3. i = n + 1 \/ i \in 1 .. n
        <5> HIDE DEF old, added
        <5> QED BY <1>1
      <4>4. QED
        <5> HIDE DEF old, added
        <5> QED BY <4>1, <4>2, <4>3
    <3>4. QED
      <4> HIDE DEF added, old
      <4> QED BY <3>2, <3>3
  <2>5. table'.tuples = [i \in 1 .. Len(puts') |-> Record(i, puts'[i])]
    <3> HIDE DEF added, old
    <3> QED BY <2>3, <2>4, <1>3
  <2>6. QED BY <2>3, <2>5, <1>1, <1>3 DEF RecordsInv, Calls
<1>5. KeysInv'
  <2>1. key_index' = [i \in DOMAIN key_index \union {n + 1} |-> IF i = n + 1 THEN k ELSE key_index[i]]
    BY <1>1 DEF put, RecordKeys!Put
  <2>2. DOMAIN key_index = 1 .. n /\ \A i \in 1 .. n : key_index[i] = puts[i].key
    BY DEF KeysInv
  <2>3. (1 .. n) \union {n + 1} = 1 .. n + 1
    BY <1>1
  <2>4. \A i \in 1 .. n + 1 : (IF i = n + 1 THEN k ELSE key_index[i]) = puts'[i].key
    BY <1>1, <1>3, <2>2
  <2>5. QED BY <2>1, <2>2, <2>3, <2>4, <1>3 DEF KeysInv
<1>6. AgentsInv'
  <2> DEFINE h == hash_string(a)
  <2>1. agent_index' = [g \in DOMAIN agent_index \union {h} |-> IF g = h THEN v ELSE agent_index[g]]
    BY DEF put, Agents!Put
  <2> HIDE DEF h
  <2> SUFFICES ASSUME NEW i \in 1 .. n + 1
               PROVE  /\ hash_string(puts'[i].agent) \in DOMAIN agent_index'
                      /\ LastOfHash(i)' => agent_index'[hash_string(puts'[i].agent)] = puts'[i].value
    BY <1>3 DEF AgentsInv
  <2>2. CASE i = n + 1
    <3>1. hash_string(puts'[i].agent) = h /\ puts'[i].value = v
      BY <2>2, <1>3 DEF h
    <3>2. QED BY <3>1, <2>1
  <2>3. CASE i \in 1 .. n
    <3>1. puts'[i] = puts[i]
      BY <2>3, <1>3
    <3>2. hash_string(puts[i].agent) \in DOMAIN agent_index
      BY <2>3 DEF AgentsInv
    <3>3. ASSUME LastOfHash(i)' PROVE agent_index'[hash_string(puts[i].agent)] = puts[i].value
      <4>1. \A j \in 1 .. n + 1 : j > i => hash_string(puts'[j].agent) # hash_string(puts[i].agent)
        BY <3>1, <3>3, <1>3 DEF LastOfHash
      <4>2. hash_string(puts'[n + 1].agent) # hash_string(puts[i].agent)
        BY <4>1, <2>3, <1>1
      <4>3. h # hash_string(puts[i].agent)
        BY <4>2, <1>3 DEF h
      <4>4. LastOfHash(i)
        <5> SUFFICES ASSUME NEW j \in 1 .. n, j > i
                     PROVE  hash_string(puts[j].agent) # hash_string(puts[i].agent)
          BY DEF LastOfHash
        <5>1. puts'[j] = puts[j] /\ j \in 1 .. n + 1
          BY <1>1, <1>3
        <5>2. QED BY <5>1, <4>1
      <4>5. agent_index[hash_string(puts[i].agent)] = puts[i].value
        BY <4>4, <2>3 DEF AgentsInv
      <4>6. QED BY <4>3, <4>5, <3>2, <2>1
    <3>4. QED BY <3>1, <3>2, <3>3, <2>1
  <2>4. QED BY <2>2, <2>3, <1>1
<1>7. QED BY <1>4, <1>5, <1>6

LEMMA StoreAlways == StoreSpec => []StoreInv
<1>1. StoreInit => StoreInv
  BY StoreStarts
<1>2. StoreInv /\ [StoreNext]_storeVars => StoreInv'
  <2> SUFFICES ASSUME StoreInv, [StoreNext]_storeVars PROVE StoreInv'
    OBVIOUS
  <2>1. ASSUME StoreNext PROVE StoreInv'
    BY <2>1, PutKeeps DEF StoreNext
  <2>2. CASE UNCHANGED storeVars
    BY <2>2 DEF storeVars, StoreInv, RecordsInv, KeysInv, AgentsInv, LastOfHash
  <2>3. QED BY <2>1, <2>2
<1>3. QED BY <1>1, <1>2, PTL DEF StoreSpec

\* The relation and the two indexes agree after any calls of put: ids are
\* never used twice, the hash table has the key of every record and nothing
\* else, and the B-tree the value put last for each hash of a name.
THEOREM IndexesAlwaysFollow == StoreSpec => []IndexesFollow
<1>1. StoreInv => IndexesFollow
  <2> SUFFICES ASSUME StoreInv PROVE IndexesFollow
    OBVIOUS
  <2> USE DEF StoreInv
  <2>1. Len(puts) \in Nat /\ DOMAIN puts = 1 .. Len(puts)
    BY DEF RecordsInv
  <2>2. /\ DOMAIN table.tuples = 1 .. Len(puts)
        /\ \A i \in 1 .. Len(puts) : table.tuples[i][1] = <<"Int", i>>
    BY DEF RecordsInv, Record, VInt
  <2>3. len = Len(puts)
    BY <2>1, <2>2 DEF len, RecordsInv
  <2>4. DOMAIN key_index = 1 .. Len(puts) /\ \A i \in 1 .. Len(puts) : key_index[i] = puts[i].key
    BY DEF KeysInv
  <2>5. Cardinality(1 .. Len(puts)) = Len(puts)
    BY <2>1, Numbered
  <2>6. ASSUME NEW i \in DOMAIN puts
        PROVE  /\ table.tuples[i][1][2] \in DOMAIN key_index
               /\ key_index[table.tuples[i][1][2]] = puts[i].key
               /\ \A j \in DOMAIN puts : table.tuples[j][1] = table.tuples[i][1] => j = i
    BY <2>1, <2>2, <2>4
  <2>7. ASSUME NEW i \in DOMAIN puts,
               \A j \in DOMAIN puts :
                   j > i => hash_string(puts[j].agent) # hash_string(puts[i].agent)
        PROVE  agent_index[hash_string(puts[i].agent)] = puts[i].value
    BY <2>1, <2>7 DEF AgentsInv, LastOfHash
  <2>8. QED BY <2>3, <2>4, <2>5, <2>6, <2>7 DEF IndexesFollow
<1>2. QED BY <1>1, StoreAlways, PTL

-----------------------------------------------------------------------------
(* Recursion.                                                              *)

\* A set that holds zero and with a number the next holds all numbers.
LEMMA Counting ==
    ASSUME NEW S, 0 \in S, \A n \in Nat : n \in S => n + 1 \in S
    PROVE  Nat \subseteq S
<1> DEFINE Missing == Nat \ S
           Below == {p \in Nat \X Nat : p[1] < p[2]}
<1> SUFFICES ASSUME Missing # {} PROVE FALSE
  OBVIOUS
<1>1. IsWellFoundedOn(Below, Nat)
  BY NatLessThanWellFounded DEF OpToRel
<1>2. Missing \subseteq Nat
  OBVIOUS
<1>3. PICK m \in Missing : \A n \in Missing : <<n, m>> \notin Below
  <2> HIDE DEF Below, Missing
  <2>1. QED BY <1>1, <1>2, WFMin
<1>4. m \in Nat /\ m # 0 /\ m \notin S
  OBVIOUS
<1>5. m - 1 \in Nat /\ m - 1 < m /\ m = (m - 1) + 1
  BY <1>4
<1>6. m - 1 \notin Missing
  BY <1>3, <1>4, <1>5
<1>7. QED BY <1>4, <1>5, <1>6

\* What a function on a set makes of an element in so many rounds.
Iterates(X, base, step, n, f) ==
    /\ f \in [0 .. n -> X]
    /\ f = [i \in 0 .. n |-> IF i = 0 THEN base ELSE step[f[i - 1]]]

\* Such a function, round by round.
LEMMA IterationUnfolds ==
    ASSUME NEW X, NEW base, NEW step, NEW n \in Nat, NEW f, Iterates(X, base, step, n, f)
    PROVE  \A i \in 0 .. n :
               /\ f[i] \in X
               /\ i = 0 => f[i] = base
               /\ i # 0 => f[i] = step[f[i - 1]]
BY DEF Iterates

\* A function can be iterated.
LEMMA Iteration ==
    ASSUME NEW X, NEW base \in X, NEW step \in [X -> X], NEW n \in Nat
    PROVE  \E f : Iterates(X, base, step, n, f)
<1> DEFINE Rounds(m, f) ==
              f \in [0 .. m -> X] /\ f[0] = base /\ \A i \in 1 .. m : f[i] = step[f[i - 1]]
           Done == {m \in Nat : \E f : Rounds(m, f)}
<1>1. 0 \in Done
  <2>1. Rounds(0, [i \in 0 .. 0 |-> base])
    OBVIOUS
  <2>2. QED BY <2>1
<1>2. ASSUME NEW m \in Nat, m \in Done PROVE m + 1 \in Done
  <2>1. PICK g : Rounds(m, g)
    BY <1>2
  <2> DEFINE f == [i \in 0 .. m + 1 |-> IF i = m + 1 THEN step[g[m]] ELSE g[i]]
  <2>2. g[m] \in X /\ step[g[m]] \in X
    BY <2>1
  <2>3. f \in [0 .. m + 1 -> X]
    BY <2>1, <2>2
  <2>4. f[0] = base
    BY <2>1
  <2>5. \A i \in 1 .. m + 1 : f[i] = step[f[i - 1]]
    <3> SUFFICES ASSUME NEW i \in 1 .. m + 1 PROVE f[i] = step[f[i - 1]]
      OBVIOUS
    <3>1. f[i - 1] = g[i - 1]
      OBVIOUS
    <3>2. CASE i = m + 1
      BY <3>1, <3>2
    <3>3. CASE i # m + 1
      <4>1. i \in 1 .. m /\ f[i] = g[i]
        BY <3>3
      <4>2. QED BY <2>1, <3>1, <4>1
    <3>4. QED BY <3>2, <3>3
  <2> HIDE DEF f
  <2>6. QED BY <2>3, <2>4, <2>5
<1>3. n \in Done
  <2> HIDE DEF Done
  <2>1. QED BY <1>1, <1>2, Counting
<1>4. PICK f : Rounds(n, f)
  BY <1>3
<1>5. f = [i \in 0 .. n |-> IF i = 0 THEN base ELSE step[f[i - 1]]]
  BY <1>4
<1>6. QED BY <1>4, <1>5 DEF Iterates

\* A finite set can be folded, its elements picked one after the other.
Folds(T, X, base, step, pick, f) ==
    /\ f \in [SUBSET T -> X]
    /\ f = [s \in SUBSET T |-> IF s = {} THEN base ELSE step[<<pick[s], f[s \ {pick[s]}]>>]]

\* Such a function exists for every finite set.
LEMMA Folding ==
    ASSUME NEW T, IsFiniteSet(T), NEW X, NEW base \in X, NEW step \in [T \X X -> X],
           NEW pick, \A s \in SUBSET T : s # {} => pick[s] \in s
    PROVE  \E f : Folds(T, X, base, step, pick, f)
<1> DEFINE N == Cardinality(T)
           F(g) == [s \in SUBSET T |-> IF s = {} THEN base
                                       ELSE step[<<pick[s], g[s \ {pick[s]}]>>]]
           Y == [SUBSET T -> X]
           more == [g \in Y |-> F(g)]
           none == [s \in SUBSET T |-> base]
<1>1. \A g \in Y : F(g) \in Y
  OBVIOUS
<1>2. none \in Y /\ more \in [Y -> Y]
  BY <1>1
<1>3. N \in Nat /\ N + 1 \in Nat
  BY FS_CardinalityType
<1> HIDE DEF N
<1>4. PICK f : Iterates(Y, none, more, N + 1, f)
  <2> HIDE DEF none, more, Y
  <2>1. QED BY <1>2, <1>3, Iteration
<1>5. f[0] = none /\ \A i \in 1 .. N + 1 : f[i] = F(f[i - 1])
  <2>1. f[0] = none /\ \A i \in 1 .. N + 1 : f[i - 1] \in Y /\ f[i] = more[f[i - 1]]
    <3> HIDE DEF none, more, Y
    <3>1. \A i \in 0 .. N + 1 :
              /\ f[i] \in Y
              /\ i = 0 => f[i] = none
              /\ i # 0 => f[i] = more[f[i - 1]]
      BY <1>3, <1>4, IterationUnfolds
    <3>2. /\ 0 \in 0 .. N + 1
          /\ \A i \in 1 .. N + 1 : i - 1 \in 0 .. N + 1 /\ i # 0 /\ i \in 0 .. N + 1
      BY <1>3
    <3>3. QED BY <3>1, <3>2
  <2> HIDE DEF F, none, Y
  <2>2. QED BY <2>1
<1> DEFINE Alike(i) == \A s \in SUBSET T : Cardinality(s) <= i => f[i + 1][s] = f[i][s]
           Stable == {i \in Nat : i <= N => Alike(i)}
<1>6. \A s \in SUBSET T : IsFiniteSet(s) /\ Cardinality(s) \in Nat /\ Cardinality(s) <= N
  BY FS_Subset, FS_CardinalityType DEF N
<1>7. 0 \in Stable
  <2> SUFFICES ASSUME NEW s \in SUBSET T, Cardinality(s) <= 0 PROVE f[1][s] = f[0][s]
    BY <1>3
  <2>1. s = {}
    BY <1>6, FS_EmptySet
  <2>2. f[1] = F(f[0])
    <3>1. 1 \in 1 .. N + 1 /\ 1 - 1 = 0
      BY <1>3
    <3> HIDE DEF F, none
    <3>2. QED BY <1>5, <3>1
  <2>3. f[1][s] = base /\ f[0][s] = base
    BY <1>5, <2>1, <2>2
  <2>4. QED BY <2>3
<1>8. ASSUME NEW i \in Nat, i \in Stable PROVE i + 1 \in Stable
  <2> SUFFICES ASSUME i + 1 <= N, NEW s \in SUBSET T, Cardinality(s) <= i + 1
               PROVE  f[(i + 1) + 1][s] = f[i + 1][s]
    OBVIOUS
  <2>1. f[(i + 1) + 1] = F(f[i + 1]) /\ f[i + 1] = F(f[i])
    <3>1. i + 1 \in 1 .. N + 1 /\ (i + 1) + 1 \in 1 .. N + 1
      BY <1>3
    <3>2. (i + 1) - 1 = i /\ ((i + 1) + 1) - 1 = i + 1
      OBVIOUS
    <3> HIDE DEF F
    <3>3. QED BY <1>5, <3>1, <3>2
  <2>2. CASE s = {}
    <3>1. \A g : F(g)[s] = base
      BY <2>2
    <3> HIDE DEF F
    <3>2. QED BY <2>1, <3>1
  <2>3. CASE s # {}
    <3> DEFINE r == s \ {pick[s]}
    <3>1. pick[s] \in s /\ r \in SUBSET T
      BY <2>3
    <3>2. Cardinality(r) = Cardinality(s) - 1
      BY <1>6, <3>1, FS_RemoveElement
    <3>3. Cardinality(r) <= i
      BY <1>6, <3>2
    <3>4. f[i + 1][r] = f[i][r]
      <4>1. i <= N
        BY <1>3
      <4>2. Alike(i)
        BY <1>8, <4>1
      <4> HIDE DEF r, Stable
      <4>3. QED BY <3>1, <3>3, <4>2
    <3>5. \A g : F(g)[s] = step[<<pick[s], g[r]>>]
      BY <2>3
    <3> HIDE DEF r, F
    <3>6. QED BY <2>1, <3>4, <3>5
  <2>4. QED BY <2>2, <2>3
<1>9. N \in Stable
  <2> HIDE DEF Stable
  <2>1. QED BY <1>3, <1>7, <1>8, Counting
<1>10. \A s \in SUBSET T : f[N + 1][s] = f[N][s]
  BY <1>3, <1>6, <1>9
<1>11. f[N + 1] = F(f[N]) /\ f[N] \in Y /\ f[N + 1] \in Y
  <2>1. N + 1 \in 1 .. N + 1 /\ (N + 1) - 1 = N /\ N \in 0 .. N + 1 /\ N + 1 \in 0 .. N + 1
    BY <1>3
  <2>2. f[N] \in Y /\ f[N + 1] \in Y
    <3> HIDE DEF none, more, Y
    <3>1. QED BY <1>3, <1>4, <2>1, IterationUnfolds
  <2> HIDE DEF F, none, Y
  <2>3. QED BY <1>5, <2>1, <2>2
<1>12. f[N + 1] = f[N]
  <2> DEFINE a == f[N]
             b == f[N + 1]
  <2>1. a \in [SUBSET T -> X] /\ b \in [SUBSET T -> X]
    BY <1>11
  <2>2. \A s \in SUBSET T : b[s] = a[s]
    BY <1>10
  <2> HIDE DEF a, b
  <2>3. b = a
    BY <2>1, <2>2
  <2>4. QED BY <2>3 DEF a, b
<1>13. QED
  <2> DEFINE a == f[N]
  <2>1. a \in [SUBSET T -> X] /\ a = F(a)
    <3> HIDE DEF F
    <3>1. QED BY <1>11, <1>12
  <2> HIDE DEF a
  <2>2. Folds(T, X, base, step, pick, a)
    BY <2>1 DEF Folds
  <2>3. QED BY <2>2

\* What Max says of a set of numbers.
LEMMA MaxOfSome ==
    ASSUME NEW n \in Nat, NEW s \in SUBSET (1 .. n), s # {}
    PROVE  Max(s) \in s /\ \A x \in s : x <= Max(s)
<1> DEFINE Topped == {m \in Nat : \A t \in SUBSET (1 .. m) :
                        t # {} => \E x \in t : \A y \in t : x >= y}
<1>1. 0 \in Topped
  <2>1. 1 .. 0 = {}
    OBVIOUS
  <2>2. QED BY <2>1
<1>2. ASSUME NEW m \in Nat, m \in Topped PROVE m + 1 \in Topped
  <2> SUFFICES ASSUME NEW t \in SUBSET (1 .. m + 1), t # {}
               PROVE  \E x \in t : \A y \in t : x >= y
    OBVIOUS
  <2>1. CASE m + 1 \in t
    BY <2>1
  <2>2. CASE m + 1 \notin t
    <3>1. t \in SUBSET (1 .. m)
      BY <2>2
    <3>2. QED BY <1>2, <3>1
  <2>3. QED BY <2>1, <2>2
<1>3. n \in Topped
  <2> HIDE DEF Topped
  <2>1. QED BY <1>1, <1>2, Counting
<1>4. \E x \in s : \A y \in s : x >= y
  BY <1>3
<1>5. Max(s) \in s /\ \A y \in s : Max(s) >= y
  BY <1>4 DEF Max
<1>6. QED BY <1>5

\* The greatest number up to n is n.
LEMMA MaxOfInterval == ASSUME NEW n \in Nat, n # 0 PROVE Max(1 .. n) = n
<1>1. 1 .. n # {} /\ n \in 1 .. n /\ 1 .. n \in SUBSET (1 .. n)
  OBVIOUS
<1>2. Max(1 .. n) \in 1 .. n /\ n <= Max(1 .. n)
  BY <1>1, MaxOfSome
<1>3. QED BY <1>2

\* FoldLeft goes through a sequence of n elements by the greatest position
\* left, which takes the positions in their order.
FoldsUp(X, base, step, n, f) ==
    /\ f \in [SUBSET (1 .. n) -> X]
    /\ f = [s \in SUBSET (1 .. n) |->
              IF s = {} THEN base ELSE step[<<Max(s), f[s \ {Max(s)}]>>]]

\* So a fold over positions exists, whatever is folded.
LEMMA FoldingUp ==
    ASSUME NEW n \in Nat, NEW X, NEW base \in X, NEW step \in [(1 .. n) \X X -> X]
    PROVE  \E f : FoldsUp(X, base, step, n, f)
<1> DEFINE T == 1 .. n
           pick == [s \in SUBSET T |-> Max(s)]
<1>1. IsFiniteSet(T)
  BY FS_Interval
<1>2. \A s \in SUBSET T : s # {} => pick[s] \in s
  BY MaxOfSome
<1>3. step \in [T \X X -> X]
  OBVIOUS
<1>4. PICK f : Folds(T, X, base, step, pick, f)
  <2> HIDE DEF T, pick
  <2>1. QED BY <1>1, <1>2, <1>3, Folding
<1>5. f = [s \in SUBSET T |-> IF s = {} THEN base ELSE step[<<Max(s), f[s \ {Max(s)}]>>]]
  <2>1. \A s \in SUBSET T : pick[s] = Max(s)
    OBVIOUS
  <2> HIDE DEF T, pick
  <2>2. QED BY <1>4, <2>1 DEF Folds
<1>6. f \in [SUBSET T -> X]
  BY <1>4 DEF Folds
<1>7. QED BY <1>5, <1>6 DEF FoldsUp

\* Without its greatest, the first i positions are the first i - 1.
LEMMA IntervalSteps ==
    ASSUME NEW n \in Nat
    PROVE  /\ 1 .. 0 = {} /\ {} \in SUBSET (1 .. n)
           /\ \A i \in 1 .. n : /\ 1 .. i \in SUBSET (1 .. n) /\ 1 .. i # {}
                               /\ Max(1 .. i) = i /\ (1 .. i) \ {i} = 1 .. i - 1
<1>1. 1 .. 0 = {} /\ {} \in SUBSET (1 .. n)
  OBVIOUS
<1>2. ASSUME NEW i \in 1 .. n
      PROVE  /\ 1 .. i \in SUBSET (1 .. n) /\ 1 .. i # {}
             /\ Max(1 .. i) = i /\ (1 .. i) \ {i} = 1 .. i - 1
  BY MaxOfInterval
<1>3. QED BY <1>1, <1>2

-----------------------------------------------------------------------------
(* Lists.                                                                  *)

\* A fold in so many steps, each with the element at its position.
Runs(n, X, base, step, g) ==
    /\ g \in [0 .. n -> X]
    /\ g[0] = base
    /\ \A i \in 1 .. n : g[i] = step[<<i, g[i - 1]>>]

\* The folds of the first elements, one after the other.
LEMMA FoldRuns ==
    ASSUME NEW n \in Nat, NEW X, NEW base \in X, NEW step \in [(1 .. n) \X X -> X],
           NEW h, h[1 .. 0] = base,
           \A i \in 1 .. n : h[1 .. i - 1] \in X => h[1 .. i] = step[<<i, h[1 .. i - 1]>>]
    PROVE  Runs(n, X, base, step, [i \in 0 .. n |-> h[1 .. i]])
<1> DEFINE g == [i \in 0 .. n |-> h[1 .. i]]
           Good == {i \in Nat : i <= n => h[1 .. i] \in X}
<1>1. 0 \in Good
  OBVIOUS
<1>2. ASSUME NEW i \in Nat, i \in Good PROVE i + 1 \in Good
  <2> SUFFICES ASSUME i + 1 <= n PROVE h[1 .. i + 1] \in X
    OBVIOUS
  <2>1. i + 1 \in 1 .. n /\ (i + 1) - 1 = i /\ h[1 .. i] \in X
    BY <1>2
  <2>2. h[1 .. i + 1] = step[<<i + 1, h[1 .. i]>>]
    BY <2>1
  <2>3. QED BY <2>1, <2>2
<1> HIDE DEF Good
<1>3. Nat \subseteq Good
  BY <1>1, <1>2, Counting
<1>4. \A i \in 0 .. n : h[1 .. i] \in X
  BY <1>3 DEF Good
<1>5. g \in [0 .. n -> X] /\ g[0] = base
  BY <1>4
<1>6. ASSUME NEW i \in 1 .. n PROVE g[i] = step[<<i, g[i - 1]>>]
  <2>1. i - 1 \in 0 .. n /\ i \in 0 .. n
    OBVIOUS
  <2>2. h[1 .. i - 1] \in X
    BY <2>1, <1>4
  <2>3. QED BY <2>1, <2>2
<1> HIDE DEF g
<1>7. QED BY <1>5, <1>6 DEF Runs, g

-----------------------------------------------------------------------------
(* Lists filtered, extended and put one after the other.                   *)

\* A list continued by an element if it is in a set.
KeptIn(kept, e, S) == IF e \in S THEN Append(kept, e) ELSE kept

\* What is kept of the first elements, one after the other.
Filters(V, s, S, g) ==
    /\ g \in [0 .. Len(s) -> Seq(V)]
    /\ g[0] = <<>>
    /\ \A i \in 1 .. Len(s) : g[i] = KeptIn(g[i - 1], s[i], S)
    /\ Filter(s, S) = g[Len(s)]

\* Filter, element by element.
LEMMA FilterRuns == ASSUME NEW V, NEW s \in Seq(V), NEW S PROVE \E g : Filters(V, s, S, g)
<1> DEFINE n == Len(s)
           X == Seq(V)
           step == [p \in (1 .. n) \X X |-> KeptIn(p[2], s[p[1]], S)]
           Is(h) == h = [u \in SUBSET DOMAIN s |->
                           IF u = {} THEN <<>> ELSE KeptIn(h[u \ {Max(u)}], s[Max(u)], S)]
           h == CHOOSE h : Is(h)
<1>1. n \in Nat /\ DOMAIN s = 1 .. n /\ \A i \in 1 .. n : s[i] \in V
  OBVIOUS
<1>2. Filter(s, S) = h[DOMAIN s]
  BY DEF Filter, FoldLeft, MapThenFoldSet, KeptIn
<1> HIDE DEF n
<1>3. ASSUME NEW i \in 1 .. n, NEW kept \in X PROVE KeptIn(kept, s[i], S) \in X
  BY <1>1 DEF KeptIn
<1>4. <<>> \in X
  OBVIOUS
<1> HIDE DEF X
<1>5. step \in [(1 .. n) \X X -> X]
  BY <1>3
<1>6. \E g : Is(g)
  <2>2. PICK g : FoldsUp(X, <<>>, step, n, g)
    <3> HIDE DEF step
    <3>1. QED BY <1>1, <1>4, <1>5, FoldingUp
  <2>3. \A u \in SUBSET (1 .. n) : u # {} =>
            step[<<Max(u), g[u \ {Max(u)}]>>] = KeptIn(g[u \ {Max(u)}], s[Max(u)], S)
    <3> SUFFICES ASSUME NEW u \in SUBSET (1 .. n), u # {}
                 PROVE  step[<<Max(u), g[u \ {Max(u)}]>>] = KeptIn(g[u \ {Max(u)}], s[Max(u)], S)
      OBVIOUS
    <3>1. Max(u) \in 1 .. n
      BY <1>1, MaxOfSome
    <3>2. g[u \ {Max(u)}] \in X
      <4>1. u \ {Max(u)} \in SUBSET (1 .. n)
        OBVIOUS
      <4>2. QED BY <2>2, <4>1 DEF FoldsUp
    <3>3. QED BY <3>1, <3>2
  <2>4. g = [u \in SUBSET (1 .. n) |-> IF u = {} THEN <<>> ELSE step[<<Max(u), g[u \ {Max(u)}]>>]]
    BY <2>2 DEF FoldsUp
  <2>5. Is(g)
    <3> HIDE DEF step
    <3>1. QED BY <1>1, <2>3, <2>4
  <2>6. QED BY <2>5
<1>7. h = [u \in SUBSET (1 .. n) |->
             IF u = {} THEN <<>> ELSE KeptIn(h[u \ {Max(u)}], s[Max(u)], S)]
  <2>1. Is(h)
    BY <1>6
  <2> HIDE DEF h
  <2>2. QED BY <1>1, <2>1
<1> HIDE DEF h
<1>8. h[1 .. 0] = <<>>
  BY <1>1, <1>7, IntervalSteps
<1>9. ASSUME NEW i \in 1 .. n, h[1 .. i - 1] \in X
      PROVE  h[1 .. i] = step[<<i, h[1 .. i - 1]>>]
  <2>1. h[1 .. i] = KeptIn(h[1 .. i - 1], s[i], S)
    <3> DEFINE u == 1 .. i
    <3>1. u \in SUBSET (1 .. n) /\ u # {} /\ Max(u) = i /\ u \ {i} = 1 .. i - 1
      BY <1>1, IntervalSteps
    <3>2. h[u] = KeptIn(h[u \ {Max(u)}], s[Max(u)], S)
      <4> HIDE DEF u
      <4> QED BY <1>7, <3>1
    <3>3. QED BY <3>1, <3>2
  <2>2. QED BY <1>9, <2>1
<1> DEFINE g == [i \in 0 .. n |-> h[1 .. i]]
<1>10. Runs(n, X, <<>>, step, g)
  <2> HIDE DEF step
  <2>1. \A i \in 1 .. n : h[1 .. i - 1] \in X => h[1 .. i] = step[<<i, h[1 .. i - 1]>>]
    BY <1>9
  <2>2. n \in Nat
    BY <1>1
  <2> QED BY <1>4, <1>5, <1>8, <2>1, <2>2, FoldRuns
<1>11. g[n] = Filter(s, S)
  BY <1>1, <1>2
<1> HIDE DEF g
<1>12. ASSUME NEW i \in 1 .. n PROVE g[i] = KeptIn(g[i - 1], s[i], S)
  <2>1. g[i - 1] \in X
    BY <1>1, <1>10 DEF Runs
  <2>2. QED BY <1>10, <2>1 DEF Runs
<1>13. g \in [0 .. n -> X] /\ g[0] = <<>>
  BY <1>10 DEF Runs
<1>14. QED BY <1>11, <1>12, <1>13 DEF n, X, Filters

\* f is what is in S of the first m elements of s, found at the positions pos.
Selects(pos, s, m, S, f) ==
    /\ Len(f) \in Nat
    /\ pos \in [1 .. Len(f) -> 1 .. m]
    /\ f = [j \in 1 .. Len(f) |-> s[pos[j]]]
    /\ \A j, k \in 1 .. Len(f) : j < k => pos[j] < pos[k]
    /\ \A i \in 1 .. m : s[i] \in S <=> \E j \in 1 .. Len(f) : pos[j] = i

\* One more element is kept: its position comes last.
LEMMA SelectsMore ==
    ASSUME NEW V, NEW s \in Seq(V), NEW S, NEW m \in Nat, m + 1 <= Len(s), NEW f \in Seq(V),
           NEW pos, Selects(pos, s, m, S, f), s[m + 1] \in S
    PROVE  Selects([j \in 1 .. Len(f) + 1 |-> IF j = Len(f) + 1 THEN m + 1 ELSE pos[j]],
                   s, m + 1, S, Append(f, s[m + 1]))
<1> DEFINE n == Len(f)
           e == s[m + 1]
           g == Append(f, e)
           more == [j \in 1 .. n + 1 |-> IF j = n + 1 THEN m + 1 ELSE pos[j]]
<1>1. n \in Nat /\ e \in V
  OBVIOUS
<1>2. /\ g \in Seq(V) /\ Len(g) = n + 1
      /\ \A j \in 1 .. n : g[j] = f[j]
      /\ g[n + 1] = e
      /\ g = [j \in 1 .. n + 1 |-> g[j]]
  BY <1>1, Appended
<1>3. /\ pos \in [1 .. n -> 1 .. m]
      /\ \A j \in 1 .. n : f[j] = s[pos[j]]
      /\ \A j, k \in 1 .. n : j < k => pos[j] < pos[k]
      /\ \A i \in 1 .. m : s[i] \in S <=> \E j \in 1 .. n : pos[j] = i
  BY DEF Selects
<1> HIDE DEF g, n
<1>4. more \in [1 .. n + 1 -> 1 .. m + 1]
  BY <1>1, <1>3
<1>5. ASSUME NEW j \in 1 .. n + 1 PROVE g[j] = s[more[j]]
  <2>1. CASE j = n + 1
    BY <1>1, <1>2, <2>1
  <2>2. CASE j \in 1 .. n
    <3>1. more[j] = pos[j]
      BY <1>1, <2>2
    <3> HIDE DEF more, e
    <3>2. QED BY <1>2, <1>3, <2>2, <3>1
  <2>3. QED BY <1>1, <2>1, <2>2
<1>6. \A j, k \in 1 .. n + 1 : j < k => more[j] < more[k]
  BY <1>1, <1>3
<1>7. ASSUME NEW i \in 1 .. m + 1 PROVE s[i] \in S <=> \E j \in 1 .. n + 1 : more[j] = i
  <2>1. CASE i = m + 1
    <3>1. more[n + 1] = i /\ n + 1 \in 1 .. n + 1
      BY <1>1, <2>1
    <3>2. QED BY <2>1, <3>1
  <2>2. CASE i \in 1 .. m
    <3>1. \A j \in 1 .. n : j \in 1 .. n + 1 /\ more[j] = pos[j]
      BY <1>1
    <3>2. \A j \in 1 .. n + 1 : more[j] = i => j \in 1 .. n
      BY <1>1, <2>2
    <3>3. QED BY <1>3, <2>2, <3>1, <3>2
  <2>3. QED BY <2>1, <2>2
<1> HIDE DEF more
<1>8. g = [j \in 1 .. n + 1 |-> s[more[j]]]
  BY <1>2, <1>5
<1>9. Selects(more, s, m + 1, S, g)
  BY <1>1, <1>2, <1>4, <1>6, <1>7, <1>8 DEF Selects
<1>10. QED BY <1>9 DEF more, g, n

\* One more element is passed over.
LEMMA SelectsSame ==
    ASSUME NEW s, NEW S, NEW m \in Nat, NEW f, NEW pos, Selects(pos, s, m, S, f), s[m + 1] \notin S
    PROVE  Selects(pos, s, m + 1, S, f)
<1>1. /\ Len(f) \in Nat /\ pos \in [1 .. Len(f) -> 1 .. m]
      /\ \A i \in 1 .. m : s[i] \in S <=> \E j \in 1 .. Len(f) : pos[j] = i
  BY DEF Selects
<1>2. pos \in [1 .. Len(f) -> 1 .. m + 1]
  BY <1>1
<1>3. ASSUME NEW i \in 1 .. m + 1 PROVE s[i] \in S <=> \E j \in 1 .. Len(f) : pos[j] = i
  <2>1. CASE i = m + 1
    BY <1>1, <2>1
  <2>2. CASE i \in 1 .. m
    BY <1>1, <2>2
  <2>3. QED BY <2>1, <2>2
<1>4. QED BY <1>2, <1>3 DEF Selects

\* Two lists whose elements are kept at the same positions are filtered alike.
LEMMA FilterTwice ==
    ASSUME NEW V, NEW s \in Seq(V), NEW S, NEW W, NEW t \in Seq(W), NEW T, Len(s) = Len(t),
           \A i \in 1 .. Len(s) : s[i] \in S <=> t[i] \in T
    PROVE  /\ Filter(s, S) \in Seq(V) /\ Filter(t, T) \in Seq(W)
           /\ Len(Filter(s, S)) = Len(Filter(t, T))
           /\ \E pos : /\ Selects(pos, s, Len(s), S, Filter(s, S))
                       /\ Selects(pos, t, Len(s), T, Filter(t, T))
<1> DEFINE n == Len(s)
<1>1. PICK g : /\ g \in [0 .. n -> Seq(V)]
               /\ g[0] = <<>>
               /\ \A i \in 1 .. n : g[i] = KeptIn(g[i - 1], s[i], S)
               /\ Filter(s, S) = g[n]
  <2>1. \E g : Filters(V, s, S, g)
    BY FilterRuns
  <2>2. QED BY <2>1 DEF Filters
<1>2. PICK h : /\ h \in [0 .. n -> Seq(W)]
               /\ h[0] = <<>>
               /\ \A i \in 1 .. n : h[i] = KeptIn(h[i - 1], t[i], T)
               /\ Filter(t, T) = h[n]
  <2>1. \E h : Filters(W, t, T, h)
    BY FilterRuns
  <2>2. QED BY <2>1 DEF Filters
<1> DEFINE Alike(m, pos) == /\ Len(g[m]) = Len(h[m])
                            /\ Selects(pos, s, m, S, g[m]) /\ Selects(pos, t, m, T, h[m])
           Good == {m \in Nat : m <= n => \E pos : Alike(m, pos)}
<1>3. n \in Nat
  OBVIOUS
<1>4. 0 \in Good
  <2>1. Alike(0, <<>>)
    <3>1. g[0] = <<>> /\ h[0] = <<>>
      BY <1>1, <1>2
    <3>2. \A u, R : Selects(<<>>, u, 0, R, <<>>)
      BY DEF Selects
    <3>3. QED BY <3>1, <3>2
  <2>2. QED BY <2>1
<1>5. ASSUME NEW m \in Nat, m \in Good PROVE m + 1 \in Good
  <2> SUFFICES ASSUME m + 1 <= n PROVE \E pos : Alike(m + 1, pos)
    OBVIOUS
  <2>1. m + 1 \in 1 .. n /\ (m + 1) - 1 = m /\ m <= n /\ m \in 0 .. n /\ m + 1 \in 0 .. n
    BY <1>3
  <2>2. PICK pos : Alike(m, pos)
    BY <1>5, <2>1
  <2>3. /\ g[m] \in Seq(V) /\ h[m] \in Seq(W) /\ s[m + 1] \in V /\ t[m + 1] \in W
        /\ g[m + 1] = KeptIn(g[m], s[m + 1], S) /\ h[m + 1] = KeptIn(h[m], t[m + 1], T)
        /\ s[m + 1] \in S <=> t[m + 1] \in T
    BY <1>1, <1>2, <2>1
  <2>4. CASE s[m + 1] \in S
    <3> DEFINE more == [j \in 1 .. Len(g[m]) + 1 |->
                          IF j = Len(g[m]) + 1 THEN m + 1 ELSE pos[j]]
    <3>1. g[m + 1] = Append(g[m], s[m + 1]) /\ h[m + 1] = Append(h[m], t[m + 1])
      BY <2>3, <2>4 DEF KeptIn
    <3>2. Selects(more, s, m + 1, S, Append(g[m], s[m + 1]))
      BY <2>1, <2>2, <2>3, <2>4, SelectsMore
    <3>3. Selects(more, t, m + 1, T, Append(h[m], t[m + 1]))
      <4>1. more = [j \in 1 .. Len(h[m]) + 1 |->
                      IF j = Len(h[m]) + 1 THEN m + 1 ELSE pos[j]]
        BY <2>2
      <4> HIDE DEF more
      <4>2. QED BY <2>1, <2>2, <2>3, <2>4, <4>1, SelectsMore
    <3>4. Len(Append(g[m], s[m + 1])) = Len(Append(h[m], t[m + 1]))
      BY <2>2, <2>3, AppendProperties
    <3> HIDE DEF more
    <3>5. Alike(m + 1, more)
      BY <3>1, <3>2, <3>3, <3>4
    <3>6. QED BY <3>5
  <2>5. CASE s[m + 1] \notin S
    <3>1. g[m + 1] = g[m] /\ h[m + 1] = h[m]
      BY <2>3, <2>5 DEF KeptIn
    <3>2. Selects(pos, s, m + 1, S, g[m]) /\ Selects(pos, t, m + 1, T, h[m])
      BY <2>2, <2>3, <2>5, SelectsSame
    <3>3. Alike(m + 1, pos)
      BY <2>2, <3>1, <3>2
    <3>4. QED BY <3>3
  <2>6. QED BY <2>4, <2>5
<1> HIDE DEF Good
<1>6. n \in Good
  BY <1>3, <1>4, <1>5, Counting
<1>7. \E pos : Alike(n, pos)
  BY <1>3, <1>6 DEF Good
<1>8. g[n] \in Seq(V) /\ h[n] \in Seq(W)
  BY <1>1, <1>2, <1>3
<1>9. QED BY <1>1, <1>2, <1>7, <1>8

\* What is filtered is what is in the set, in the order it was in.
LEMMA FilterExact ==
    ASSUME NEW V, NEW s \in Seq(V), NEW S
    PROVE  /\ Filter(s, S) \in Seq(V)
           /\ ToSet(Filter(s, S)) = ToSet(s) \intersect S
           /\ \E pos : Selects(pos, s, Len(s), S, Filter(s, S))
<1> DEFINE f == Filter(s, S)
           n == Len(s)
<1>1. f \in Seq(V) /\ \E pos : Selects(pos, s, n, S, f)
  BY FilterTwice
<1>2. PICK pos : Selects(pos, s, n, S, f)
  BY <1>1
<1> HIDE DEF f
<1>3. /\ Len(f) \in Nat /\ DOMAIN f = 1 .. Len(f) /\ DOMAIN s = 1 .. n
      /\ pos \in [1 .. Len(f) -> 1 .. n]
      /\ \A j \in 1 .. Len(f) : f[j] = s[pos[j]]
      /\ \A i \in 1 .. n : s[i] \in S <=> \E j \in 1 .. Len(f) : pos[j] = i
  BY <1>1, <1>2 DEF Selects
<1> HIDE DEF n
<1>4. ToSet(f) = ToSet(s) \intersect S
  <2>1. ASSUME NEW e \in ToSet(f) PROVE e \in ToSet(s) /\ e \in S
    <3>1. PICK j \in 1 .. Len(f) : e = f[j]
      BY <1>3, <2>1 DEF ToSet
    <3>2. QED BY <1>3, <3>1 DEF ToSet
  <2>2. ASSUME NEW e \in ToSet(s), e \in S PROVE e \in ToSet(f)
    <3>1. PICK i \in 1 .. n : e = s[i]
      BY <1>3, <2>2 DEF ToSet
    <3>2. PICK j \in 1 .. Len(f) : pos[j] = i
      BY <1>3, <2>2, <3>1
    <3>3. QED BY <1>3, <3>1, <3>2 DEF ToSet
  <2>3. QED BY <2>1, <2>2
<1>5. QED BY <1>1, <1>2, <1>4 DEF f, n

\* A fold over positions exists.
LEMMA RunsExist ==
    ASSUME NEW n \in Nat, NEW X, NEW base \in X, NEW step \in [(1 .. n) \X X -> X]
    PROVE  \E g : Runs(n, X, base, step, g)
<1>1. PICK h : FoldsUp(X, base, step, n, h)
  BY FoldingUp
<1>2. h[1 .. 0] = base
  BY <1>1, IntervalSteps DEF FoldsUp
<1>3. ASSUME NEW i \in 1 .. n PROVE h[1 .. i] = step[<<i, h[1 .. i - 1]>>]
  <2> DEFINE u == 1 .. i
  <2>1. u \in SUBSET (1 .. n) /\ u # {} /\ Max(u) = i /\ u \ {i} = 1 .. i - 1
    BY IntervalSteps
  <2>2. h[u] = step[<<Max(u), h[u \ {Max(u)}]>>]
    <3> HIDE DEF u
    <3> QED BY <1>1, <2>1 DEF FoldsUp
  <2>3. QED BY <2>1, <2>2
<1> DEFINE g == [i \in 0 .. n |-> h[1 .. i]]
<1>4. Runs(n, X, base, step, g)
  <2>1. \A i \in 1 .. n : h[1 .. i - 1] \in X => h[1 .. i] = step[<<i, h[1 .. i - 1]>>]
    BY <1>3
  <2>2. QED BY <1>2, <2>1, FoldRuns
<1> HIDE DEF g
<1>5. QED BY <1>4

\* The lists that FlattenSeq goes through.
Flattens(V, ss, g) ==
    /\ g \in [0 .. Len(ss) -> Seq(V)]
    /\ g[0] = <<>>
    /\ \A i \in 1 .. Len(ss) : g[i] = g[i - 1] \o ss[i]
    /\ FlattenSeq(ss) = g[Len(ss)]

\* FlattenSeq, list by list.
LEMMA FlattenRuns == ASSUME NEW V, NEW ss \in Seq(Seq(V)) PROVE \E g : Flattens(V, ss, g)
<1> DEFINE n == Len(ss)
           X == Seq(V)
           step == [p \in (1 .. n) \X X |-> p[2] \o ss[p[1]]]
           Is(h) == h = [i \in 1 .. Len(ss) |-> IF i = 1 THEN ss[i] ELSE h[i - 1] \o ss[i]]
           h == CHOOSE h : Is(h)
<1>1. n \in Nat /\ \A i \in 1 .. n : ss[i] \in X
  OBVIOUS
<1>2. FlattenSeq(ss) = IF n = 0 THEN ss ELSE h[n]
  BY DEF FlattenSeq
<1>3. n = 0 => ss = <<>>
  BY EmptySeq
<1> HIDE DEF n
<1>4. step \in [(1 .. n) \X X -> X] /\ <<>> \in X
  BY <1>1, ConcatProperties
<1>5. PICK g : Runs(n, X, <<>>, step, g)
  <2> HIDE DEF step, X
  <2> QED BY <1>1, <1>4, RunsExist
<1>6. /\ g \in [0 .. n -> X] /\ g[0] = <<>>
      /\ \A i \in 1 .. n : g[i - 1] \in X /\ g[i] = g[i - 1] \o ss[i]
  <2>1. g \in [0 .. n -> X] /\ g[0] = <<>> /\ \A i \in 1 .. n : g[i] = step[<<i, g[i - 1]>>]
    <3> HIDE DEF step, X
    <3> QED BY <1>5 DEF Runs
  <2>2. \A i \in 1 .. n : i - 1 \in 0 .. n
    BY <1>1
  <2> HIDE DEF X
  <2>3. \A i \in 1 .. n : g[i - 1] \in X
    BY <2>1, <2>2
  <2>4. QED BY <2>1, <2>3
<1>7. \E f : Is(f)
  <2> DEFINE f == [i \in 1 .. n |-> g[i]]
  <2>1. ASSUME NEW i \in 1 .. n PROVE f[i] = IF i = 1 THEN ss[i] ELSE f[i - 1] \o ss[i]
    <3>1. CASE i = 1
      <4>1. g[1] = <<>> \o ss[1] /\ ss[1] \in X
        <5> HIDE DEF X, step, h
        <5>1. i - 1 = 0
          BY <3>1
        <5>2. g[i] = g[i - 1] \o ss[i] /\ ss[i] \in X
          BY <1>1, <1>6
        <5>3. QED BY <1>6, <3>1, <5>1, <5>2
      <4>2. <<>> \o ss[1] = ss[1]
        BY <4>1, ConcatEmptySeq
      <4>3. QED BY <3>1, <4>1, <4>2
    <3>2. CASE i # 1
      <4>1. i - 1 \in 1 .. n
        BY <1>1, <3>2
      <4>2. QED BY <1>6, <3>2, <4>1
    <3>3. QED BY <3>1, <3>2
  <2>2. Is(f)
    <3>1. f = [i \in 1 .. n |-> IF i = 1 THEN ss[i] ELSE f[i - 1] \o ss[i]]
      BY <2>1
    <3> HIDE DEF f
    <3>2. QED BY <3>1 DEF n
  <2> HIDE DEF f
  <2>3. QED BY <2>2
<1>8. h = [i \in 1 .. n |-> IF i = 1 THEN ss[i] ELSE h[i - 1] \o ss[i]]
  <2>1. Is(h)
    BY <1>7
  <2> HIDE DEF h
  <2>2. QED BY <2>1 DEF n
<1> HIDE DEF h, step, X
<1> DEFINE Good == {i \in Nat : 1 <= i /\ i <= n => h[i] = g[i]}
<1>9. 0 \in Good
  OBVIOUS
<1>10. ASSUME NEW i \in Nat, i \in Good PROVE i + 1 \in Good
  <2> SUFFICES ASSUME i + 1 <= n PROVE h[i + 1] = g[i + 1]
    OBVIOUS
  <2>1. i + 1 \in 1 .. n /\ (i + 1) - 1 = i
    BY <1>1
  <2>2. CASE i = 0
    <3>1. h[1] = ss[1] /\ g[1] = <<>> \o ss[1] /\ ss[1] \in X
      <4>1. 1 \in 1 .. n /\ 1 - 1 = 0
        BY <2>1, <2>2
      <4>2. g[1] = g[1 - 1] \o ss[1] /\ ss[1] \in X
        BY <1>1, <1>6, <4>1
      <4>3. h[1] = ss[1]
        BY <1>8, <4>1
      <4>4. QED BY <1>6, <4>1, <4>2, <4>3
    <3>2. <<>> \o ss[1] = ss[1]
      BY <3>1, ConcatEmptySeq DEF X
    <3>3. QED BY <2>2, <3>1, <3>2
  <2>3. CASE i # 0
    <3>1. h[i] = g[i]
      BY <1>1, <1>10, <2>1, <2>3
    <3>2. h[i + 1] = h[i] \o ss[i + 1]
      <4>1. i + 1 # 1
        BY <2>3
      <4>2. h[i + 1] = h[(i + 1) - 1] \o ss[i + 1]
        BY <1>8, <2>1, <4>1
      <4>3. QED BY <2>1, <4>2
    <3>3. g[i + 1] = g[i] \o ss[i + 1]
      BY <1>6, <2>1
    <3>4. QED BY <3>1, <3>2, <3>3
  <2>4. QED BY <2>2, <2>3
<1> HIDE DEF Good
<1>11. n \in Good
  BY <1>1, <1>9, <1>10, Counting
<1>12. FlattenSeq(ss) = g[n]
  <2>1. CASE n = 0
    BY <1>2, <1>3, <1>6, <2>1
  <2>2. CASE n # 0
    BY <1>1, <1>2, <1>11, <2>2 DEF Good
  <2>3. QED BY <2>1, <2>2
<1>13. QED BY <1>6, <1>12 DEF Flattens, n, X

\* A list of values.
IsTuple(t) == t \in Seq(ToSet(t))

\* Tuples are the same if they are equal and have only numbers.
LEMMA SameTupleExact ==
    ASSUME NEW s, IsTuple(s), NEW t, IsTuple(t)
    PROVE  SameTuple(s, t) <=> s = t /\ \A i \in DOMAIN s : s[i] # NaN
<1>1. /\ Len(s) \in Nat /\ DOMAIN s = 1 .. Len(s) /\ s = [i \in 1 .. Len(s) |-> s[i]]
      /\ Len(t) \in Nat /\ DOMAIN t = 1 .. Len(t) /\ t = [i \in 1 .. Len(t) |-> t[i]]
  BY DEF IsTuple
<1>2. ASSUME SameTuple(s, t) PROVE s = t /\ \A i \in DOMAIN s : s[i] # NaN
  <2>1. Len(s) = Len(t) /\ \A i \in DOMAIN s : s[i] = t[i] /\ s[i] # NaN
    BY <1>2 DEF SameTuple, Same
  <2>2. QED BY <1>1, <2>1
<1>3. ASSUME s = t, \A i \in DOMAIN s : s[i] # NaN PROVE SameTuple(s, t)
  BY <1>3 DEF SameTuple, Same
<1>4. QED BY <1>2, <1>3

\* The elements of two lists in a row.
LEMMA ElementsConcat ==
    ASSUME NEW S, NEW s \in Seq(S), NEW t \in Seq(S)
    PROVE  ToSet(s \o t) = ToSet(s) \union ToSet(t)
<1> DEFINE m == Len(s)
           n == Len(t)
           u == s \o t
<1>1. /\ m \in Nat /\ n \in Nat /\ DOMAIN s = 1 .. m /\ DOMAIN t = 1 .. n
      /\ DOMAIN u = 1 .. m + n
      /\ \A i \in 1 .. m + n : u[i] = IF i <= m THEN s[i] ELSE t[i - m]
  BY ConcatProperties, LenProperties
<1> HIDE DEF m, n, u
<1>2. \A i \in 1 .. m : i \in 1 .. m + n /\ u[i] = s[i]
  BY <1>1
<1>3. \A i \in 1 .. n : m + i \in 1 .. m + n /\ u[m + i] = t[i]
  BY <1>1
<1>4. \A i \in 1 .. m + n : i \in 1 .. m \/ (i - m \in 1 .. n /\ u[i] = t[i - m])
  BY <1>1
<1>5. ToSet(u) = {u[i] : i \in 1 .. m + n} /\ ToSet(s) = {s[i] : i \in 1 .. m} /\ ToSet(t) = {t[i] : i \in 1 .. n}
  BY <1>1 DEF ToSet
<1>6. ToSet(s) \subseteq ToSet(u) /\ ToSet(t) \subseteq ToSet(u)
  BY <1>2, <1>3, <1>5
<1>7. ToSet(u) \subseteq ToSet(s) \union ToSet(t)
  BY <1>2, <1>4, <1>5
<1>8. QED BY <1>6, <1>7 DEF u

\* No element of one list is the same tuple as one of the other.
Foreign(a, b) == \A x \in ToSet(a), y \in ToSet(b) : ~ SameTuple(x, y) /\ ~ SameTuple(y, x)

\* Two lists without duplicates that share nothing have none together.
LEMMA DistinctConcat ==
    ASSUME NEW V, NEW a \in Seq(V), NEW b \in Seq(V), Distinct(a), Distinct(b), Foreign(a, b)
    PROVE  Distinct(a \o b)
<1> DEFINE m == Len(a)
           n == Len(b)
           u == a \o b
<1>1. /\ m \in Nat /\ n \in Nat /\ DOMAIN a = 1 .. m /\ DOMAIN b = 1 .. n
      /\ DOMAIN u = 1 .. m + n
      /\ \A i \in 1 .. m + n : u[i] = IF i <= m THEN a[i] ELSE b[i - m]
  BY ConcatProperties
<1> HIDE DEF u, m, n
<1>2. \A i \in 1 .. m : a[i] \in ToSet(a)
  BY <1>1 DEF ToSet
<1>3. \A j \in 1 .. n : b[j] \in ToSet(b)
  BY <1>1 DEF ToSet
<1>4. SUFFICES ASSUME NEW i \in 1 .. m + n, NEW j \in 1 .. m + n, i # j
               PROVE  ~ SameTuple(u[i], u[j])
  BY <1>1 DEF Distinct, u
<1>5. CASE i <= m /\ j <= m
  <2>1. i \in 1 .. m /\ j \in 1 .. m /\ u[i] = a[i] /\ u[j] = a[j]
    BY <1>1, <1>5
  <2>2. QED BY <1>1, <1>4, <2>1 DEF Distinct
<1>6. CASE ~ i <= m /\ ~ j <= m
  <2>1. i - m \in 1 .. n /\ j - m \in 1 .. n /\ u[i] = b[i - m] /\ u[j] = b[j - m] /\ i - m # j - m
    BY <1>1, <1>4, <1>6
  <2>2. QED BY <1>1, <2>1 DEF Distinct
<1>7. CASE i <= m /\ ~ j <= m
  <2>1. i \in 1 .. m /\ j - m \in 1 .. n /\ u[i] = a[i] /\ u[j] = b[j - m]
    BY <1>1, <1>7
  <2>2. QED BY <1>2, <1>3, <2>1 DEF Foreign
<1>8. CASE ~ i <= m /\ j <= m
  <2>1. i - m \in 1 .. n /\ j \in 1 .. m /\ u[i] = b[i - m] /\ u[j] = a[j]
    BY <1>1, <1>8
  <2>2. QED BY <1>2, <1>3, <2>1 DEF Foreign
<1>9. QED BY <1>5, <1>6, <1>7, <1>8

\* Lists flattened have the elements of all, and no duplicates if each has
\* none and they share nothing.
LEMMA FlattenExact ==
    ASSUME NEW V, NEW ss \in Seq(Seq(V))
    PROVE  /\ FlattenSeq(ss) \in Seq(V)
           /\ ToSet(FlattenSeq(ss)) = UNION {ToSet(ss[i]) : i \in 1 .. Len(ss)}
           /\ (\A i \in 1 .. Len(ss) : Distinct(ss[i])) /\
              (\A i, j \in 1 .. Len(ss) : i # j => Foreign(ss[i], ss[j]))
                 => Distinct(FlattenSeq(ss))
<1> DEFINE n == Len(ss)
<1>1. PICK g : Flattens(V, ss, g)
  BY FlattenRuns
<1>2. /\ n \in Nat /\ \A i \in 1 .. n : ss[i] \in Seq(V)
      /\ g \in [0 .. n -> Seq(V)] /\ g[0] = <<>>
      /\ \A i \in 1 .. n : g[i] = g[i - 1] \o ss[i]
      /\ FlattenSeq(ss) = g[n]
  <2>1. n \in Nat /\ \A i \in 1 .. n : ss[i] \in Seq(V)
    OBVIOUS
  <2> HIDE DEF n
  <2>2. QED BY <1>1, <2>1 DEF Flattens, n
<1> HIDE DEF n
<1> DEFINE Apart == /\ \A i \in 1 .. n : Distinct(ss[i])
                    /\ \A i, j \in 1 .. n : i # j => Foreign(ss[i], ss[j])
           All(m) == UNION {ToSet(ss[i]) : i \in 1 .. m}
           Good == {m \in Nat : m <= n => ToSet(g[m]) = All(m) /\ (Apart => Distinct(g[m]))}
<1>3. 0 \in Good
  <2>1. ToSet(<<>>) = {} /\ Distinct(<<>>)
    BY DEF ToSet, Distinct
  <2>2. QED BY <1>2, <2>1
<1>4. ASSUME NEW m \in Nat, m \in Good PROVE m + 1 \in Good
  <2> SUFFICES ASSUME m + 1 <= n
               PROVE  ToSet(g[m + 1]) = All(m + 1) /\ (Apart => Distinct(g[m + 1]))
    OBVIOUS
  <2>1. /\ m + 1 \in 1 .. n /\ (m + 1) - 1 = m /\ m \in 0 .. n
        /\ 1 .. m + 1 = (1 .. m) \union {m + 1}
        /\ ToSet(g[m]) = All(m) /\ (Apart => Distinct(g[m]))
    <3>1. m + 1 \in 1 .. n /\ (m + 1) - 1 = m /\ m \in 0 .. n /\ m <= n
      BY <1>2
    <3>2. 1 .. m + 1 = (1 .. m) \union {m + 1}
      OBVIOUS
    <3> HIDE DEF All, Apart
    <3>3. QED BY <1>4, <3>1, <3>2
  <2>2. g[m] \in Seq(V) /\ ss[m + 1] \in Seq(V) /\ g[m + 1] = g[m] \o ss[m + 1]
    BY <1>2, <2>1
  <2>3. All(m + 1) = All(m) \union ToSet(ss[m + 1])
    BY <2>1
  <2>4. ToSet(g[m + 1]) = All(m + 1)
    <3>1. ToSet(g[m] \o ss[m + 1]) = ToSet(g[m]) \union ToSet(ss[m + 1])
      BY <2>2, ElementsConcat
    <3> HIDE DEF All
    <3>2. QED BY <2>1, <2>2, <2>3, <3>1
  <2>5. ASSUME Apart PROVE Distinct(g[m + 1])
    <3>1. Distinct(g[m]) /\ Distinct(ss[m + 1])
      BY <2>1, <2>5
    <3>2. Foreign(g[m], ss[m + 1])
      <4> SUFFICES ASSUME NEW x \in ToSet(g[m]), NEW y \in ToSet(ss[m + 1])
                   PROVE  ~ SameTuple(x, y) /\ ~ SameTuple(y, x)
        BY DEF Foreign
      <4>1. PICK i \in 1 .. m : x \in ToSet(ss[i])
        BY <2>1
      <4>2. i \in 1 .. n /\ i # m + 1
        <5>1. m \in 0 .. n /\ n \in Nat
          BY <1>2, <2>1
        <5> HIDE DEF n
        <5>2. QED BY <5>1
      <4>3. Foreign(ss[i], ss[m + 1])
        BY <2>1, <2>5, <4>2
      <4>4. QED BY <4>1, <4>3 DEF Foreign
    <3>3. QED BY <2>2, <3>1, <3>2, DistinctConcat
  <2>6. QED BY <2>4, <2>5
<1> HIDE DEF Good
<1>5. n \in Good
  BY <1>2, <1>3, <1>4, Counting
<1>6. ToSet(g[n]) = All(n) /\ (Apart => Distinct(g[n]))
  BY <1>2, <1>5 DEF Good
<1>7. QED BY <1>2, <1>6 DEF n

\* A list and one element more.
LEMMA ElementsAppend ==
    ASSUME NEW S, NEW s \in Seq(S), NEW e \in S
    PROVE  ToSet(Append(s, e)) = ToSet(s) \union {e}
<1>1. Append(s, e) = s \o <<e>> /\ <<e>> \in Seq(S)
  BY AppendIsConcat
<1>2. ToSet(<<e>>) = {e}
  BY DEF ToSet
<1> DEFINE one == <<e>>
<1> HIDE DEF one
<1>3. ToSet(s \o one) = ToSet(s) \union ToSet(one)
  BY <1>1, ElementsConcat DEF one
<1>4. QED BY <1>1, <1>2, <1>3 DEF one

\* What is filtered has duplicates only if what it was in has them.
LEMMA FilterDistinct ==
    ASSUME NEW V, NEW s \in Seq(V), NEW S, Distinct(s)
    PROVE  Distinct(Filter(s, S))
<1> DEFINE f == Filter(s, S)
<1>1. f \in Seq(V) /\ \E pos : Selects(pos, s, Len(s), S, f)
  BY FilterExact
<1> HIDE DEF f
<1>2. PICK pos : Selects(pos, s, Len(s), S, f)
  BY <1>1
<1>3. /\ Len(f) \in Nat /\ DOMAIN f = 1 .. Len(f)
      /\ pos \in [1 .. Len(f) -> DOMAIN s]
      /\ \A j \in 1 .. Len(f) : f[j] = s[pos[j]]
      /\ \A j, k \in 1 .. Len(f) : j < k => pos[j] < pos[k]
  BY <1>1, <1>2 DEF Selects
<1>4. SUFFICES ASSUME NEW j \in 1 .. Len(f), NEW k \in 1 .. Len(f), j # k
               PROVE  ~ SameTuple(f[j], f[k])
  BY <1>3 DEF Distinct, f
<1>5. DOMAIN s \subseteq Nat
  OBVIOUS
<1>6. pos[j] # pos[k]
  BY <1>3, <1>4, <1>5
<1>7. QED BY <1>3, <1>6 DEF Distinct

\* A list continued by a tuple that is not there yet.
AddedTo(seen, t) == IF contains(seen, t) THEN seen ELSE Append(seen, t)

\* The lists that AddNew goes through.
Adds(V, a, b, g) ==
    /\ g \in [0 .. Len(b) -> Seq(V)]
    /\ g[0] = a
    /\ \A i \in 1 .. Len(b) : g[i] = AddedTo(g[i - 1], b[i])
    /\ AddNew(a, b) = g[Len(b)]

\* AddNew, tuple by tuple.
LEMMA AddNewRuns ==
    ASSUME NEW V, NEW a \in Seq(V), NEW b \in Seq(V)
    PROVE  \E g : Adds(V, a, b, g)
<1> DEFINE n == Len(b)
           X == Seq(V)
           step == [p \in (1 .. n) \X X |-> AddedTo(p[2], b[p[1]])]
           Is(h) == h = [u \in SUBSET DOMAIN b |->
                           IF u = {} THEN a ELSE AddedTo(h[u \ {Max(u)}], b[Max(u)])]
           h == CHOOSE h : Is(h)
<1>1. n \in Nat /\ DOMAIN b = 1 .. n /\ \A i \in 1 .. n : b[i] \in V
  OBVIOUS
<1>2. AddNew(a, b) = h[DOMAIN b]
  BY DEF AddNew, FoldLeft, MapThenFoldSet, AddedTo
<1> HIDE DEF n
<1>3. ASSUME NEW i \in 1 .. n, NEW seen \in X PROVE AddedTo(seen, b[i]) \in X
  BY <1>1 DEF AddedTo
<1>4. a \in X
  OBVIOUS
<1> HIDE DEF X
<1>5. step \in [(1 .. n) \X X -> X]
  BY <1>3
<1>6. \E g : Is(g)
  <2>2. PICK g : FoldsUp(X, a, step, n, g)
    <3> HIDE DEF step
    <3>1. QED BY <1>1, <1>4, <1>5, FoldingUp
  <2>3. \A u \in SUBSET (1 .. n) : u # {} =>
            step[<<Max(u), g[u \ {Max(u)}]>>] = AddedTo(g[u \ {Max(u)}], b[Max(u)])
    <3> SUFFICES ASSUME NEW u \in SUBSET (1 .. n), u # {}
                 PROVE  step[<<Max(u), g[u \ {Max(u)}]>>] = AddedTo(g[u \ {Max(u)}], b[Max(u)])
      OBVIOUS
    <3>1. Max(u) \in 1 .. n
      BY <1>1, MaxOfSome
    <3>2. g[u \ {Max(u)}] \in X
      <4>1. u \ {Max(u)} \in SUBSET (1 .. n)
        OBVIOUS
      <4>2. QED BY <2>2, <4>1 DEF FoldsUp
    <3>3. QED BY <3>1, <3>2
  <2>4. g = [u \in SUBSET (1 .. n) |-> IF u = {} THEN a ELSE step[<<Max(u), g[u \ {Max(u)}]>>]]
    BY <2>2 DEF FoldsUp
  <2>5. Is(g)
    <3> HIDE DEF step
    <3>1. QED BY <1>1, <2>3, <2>4
  <2>6. QED BY <2>5
<1>7. h = [u \in SUBSET (1 .. n) |->
             IF u = {} THEN a ELSE AddedTo(h[u \ {Max(u)}], b[Max(u)])]
  <2>1. Is(h)
    BY <1>6
  <2> HIDE DEF h
  <2>2. QED BY <1>1, <2>1
<1> HIDE DEF h
<1>8. h[1 .. 0] = a
  BY <1>1, <1>7, IntervalSteps
<1>9. ASSUME NEW i \in 1 .. n, h[1 .. i - 1] \in X
      PROVE  h[1 .. i] = step[<<i, h[1 .. i - 1]>>]
  <2>1. h[1 .. i] = AddedTo(h[1 .. i - 1], b[i])
    <3> DEFINE u == 1 .. i
    <3>1. u \in SUBSET (1 .. n) /\ u # {} /\ Max(u) = i /\ u \ {i} = 1 .. i - 1
      BY <1>1, IntervalSteps
    <3>2. h[u] = AddedTo(h[u \ {Max(u)}], b[Max(u)])
      <4> HIDE DEF u
      <4> QED BY <1>7, <3>1
    <3>3. QED BY <3>1, <3>2
  <2>2. QED BY <1>9, <2>1
<1> DEFINE g == [i \in 0 .. n |-> h[1 .. i]]
<1>10. Runs(n, X, a, step, g)
  <2> HIDE DEF step
  <2>1. \A i \in 1 .. n : h[1 .. i - 1] \in X => h[1 .. i] = step[<<i, h[1 .. i - 1]>>]
    BY <1>9
  <2>2. n \in Nat
    BY <1>1
  <2> QED BY <1>4, <1>5, <1>8, <2>1, <2>2, FoldRuns
<1>11. g[n] = AddNew(a, b)
  BY <1>1, <1>2
<1> HIDE DEF g
<1>12. ASSUME NEW i \in 1 .. n PROVE g[i] = AddedTo(g[i - 1], b[i])
  <2>1. g[i - 1] \in X
    BY <1>1, <1>10 DEF Runs
  <2>2. QED BY <1>10, <2>1 DEF Runs
<1>13. g \in [0 .. n -> X] /\ g[0] = a
  BY <1>10 DEF Runs
<1>14. QED BY <1>11, <1>12, <1>13 DEF n, X, Adds

\* One tuple more, unless it is there.
LEMMA AddedExact ==
    ASSUME NEW V, \A t \in V : IsTuple(t), NEW a \in Seq(V), NEW t \in V
    PROVE  /\ AddedTo(a, t) \in Seq(V)
           /\ ToSet(AddedTo(a, t)) = ToSet(a) \union {t}
           /\ Distinct(a) => Distinct(AddedTo(a, t))
<1>1. \A e \in ToSet(a) : e \in V
  BY DEF ToSet
<1>2. CASE contains(a, t)
  <2>1. PICK i \in DOMAIN a : SameTuple(a[i], t)
    BY <1>2 DEF contains
  <2>2. a[i] \in ToSet(a)
    BY DEF ToSet
  <2>3. a[i] = t
    BY <1>1, <2>1, <2>2, SameTupleExact
  <2>4. QED BY <1>2, <2>2, <2>3 DEF AddedTo
<1>3. CASE ~ contains(a, t)
  <2>1. AddedTo(a, t) = Append(a, t)
    BY <1>3 DEF AddedTo
  <2>2. Append(a, t) \in Seq(V) /\ ToSet(Append(a, t)) = ToSet(a) \union {t}
    BY AppendProperties, ElementsAppend
  <2>3. ASSUME Distinct(a) PROVE Distinct(Append(a, t))
    <3>1. Append(a, t) = a \o <<t>> /\ <<t>> \in Seq(V)
      BY AppendIsConcat
    <3>2. Distinct(<<t>>) /\ ToSet(<<t>>) = {t}
      BY DEF Distinct, ToSet
    <3>3. ASSUME NEW x \in ToSet(a) PROVE ~ SameTuple(x, t) /\ ~ SameTuple(t, x)
      <4>1. ~ SameTuple(x, t)
        BY <1>3 DEF contains, ToSet
      <4>2. QED BY <1>1, <4>1, SameTupleExact
    <3>4. Foreign(a, <<t>>)
      BY <3>2, <3>3 DEF Foreign
    <3>5. QED BY <2>3, <3>1, <3>2, <3>4, DistinctConcat
  <2>4. QED BY <2>1, <2>2, <2>3
<1>4. QED BY <1>2, <1>3

\* AddNew unites two lists, without a duplicate that was not there.
LEMMA AddNewExact ==
    ASSUME NEW V, \A t \in V : IsTuple(t), NEW a \in Seq(V), NEW b \in Seq(V)
    PROVE  /\ AddNew(a, b) \in Seq(V)
           /\ ToSet(AddNew(a, b)) = ToSet(a) \union ToSet(b)
           /\ Distinct(a) => Distinct(AddNew(a, b))
<1> DEFINE n == Len(b)
<1>1. PICK g : Adds(V, a, b, g)
  BY AddNewRuns
<1>2. /\ n \in Nat /\ DOMAIN b = 1 .. n /\ \A i \in 1 .. n : b[i] \in V
      /\ g \in [0 .. n -> Seq(V)] /\ g[0] = a
      /\ \A i \in 1 .. n : g[i] = AddedTo(g[i - 1], b[i])
      /\ AddNew(a, b) = g[n]
  <2>1. n \in Nat /\ DOMAIN b = 1 .. n /\ \A i \in 1 .. n : b[i] \in V
    OBVIOUS
  <2> HIDE DEF n
  <2>2. QED BY <1>1, <2>1 DEF Adds, n
<1> HIDE DEF n
<1> DEFINE Got(m) == ToSet(a) \union {b[i] : i \in 1 .. m}
           Good == {m \in Nat : m <= n =>
                      ToSet(g[m]) = Got(m) /\ (Distinct(a) => Distinct(g[m]))}
<1>3. 0 \in Good
  BY <1>2
<1>4. ASSUME NEW m \in Nat, m \in Good PROVE m + 1 \in Good
  <2> SUFFICES ASSUME m + 1 <= n
               PROVE  ToSet(g[m + 1]) = Got(m + 1) /\ (Distinct(a) => Distinct(g[m + 1]))
    OBVIOUS
  <2>1. /\ m + 1 \in 1 .. n /\ (m + 1) - 1 = m /\ m \in 0 .. n
        /\ 1 .. m + 1 = (1 .. m) \union {m + 1}
        /\ ToSet(g[m]) = Got(m) /\ (Distinct(a) => Distinct(g[m]))
    <3> HIDE DEF Got
    <3>1. m <= n /\ m + 1 \in 1 .. n /\ (m + 1) - 1 = m /\ m \in 0 .. n
      BY <1>2
    <3>2. 1 .. m + 1 = (1 .. m) \union {m + 1}
      BY <1>2
    <3>3. ToSet(g[m]) = Got(m) /\ (Distinct(a) => Distinct(g[m]))
      BY <1>4, <3>1
    <3>4. QED BY <3>1, <3>2, <3>3
  <2>2. g[m] \in Seq(V) /\ b[m + 1] \in V /\ g[m + 1] = AddedTo(g[m], b[m + 1])
    BY <1>2, <2>1
  <2>3. Got(m + 1) = Got(m) \union {b[m + 1]}
    BY <2>1
  <2>4. /\ ToSet(g[m + 1]) = ToSet(g[m]) \union {b[m + 1]}
        /\ Distinct(g[m]) => Distinct(g[m + 1])
    <3> DEFINE seen == g[m]
               e == b[m + 1]
    <3>1. seen \in Seq(V) /\ e \in V
      BY <2>2
    <3> HIDE DEF seen, e, Got, Good
    <3>2. /\ ToSet(AddedTo(seen, e)) = ToSet(seen) \union {e}
          /\ Distinct(seen) => Distinct(AddedTo(seen, e))
      BY <3>1, AddedExact
    <3>3. QED BY <2>2, <3>2 DEF seen, e
  <2> HIDE DEF Got
  <2>5. QED BY <2>1, <2>3, <2>4
<1> HIDE DEF Good
<1>5. n \in Good
  BY <1>2, <1>3, <1>4, Counting
<1>6. ToSet(g[n]) = Got(n) /\ (Distinct(a) => Distinct(g[n]))
  BY <1>2, <1>5 DEF Good
<1>7. Got(n) = ToSet(a) \union ToSet(b)
  BY <1>2 DEF ToSet
<1> HIDE DEF Got
<1>8. g[n] \in Seq(V)
  BY <1>2
<1>9. QED BY <1>2, <1>6, <1>7, <1>8

-----------------------------------------------------------------------------
(* Powers of two and division.                                             *)

\* A power of two counts the subsets of a finite set.
LEMMA PowerIsNat == ASSUME NEW n \in Nat PROVE 2^n \in Nat \ {0}
<1>1. IsFiniteSet(1 .. n) /\ Cardinality(1 .. n) = n
  BY FS_Interval
<1>2. IsFiniteSet(SUBSET (1 .. n)) /\ Cardinality(SUBSET (1 .. n)) = 2^n
  BY <1>1, FS_SUBSET
<1>3. Cardinality(SUBSET (1 .. n)) \in Nat /\ Cardinality(SUBSET (1 .. n)) # 0
  BY <1>2, FS_CardinalityType, FS_EmptySet
<1>4. QED BY <1>2, <1>3

\* The empty set has one subset.
LEMMA PowerOfZero == 2^0 = 1
<1>1. IsFiniteSet({}) /\ Cardinality({}) = 0
  BY FS_EmptySet
<1>2. Cardinality(SUBSET {}) = 2^0
  BY <1>1, FS_SUBSET
<1>3. SUBSET {} = {{}}
  OBVIOUS
<1>4. Cardinality({{}}) = 1
  BY FS_Singleton
<1>5. QED BY <1>2, <1>3, <1>4

\* One element more doubles the subsets: those without it and those with it.
LEMMA PowerStep == ASSUME NEW n \in Nat PROVE 2^(n + 1) = 2 * 2^n
<1> DEFINE S == SUBSET (1 .. n)
           T == {s \union {n + 1} : s \in S}
           f == [s \in S |-> s \union {n + 1}]
<1>1. IsFiniteSet(1 .. n) /\ Cardinality(1 .. n) = n
  BY FS_Interval
<1>2. IsFiniteSet(S) /\ Cardinality(S) = 2^n
  BY <1>1, FS_SUBSET
<1>3. IsFiniteSet(1 .. n + 1) /\ Cardinality(1 .. n + 1) = n + 1
  BY FS_Interval
<1>4. IsFiniteSet(SUBSET (1 .. n + 1)) /\ Cardinality(SUBSET (1 .. n + 1)) = 2^(n + 1)
  BY <1>3, FS_SUBSET
<1>5. SUBSET (1 .. n + 1) = S \union T
  <2>1. ASSUME NEW u \in SUBSET (1 .. n + 1), u \notin S PROVE u \in T
    <3>1. n + 1 \in u /\ u \ {n + 1} \in S
      BY <2>1
    <3>2. u = (u \ {n + 1}) \union {n + 1}
      BY <3>1
    <3>3. QED BY <3>1, <3>2
  <2>2. ASSUME NEW u \in S PROVE u \in SUBSET (1 .. n + 1) /\ u \union {n + 1} \in SUBSET (1 .. n + 1)
    OBVIOUS
  <2>3. T \subseteq SUBSET (1 .. n + 1)
    <3> HIDE DEF S
    <3>1. QED BY <2>2
  <2>4. S \subseteq SUBSET (1 .. n + 1)
    BY <2>2
  <2>5. QED
    <3> HIDE DEF S, T
    <3> QED BY <2>1, <2>3, <2>4
<1>6. S \intersect T = {}
  OBVIOUS
<1>7. ExistsBijection(S, T)
  <2>1. f \in Bijection(S, T)
    <3>1. f \in [S -> T] /\ \A t \in T : \E s \in S : f[s] = t
      OBVIOUS
    <3>2. ASSUME NEW s \in S, NEW u \in S, f[s] = f[u] PROVE s = u
      <4>1. n + 1 \notin s /\ n + 1 \notin u /\ s \union {n + 1} = u \union {n + 1}
        BY <3>2
      <4>2. QED BY <4>1
    <3>3. QED BY <3>1, <3>2 DEF Bijection, Injection, Surjection, IsInjective
  <2>2. QED BY <2>1 DEF ExistsBijection
<1>8. IsFiniteSet(T) /\ Cardinality(T) = 2^n
  BY <1>2, <1>7, FS_Bijection
<1>9. Cardinality(S \union T) = Cardinality(S) + Cardinality(T)
  <2> HIDE DEF S, T
  <2>1. Cardinality(S \union T) = Cardinality(S) + Cardinality(T) - Cardinality(S \intersect T)
    BY <1>2, <1>8, FS_Union
  <2>2. Cardinality(S \intersect T) = 0
    BY <1>6, FS_EmptySet
  <2>3. Cardinality(S) \in Nat /\ Cardinality(T) \in Nat
    BY <1>2, <1>8, PowerIsNat
  <2>4. QED BY <2>1, <2>2, <2>3
<1>10. 2^(n + 1) = 2^n + 2^n
  <2> HIDE DEF S, T
  <2> QED BY <1>2, <1>4, <1>5, <1>8, <1>9
<1>11. QED BY <1>10, PowerIsNat

\* Division with remainder is unique.
LEMMA ModUnique ==
    ASSUME NEW m \in Nat \ {0}, NEW q \in Int, NEW r \in 0 .. m - 1, NEW a \in Int, a = m * q + r
    PROVE  a % m = r /\ a \div m = q
  OBVIOUS

\* The powers of two that base64 divides by.
LEMMA Powers ==
    /\ 2^0 = 1 /\ 2^2 = 4 /\ 2^4 = 16 /\ 2^6 = 64 /\ 2^8 = 256
    /\ 2^10 = 1024 /\ 2^12 = 4096 /\ 2^16 = 65536 /\ 2^18 = 262144
<1>0. 2^0 = 1
  BY PowerOfZero
<1>1. 2^1 = 2
  BY <1>0, 2^(0 + 1) = 2 * 2^0, PowerStep
<1>2. 2^2 = 4
  BY <1>1, 2^(1 + 1) = 2 * 2^1, PowerStep
<1>3. 2^3 = 8
  BY <1>2, 2^(2 + 1) = 2 * 2^2, PowerStep
<1>4. 2^4 = 16
  BY <1>3, 2^(3 + 1) = 2 * 2^3, PowerStep
<1>5. 2^5 = 32
  BY <1>4, 2^(4 + 1) = 2 * 2^4, PowerStep
<1>6. 2^6 = 64
  BY <1>5, 2^(5 + 1) = 2 * 2^5, PowerStep
<1>7. 2^7 = 128
  BY <1>6, 2^(6 + 1) = 2 * 2^6, PowerStep
<1>8. 2^8 = 256
  BY <1>7, 2^(7 + 1) = 2 * 2^7, PowerStep
<1>9. 2^9 = 512
  BY <1>8, 2^(8 + 1) = 2 * 2^8, PowerStep
<1>10. 2^10 = 1024
  BY <1>9, 2^(9 + 1) = 2 * 2^9, PowerStep
<1>11. 2^11 = 2048
  BY <1>10, 2^(10 + 1) = 2 * 2^10, PowerStep
<1>12. 2^12 = 4096
  BY <1>11, 2^(11 + 1) = 2 * 2^11, PowerStep
<1>13. 2^13 = 8192
  BY <1>12, 2^(12 + 1) = 2 * 2^12, PowerStep
<1>14. 2^14 = 16384
  BY <1>13, 2^(13 + 1) = 2 * 2^13, PowerStep
<1>15. 2^15 = 32768
  BY <1>14, 2^(14 + 1) = 2 * 2^14, PowerStep
<1>16. 2^16 = 65536
  BY <1>15, 2^(15 + 1) = 2 * 2^15, PowerStep
<1>17. 2^17 = 131072
  BY <1>16, 2^(16 + 1) = 2 * 2^16, PowerStep
<1>18. 2^18 = 262144
  BY <1>17, 2^(17 + 1) = 2 * 2^17, PowerStep
<1>19. QED BY <1>0, <1>2, <1>4, <1>6, <1>8, <1>10, <1>12, <1>16, <1>18

-----------------------------------------------------------------------------
(* base64.                                                                 *)

\* What a list is made of.
LEMMA SeqParts ==
    ASSUME NEW V, NEW s \in Seq(V)
    PROVE  /\ Len(s) \in Nat /\ DOMAIN s = 1 .. Len(s)
           /\ \A i \in 1 .. Len(s) : s[i] \in V
           /\ s = [i \in 1 .. Len(s) |-> s[i]]
OBVIOUS

\* The numbers that the first digits make, one after the other.
Numbers(c, g) ==
    /\ g[0] = 0
    /\ \A i \in 1 .. Len(c) : g[i] = g[i - 1] * 64 + c[i]
    /\ Number(c) = g[Len(c)]

\* Number, digit by digit.
LEMMA NumberRuns == ASSUME NEW c \in Seq(Nat) PROVE \E g : Numbers(c, g)
<1> DEFINE n == Len(c)
           X == Nat
           step == [p \in (1 .. n) \X X |-> p[2] * 64 + c[p[1]]]
           Is(h) == h = [u \in SUBSET DOMAIN c |->
                           IF u = {} THEN 0 ELSE h[u \ {Max(u)}] * 64 + c[Max(u)]]
           h == CHOOSE h : Is(h)
<1>1. n \in Nat /\ DOMAIN c = 1 .. n /\ \A i \in 1 .. n : c[i] \in Nat
  BY SeqParts
<1>2. Number(c) = h[DOMAIN c]
  BY DEF Number, FoldLeft, MapThenFoldSet
<1> HIDE DEF n
<1>3. ASSUME NEW i \in 1 .. n, NEW a \in X PROVE a * 64 + c[i] \in X
  BY <1>1
<1>4. 0 \in X
  OBVIOUS
<1> HIDE DEF X
<1>5. step \in [(1 .. n) \X X -> X]
  BY <1>3
<1>6. \E g : Is(g)
  <2>2. PICK g : FoldsUp(X, 0, step, n, g)
    <3> HIDE DEF step
    <3>1. QED BY <1>1, <1>4, <1>5, FoldingUp
  <2>3. \A u \in SUBSET (1 .. n) : u # {} =>
            step[<<Max(u), g[u \ {Max(u)}]>>] = g[u \ {Max(u)}] * 64 + c[Max(u)]
    <3> SUFFICES ASSUME NEW u \in SUBSET (1 .. n), u # {}
                 PROVE  step[<<Max(u), g[u \ {Max(u)}]>>] = g[u \ {Max(u)}] * 64 + c[Max(u)]
      OBVIOUS
    <3>1. Max(u) \in 1 .. n
      BY <1>1, MaxOfSome
    <3>2. g[u \ {Max(u)}] \in X
      <4>1. u \ {Max(u)} \in SUBSET (1 .. n)
        OBVIOUS
      <4>2. QED BY <2>2, <4>1 DEF FoldsUp
    <3>3. QED BY <3>1, <3>2
  <2>4. g = [u \in SUBSET (1 .. n) |-> IF u = {} THEN 0 ELSE step[<<Max(u), g[u \ {Max(u)}]>>]]
    BY <2>2 DEF FoldsUp
  <2>5. Is(g)
    <3> HIDE DEF step
    <3>1. QED BY <1>1, <2>3, <2>4
  <2>6. QED BY <2>5
<1>7. h = [u \in SUBSET (1 .. n) |->
             IF u = {} THEN 0 ELSE h[u \ {Max(u)}] * 64 + c[Max(u)]]
  <2>1. Is(h)
    BY <1>6
  <2> HIDE DEF h
  <2>2. QED BY <1>1, <2>1
<1> HIDE DEF h
<1>8. h[1 .. 0] = 0
  BY <1>1, <1>7, IntervalSteps
<1> DEFINE g == [i \in 0 .. n |-> h[1 .. i]]
<1>9. ASSUME NEW i \in 1 .. n PROVE g[i] = g[i - 1] * 64 + c[i]
  <2> DEFINE u == 1 .. i
  <2>1. u \in SUBSET (1 .. n) /\ u # {} /\ Max(u) = i /\ u \ {i} = 1 .. i - 1
    BY <1>1, IntervalSteps
  <2>2. h[u] = h[u \ {Max(u)}] * 64 + c[Max(u)]
    <3> HIDE DEF u
    <3> QED BY <1>7, <2>1
  <2>3. g[i] = h[u] /\ g[i - 1] = h[1 .. i - 1]
    BY <1>1
  <2>4. QED BY <2>1, <2>2, <2>3
<1>10. g[0] = 0 /\ g[n] = Number(c)
  BY <1>1, <1>2, <1>8
<1>11. QED BY <1>9, <1>10 DEF n, Numbers

\* The number of two, three and four digits.
LEMMA NumberExact ==
    ASSUME NEW c \in Seq(Nat)
    PROVE  /\ Len(c) = 2 => Number(c) = c[1] * 64 + c[2]
           /\ Len(c) = 3 => Number(c) = (c[1] * 64 + c[2]) * 64 + c[3]
           /\ Len(c) = 4 => Number(c) = ((c[1] * 64 + c[2]) * 64 + c[3]) * 64 + c[4]
<1>1. PICK g : Numbers(c, g)
  BY NumberRuns
<1>2. g[0] = 0 /\ Number(c) = g[Len(c)] /\ \A i \in 1 .. Len(c) : g[i] = g[i - 1] * 64 + c[i]
  BY <1>1 DEF Numbers
<1>3. Len(c) \in Nat /\ \A i \in 1 .. Len(c) : c[i] \in Nat
  BY SeqParts
<1> HIDE DEF Numbers
<1>4. ASSUME Len(c) >= 2 PROVE g[2] = c[1] * 64 + c[2]
  <2>1. 1 \in 1 .. Len(c) /\ 2 \in 1 .. Len(c)
    BY <1>3, <1>4
  <2>2. g[1] = g[1 - 1] * 64 + c[1] /\ g[2] = g[2 - 1] * 64 + c[2]
    BY <1>2, <2>1
  <2>3. g[1] = c[1] /\ c[1] \in Nat
    BY <1>2, <1>3, <2>1, <2>2
  <2>4. QED BY <2>2, <2>3
<1>5. ASSUME Len(c) >= 3 PROVE g[3] = g[2] * 64 + c[3]
  BY <1>2, <1>3, <1>5
<1>6. ASSUME Len(c) = 4 PROVE g[4] = g[3] * 64 + c[4]
  BY <1>2, <1>6
<1>7. Len(c) = 2 => Number(c) = c[1] * 64 + c[2]
  BY <1>2, <1>4
<1>8. Len(c) = 3 => Number(c) = (c[1] * 64 + c[2]) * 64 + c[3]
  BY <1>2, <1>4, <1>5
<1>9. Len(c) = 4 => Number(c) = ((c[1] * 64 + c[2]) * 64 + c[3]) * 64 + c[4]
  <2>1. ASSUME Len(c) = 4 PROVE Number(c) = g[4] /\ g[4] = g[3] * 64 + c[4]
    BY <1>2, <1>6, <2>1
  <2>2. ASSUME Len(c) = 4 PROVE g[3] = (c[1] * 64 + c[2]) * 64 + c[3]
    BY <1>4, <1>5, <2>2
  <2>3. QED BY <2>1, <2>2
<1>10. QED BY <1>7, <1>8, <1>9

\* What a byte is.
IsByte(b) == b \in Int /\ 0 <= b /\ b < 256

\* The digits of three bytes.
LEMMA TripleDigits ==
    ASSUME NEW b1, IsByte(b1), NEW b2, IsByte(b2), NEW b3, IsByte(b3),
           NEW T, T = b1 * 65536 + b2 * 256 + b3
    PROVE  /\ T \in Nat
           /\ (T \div 262144) % 64 = b1 \div 4
           /\ (T \div 4096) % 64 = (b1 % 4) * 16 + b2 \div 16
           /\ (T \div 64) % 64 = (b2 % 16) * 4 + b3 \div 64
           /\ (T \div 1) % 64 = b3 % 64
<1>1. /\ b1 \in Int /\ 0 <= b1 /\ b1 < 256
      /\ b2 \in Int /\ 0 <= b2 /\ b2 < 256
      /\ b3 \in Int /\ 0 <= b3 /\ b3 < 256
  BY DEF IsByte
<1>2. T \in Nat
  BY <1>1
<1>3. (T \div 262144) % 64 = b1 \div 4
  BY <1>1
<1>4. (T \div 4096) % 64 = (b1 % 4) * 16 + b2 \div 16
  BY <1>1
<1>5. (T \div 64) % 64 = (b2 % 16) * 4 + b3 \div 64
  BY <1>1
<1>6. (T \div 1) % 64 = b3 % 64
  BY <1>1
<1>7. QED BY <1>2, <1>3, <1>4, <1>5, <1>6

\* e1 to e4 are the digits of six bits of the bytes b1, b2 and b3.
Digits(b1, b2, b3, e1, e2, e3, e4) ==
    /\ e1 = b1 \div 4 /\ e2 = (b1 % 4) * 16 + b2 \div 16
    /\ e3 = (b2 % 16) * 4 + b3 \div 64 /\ e4 = b3 % 64

\* Digits are less than 64 and make the number of the bytes.
LEMMA DigitsBack ==
    ASSUME NEW b1, IsByte(b1), NEW b2, IsByte(b2), NEW b3, IsByte(b3),
           NEW e1, NEW e2, NEW e3, NEW e4, Digits(b1, b2, b3, e1, e2, e3, e4)
    PROVE  /\ e1 \in Nat /\ e2 \in Nat /\ e3 \in Nat /\ e4 \in Nat
           /\ e1 < 64 /\ e2 < 64 /\ e3 < 64 /\ e4 < 64
           /\ b2 = 0 => ((e1 * 64 + e2) \div 16) % 256 = b1
           /\ b3 = 0 => /\ (((e1 * 64 + e2) * 64 + e3) \div 1024) % 256 = b1
                        /\ (((e1 * 64 + e2) * 64 + e3) \div 4) % 256 = b2
           /\ ((((e1 * 64 + e2) * 64 + e3) * 64 + e4) \div 65536) % 256 = b1
           /\ ((((e1 * 64 + e2) * 64 + e3) * 64 + e4) \div 256) % 256 = b2
           /\ ((((e1 * 64 + e2) * 64 + e3) * 64 + e4) \div 1) % 256 = b3
<1>1. /\ b1 \in Int /\ 0 <= b1 /\ b1 < 256
      /\ b2 \in Int /\ 0 <= b2 /\ b2 < 256
      /\ b3 \in Int /\ 0 <= b3 /\ b3 < 256
  BY DEF IsByte
<1>2. /\ e1 = b1 \div 4 /\ e2 = (b1 % 4) * 16 + b2 \div 16
      /\ e3 = (b2 % 16) * 4 + b3 \div 64 /\ e4 = b3 % 64
  BY DEF Digits
<1>3. e1 \in Nat /\ e1 < 64
  BY <1>1, <1>2
<1>4. e2 \in Nat /\ e2 < 64
  BY <1>1, <1>2
<1>5. e3 \in Nat /\ e3 < 64
  BY <1>1, <1>2
<1>6. e4 \in Nat /\ e4 < 64
  BY <1>1, <1>2
<1>7. ASSUME b2 = 0 PROVE ((e1 * 64 + e2) \div 16) % 256 = b1
  BY <1>1, <1>2, <1>7
<1>8. ASSUME b3 = 0
      PROVE  /\ (((e1 * 64 + e2) * 64 + e3) \div 1024) % 256 = b1
             /\ (((e1 * 64 + e2) * 64 + e3) \div 4) % 256 = b2
  BY <1>1, <1>2, <1>8
<1>9. ((e1 * 64 + e2) * 64 + e3) * 64 + e4 = b1 * 65536 + b2 * 256 + b3
  BY <1>1, <1>2
<1> DEFINE S == b1 * 65536 + b2 * 256 + b3
           T == ((e1 * 64 + e2) * 64 + e3) * 64 + e4
<1>10. (S \div 65536) % 256 = b1 /\ (S \div 256) % 256 = b2 /\ (S \div 1) % 256 = b3
  BY <1>1
<1>11. T = S
  BY <1>9
<1> HIDE DEF S, T
<1>12. (T \div 65536) % 256 = b1 /\ (T \div 256) % 256 = b2 /\ (T \div 1) % 256 = b3
  BY <1>10, <1>11
<1>13. QED BY <1>3, <1>4, <1>5, <1>6, <1>7, <1>8, <1>12 DEF T


\* The bytes of a chunk, zero where it has none.
ByteOf(chunk, j) == IF j <= Len(chunk) THEN chunk[j] ELSE 0

\* e are the digits of the l bytes among b1, b2 and b3, padded.
Encoded(e, l, b1, b2, b3) ==
    /\ DOMAIN e = 1 .. 4
    /\ e[1] = b1 \div 4 /\ e[2] = (b1 % 4) * 16 + b2 \div 16
    /\ l >= 2 => e[3] = (b2 % 16) * 4 + b3 \div 64
    /\ l = 3 => e[4] = b3 % 64
    /\ \A j \in 1 .. 4 : j > l + 1 => e[j] = Pad

\* The bytes of a chunk.
LEMMA ChunkBytes ==
    ASSUME NEW chunk \in Seq(0 .. 2^8 - 1), Len(chunk) \in 1 .. 3
    PROVE  /\ IsByte(ByteOf(chunk, 1)) /\ IsByte(ByteOf(chunk, 2)) /\ IsByte(ByteOf(chunk, 3))
           /\ ByteOf(chunk, 1) = chunk[1]
           /\ Len(chunk) >= 2 => ByteOf(chunk, 2) = chunk[2]
           /\ Len(chunk) = 3 => ByteOf(chunk, 3) = chunk[3]
           /\ Len(chunk) = 1 => ByteOf(chunk, 2) = 0
           /\ Len(chunk) <= 2 => ByteOf(chunk, 3) = 0
<1>1. \A b \in 0 .. 2^8 - 1 : IsByte(b)
  BY Powers DEF IsByte
<1>2. \A i \in 1 .. Len(chunk) : IsByte(chunk[i])
  BY <1>1, SeqParts
<1>3. IsByte(0)
  BY DEF IsByte
<1>4. \A j \in {1, 2, 3} : IsByte(ByteOf(chunk, j))
  BY <1>2, <1>3 DEF ByteOf
<1>5. QED BY <1>4 DEF ByteOf

\* What EncodeChunk makes of a chunk.
LEMMA EncodedDigits ==
    ASSUME NEW chunk \in Seq(0 .. 2^8 - 1), Len(chunk) \in 1 .. 3
    PROVE  Encoded(EncodeChunk(chunk), Len(chunk),
                   ByteOf(chunk, 1), ByteOf(chunk, 2), ByteOf(chunk, 3))
<1> DEFINE e == EncodeChunk(chunk)
           b1 == ByteOf(chunk, 1)
           b2 == ByteOf(chunk, 2)
           b3 == ByteOf(chunk, 3)
           l == Len(chunk)
           T == b1 * 2^16 + b2 * 2^8 + b3
           Digit(j) == IF j <= l + 1 THEN (T \div 2^(24 - 6 * j)) % 64 ELSE Pad
<1>1. e = [j \in 1 .. 4 |-> Digit(j)]
  BY DEF EncodeChunk, ByteOf
<1>2. IsByte(b1) /\ IsByte(b2) /\ IsByte(b3)
  BY ChunkBytes
<1>3. T = b1 * 65536 + b2 * 256 + b3
  <2>1. 2^16 = 65536 /\ 2^8 = 256
    BY Powers
  <2> HIDE DEF b1, b2, b3
  <2>2. QED BY <2>1
<1>4. l \in 1 .. 3
  OBVIOUS
<1> HIDE DEF b1, b2, b3, e, l, T
<1>5. /\ (T \div 262144) % 64 = b1 \div 4
      /\ (T \div 4096) % 64 = (b1 % 4) * 16 + b2 \div 16
      /\ (T \div 64) % 64 = (b2 % 16) * 4 + b3 \div 64
      /\ (T \div 1) % 64 = b3 % 64
  BY <1>2, <1>3, TripleDigits
<1>6. Digit(1) = (T \div 2^18) % 64
  BY <1>4, 24 - 6 * 1 = 18
<1>7. Digit(2) = (T \div 2^12) % 64
  BY <1>4, 24 - 6 * 2 = 12
<1>8. l >= 2 => Digit(3) = (T \div 2^6) % 64
  BY <1>4, 24 - 6 * 3 = 6
<1>9. l = 3 => Digit(4) = (T \div 2^0) % 64
  BY <1>4, 24 - 6 * 4 = 0
<1>10. \A j \in 1 .. 4 : j > l + 1 => Digit(j) = Pad
  BY <1>4
<1> HIDE DEF Digit
<1>11. DOMAIN e = 1 .. 4 /\ \A j \in 1 .. 4 : e[j] = Digit(j)
  BY <1>1
<1>12. 2^18 = 262144 /\ 2^12 = 4096 /\ 2^6 = 64 /\ 2^0 = 1
  BY Powers
<1>13. e[1] = b1 \div 4
  BY <1>5, <1>6, <1>11, <1>12
<1>14. e[2] = (b1 % 4) * 16 + b2 \div 16
  BY <1>5, <1>7, <1>11, <1>12
<1>15. l >= 2 => e[3] = (b2 % 16) * 4 + b3 \div 64
  BY <1>5, <1>8, <1>11, <1>12
<1>16. l = 3 => e[4] = b3 % 64
  BY <1>5, <1>9, <1>11, <1>12
<1>17. Encoded(e, l, b1, b2, b3)
  BY <1>10, <1>11, <1>13, <1>14, <1>15, <1>16 DEF Encoded
<1>18. QED BY <1>17 DEF e, l, b1, b2, b3

\* Of the four digits of l bytes, l + 1 are numbers, the others padding.
LEMMA EncodedKinds ==
    ASSUME NEW chunk \in Seq(0 .. 2^8 - 1), Len(chunk) \in 1 .. 3
    PROVE  /\ DOMAIN EncodeChunk(chunk) = 1 .. 4
           /\ \A j \in 1 .. 4 : /\ EncodeChunk(chunk)[j] \in Nat
                                /\ EncodeChunk(chunk)[j] # Pad <=> j <= Len(chunk) + 1
<1> DEFINE e == EncodeChunk(chunk)
           b1 == ByteOf(chunk, 1)
           b2 == ByteOf(chunk, 2)
           b3 == ByteOf(chunk, 3)
           l == Len(chunk)
<1>1. IsByte(b1) /\ IsByte(b2) /\ IsByte(b3) /\ l \in 1 .. 3
  BY ChunkBytes
<1>2. Encoded(e, l, b1, b2, b3)
  BY EncodedDigits
<1> DEFINE d1 == b1 \div 4
           d2 == (b1 % 4) * 16 + b2 \div 16
           d3 == (b2 % 16) * 4 + b3 \div 64
           d4 == b3 % 64
<1> HIDE DEF b1, b2, b3, e, l
<1>3. /\ DOMAIN e = 1 .. 4
      /\ e[1] = d1 /\ e[2] = d2
      /\ l >= 2 => e[3] = d3
      /\ l = 3 => e[4] = d4
      /\ \A j \in 1 .. 4 : j > l + 1 => e[j] = Pad
  BY <1>2 DEF Encoded
<1>4. Digits(b1, b2, b3, d1, d2, d3, d4)
  BY DEF Digits
<1> HIDE DEF d1, d2, d3, d4
<1>5. d1 \in Nat /\ d2 \in Nat /\ d3 \in Nat /\ d4 \in Nat /\ d1 < 64 /\ d2 < 64 /\ d3 < 64 /\ d4 < 64
  BY <1>1, <1>4, DigitsBack
<1>6. ASSUME NEW j \in 1 .. 4 PROVE e[j] \in Nat /\ (e[j] # Pad <=> j <= l + 1)
  <2>1. CASE l = 1
    BY <1>3, <1>5, <2>1 DEF Pad
  <2>2. CASE l = 2
    BY <1>3, <1>5, <2>2 DEF Pad
  <2>3. CASE l = 3
    BY <1>3, <1>5, <2>3 DEF Pad
  <2>4. QED BY <1>1, <2>1, <2>2, <2>3
<1>7. QED BY <1>3, <1>6 DEF e, l

\* The digits of a chunk are decoded to it.
LEMMA DecodedChunk ==
    ASSUME NEW chunk \in Seq(0 .. 2^8 - 1), Len(chunk) \in 1 .. 3,
           NEW c \in Seq(Nat), Len(c) = Len(chunk) + 1,
           \A j \in 1 .. Len(c) : c[j] = EncodeChunk(chunk)[j]
    PROVE  DecodeChunk(c) = chunk
<1> DEFINE e == EncodeChunk(chunk)
           b1 == ByteOf(chunk, 1)
           b2 == ByteOf(chunk, 2)
           b3 == ByteOf(chunk, 3)
           l == Len(chunk)
           N == Number(c)
           Byte(j) == (N \div 2^(6 * (l + 1) - 8 * j)) % 256
           d1 == b1 \div 4
           d2 == (b1 % 4) * 16 + b2 \div 16
           d3 == (b2 % 16) * 4 + b3 \div 64
           d4 == b3 % 64
<1>1. /\ IsByte(b1) /\ IsByte(b2) /\ IsByte(b3) /\ l \in 1 .. 3
      /\ b1 = chunk[1]
      /\ l >= 2 => b2 = chunk[2]
      /\ l = 3 => b3 = chunk[3]
      /\ l = 1 => b2 = 0
      /\ l <= 2 => b3 = 0
  BY ChunkBytes
<1>2. Encoded(e, l, b1, b2, b3)
  BY EncodedDigits
<1>3. DecodeChunk(c) = [j \in 1 .. (6 * (l + 1)) \div 8 |-> Byte(j)]
  BY DEF DecodeChunk
<1>4. chunk = [j \in 1 .. l |-> chunk[j]]
  BY SeqParts
<1>5. /\ l = 1 => N = c[1] * 64 + c[2]
      /\ l = 2 => N = (c[1] * 64 + c[2]) * 64 + c[3]
      /\ l = 3 => N = ((c[1] * 64 + c[2]) * 64 + c[3]) * 64 + c[4]
  <2>1. /\ Len(c) = 2 => N = c[1] * 64 + c[2]
        /\ Len(c) = 3 => N = (c[1] * 64 + c[2]) * 64 + c[3]
        /\ Len(c) = 4 => N = ((c[1] * 64 + c[2]) * 64 + c[3]) * 64 + c[4]
    BY NumberExact
  <2>2. Len(c) = l + 1
    OBVIOUS
  <2> HIDE DEF N, l
  <2>3. QED BY <2>1, <2>2
<1>6. \A j \in 1 .. l + 1 : c[j] = e[j]
  OBVIOUS
<1> HIDE DEF b1, b2, b3, e, l, N
<1>7. /\ e[1] = d1 /\ e[2] = d2
      /\ l >= 2 => e[3] = d3
      /\ l = 3 => e[4] = d4
  BY <1>2 DEF Encoded
<1>8. Digits(b1, b2, b3, d1, d2, d3, d4)
  BY DEF Digits
<1> HIDE DEF d1, d2, d3, d4
<1>9. /\ b2 = 0 => ((d1 * 64 + d2) \div 16) % 256 = b1
      /\ b3 = 0 => /\ (((d1 * 64 + d2) * 64 + d3) \div 1024) % 256 = b1
                   /\ (((d1 * 64 + d2) * 64 + d3) \div 4) % 256 = b2
      /\ ((((d1 * 64 + d2) * 64 + d3) * 64 + d4) \div 65536) % 256 = b1
      /\ ((((d1 * 64 + d2) * 64 + d3) * 64 + d4) \div 256) % 256 = b2
      /\ ((((d1 * 64 + d2) * 64 + d3) * 64 + d4) \div 1) % 256 = b3
  BY <1>1, <1>8, DigitsBack
<1>10. 2^4 = 16 /\ 2^10 = 1024 /\ 2^2 = 4 /\ 2^16 = 65536 /\ 2^8 = 256 /\ 2^0 = 1
  BY Powers
<1>11. CASE l = 1
  <2>1. N = d1 * 64 + d2
    BY <1>5, <1>6, <1>7, <1>11
  <2>2. Byte(1) = (N \div 2^4) % 256 /\ (6 * (l + 1)) \div 8 = 1
    BY <1>11, 6 * (1 + 1) - 8 * 1 = 4
  <2>3. Byte(1) = chunk[1]
    BY <1>1, <1>9, <1>10, <1>11, <2>1, <2>2
  <2> HIDE DEF Byte
  <2>4. \A j \in 1 .. 1 : Byte(j) = chunk[j]
    BY <2>3
  <2>5. QED BY <1>3, <1>4, <1>11, <2>2, <2>4
<1>12. CASE l = 2
  <2>1. N = (d1 * 64 + d2) * 64 + d3
    BY <1>5, <1>6, <1>7, <1>12
  <2>2. Byte(1) = (N \div 2^10) % 256 /\ Byte(2) = (N \div 2^2) % 256 /\ (6 * (l + 1)) \div 8 = 2
    BY <1>12, 6 * (2 + 1) - 8 * 1 = 10, 6 * (2 + 1) - 8 * 2 = 2
  <2>3. Byte(1) = chunk[1] /\ Byte(2) = chunk[2]
    BY <1>1, <1>9, <1>10, <1>12, <2>1, <2>2
  <2> HIDE DEF Byte
  <2>4. \A j \in 1 .. 2 : Byte(j) = chunk[j]
    BY <2>3
  <2>5. QED BY <1>3, <1>4, <1>12, <2>2, <2>4
<1>13. CASE l = 3
  <2>1. N = ((d1 * 64 + d2) * 64 + d3) * 64 + d4
    BY <1>5, <1>6, <1>7, <1>13
  <2>2. /\ Byte(1) = (N \div 2^16) % 256 /\ Byte(2) = (N \div 2^8) % 256
        /\ Byte(3) = (N \div 2^0) % 256 /\ (6 * (l + 1)) \div 8 = 3
    BY <1>13, 6 * (3 + 1) - 8 * 1 = 16, 6 * (3 + 1) - 8 * 2 = 8, 6 * (3 + 1) - 8 * 3 = 0
  <2>3. Byte(1) = chunk[1] /\ Byte(2) = chunk[2] /\ Byte(3) = chunk[3]
    <3> HIDE DEF Byte
    <3>1. (N \div 65536) % 256 = b1 /\ (N \div 256) % 256 = b2 /\ (N \div 1) % 256 = b3
      BY <1>9, <2>1
    <3>2. Byte(1) = b1 /\ Byte(2) = b2 /\ Byte(3) = b3
      BY <1>10, <2>2, <3>1
    <3>3. QED BY <1>1, <1>13, <3>2
  <2> HIDE DEF Byte
  <2>4. \A j \in 1 .. 3 : Byte(j) = chunk[j]
    BY <2>3
  <2>5. QED BY <1>3, <1>4, <1>13, <2>2, <2>4
<1>14. QED BY <1>1, <1>11, <1>12, <1>13

\* How many chunks of k a list of n elements has, and where they lie.
Chunked(n, k, m) ==
    /\ m \in Nat /\ (m = 0 <=> n = 0) /\ n <= k * m
    /\ \A i \in 1 .. m : /\ k * (i - 1) \in Nat /\ k * (i - 1) < n
                         /\ k * i = k * (i - 1) + k
    /\ \A i \in 1 .. m - 1 : k * i < n

\* Chunks of three and of four.
LEMMA ChunkedExact ==
    ASSUME NEW n \in Nat, NEW k \in {3, 4}
    PROVE  Chunked(n, k, (n + k - 1) \div k)
<1>1. CASE k = 3
  <2> DEFINE m == (n + 3 - 1) \div 3
  <2>1. m \in Nat /\ n <= 3 * m /\ 3 * m <= n + 2
    OBVIOUS
  <2> HIDE DEF m
  <2>2. m = 0 <=> n = 0
    BY <2>1
  <2>3. \A i \in 1 .. m : /\ 3 * (i - 1) \in Nat /\ 3 * (i - 1) < n
                          /\ 3 * i = 3 * (i - 1) + 3
    BY <2>1
  <2>4. \A i \in 1 .. m - 1 : 3 * i < n
    BY <2>1
  <2>5. Chunked(n, 3, m)
    BY <2>1, <2>2, <2>3, <2>4 DEF Chunked
  <2>6. QED BY <1>1, <2>5 DEF m
<1>2. CASE k = 4
  <2> DEFINE m == (n + 4 - 1) \div 4
  <2>1. m \in Nat /\ n <= 4 * m /\ 4 * m <= n + 3
    OBVIOUS
  <2> HIDE DEF m
  <2>2. m = 0 <=> n = 0
    BY <2>1
  <2>3. \A i \in 1 .. m : /\ 4 * (i - 1) \in Nat /\ 4 * (i - 1) < n
                          /\ 4 * i = 4 * (i - 1) + 4
    BY <2>1
  <2>4. \A i \in 1 .. m - 1 : 4 * i < n
    BY <2>1
  <2>5. Chunked(n, 4, m)
    BY <2>1, <2>2, <2>3, <2>4 DEF Chunked
  <2>6. QED BY <1>2, <2>5 DEF m
<1>3. QED BY <1>1, <1>2

\* Where the i-th chunk of k ends.
ChunkEnd(s, k, i) == IF k * i < Len(s) THEN k * i ELSE Len(s)

\* The chunks cs of k of a list, one after the other.
Cuts(V, s, k, cs) ==
    /\ cs \in Seq(Seq(V)) /\ Chunked(Len(s), k, Len(cs))
    /\ \A i \in 1 .. Len(cs) :
         /\ ChunkEnd(s, k, i) \in Nat /\ ChunkEnd(s, k, i) <= Len(s)
         /\ k * (i - 1) < ChunkEnd(s, k, i)
         /\ cs[i] = SubSeq(s, k * (i - 1) + 1, ChunkEnd(s, k, i))
         /\ Len(cs[i]) = ChunkEnd(s, k, i) - k * (i - 1)
         /\ \A j \in 1 .. Len(cs[i]) : cs[i][j] = s[k * (i - 1) + j]

\* What Chunks makes.
LEMMA ChunksExact ==
    ASSUME NEW V, NEW s \in Seq(V), NEW k \in {3, 4}
    PROVE  Cuts(V, s, k, Chunks(s, k))
<1> DEFINE n == Len(s)
           m == (n + k - 1) \div k
           cs == Chunks(s, k)
           End(i) == ChunkEnd(s, k, i)
           cut(i) == SubSeq(s, k * (i - 1) + 1, End(i))
<1>1. n \in Nat /\ \A i \in 1 .. n : s[i] \in V
  BY SeqParts
<1>2. Chunked(n, k, m)
  BY <1>1, ChunkedExact
<1>3. cs = [i \in 1 .. m |-> cut(i)]
  BY DEF Chunks, ChunkEnd
<1>4. k \in Nat /\ k > 0
  OBVIOUS
<1>5. \A i : End(i) = IF k * i < n THEN k * i ELSE n
  BY DEF ChunkEnd
<1> HIDE DEF n, m, cs, End, cut
<1>6. /\ m \in Nat
      /\ \A i \in 1 .. m : k * (i - 1) \in Nat /\ k * (i - 1) < n /\ k * i = k * (i - 1) + k
  BY <1>2 DEF Chunked
<1>7. ASSUME NEW i \in 1 .. m
      PROVE  End(i) \in Nat /\ End(i) <= n /\ k * (i - 1) < End(i)
  <2> DEFINE a == k * (i - 1)
             b == k * i
  <2>1. a \in Nat /\ a < n /\ b = a + k
    BY <1>6
  <2>2. End(i) = IF b < n THEN b ELSE n
    BY <1>5
  <2> HIDE DEF a, b
  <2>3. End(i) \in Nat /\ End(i) <= n /\ a < End(i)
    BY <1>1, <1>4, <2>1, <2>2
  <2>4. QED BY <2>3 DEF a
<1>8. ASSUME NEW i \in 1 .. m
      PROVE  /\ cut(i) \in Seq(V) /\ Len(cut(i)) = End(i) - k * (i - 1)
             /\ \A j \in 1 .. End(i) - k * (i - 1) : cut(i)[j] = s[k * (i - 1) + j]
  <2> DEFINE a == k * (i - 1)
             b == End(i)
  <2>1. a \in Nat /\ b \in Nat /\ a < b /\ b <= n
    BY <1>6, <1>7
  <2>2. cut(i) = SubSeq(s, a + 1, b)
    BY DEF cut
  <2> HIDE DEF a, b
  <2>3. \A j \in a + 1 .. b : s[j] \in V
    BY <1>1, <2>1
  <2>4. /\ cut(i) \in Seq(V) /\ Len(cut(i)) = IF a + 1 <= b THEN b - (a + 1) + 1 ELSE 0
        /\ \A j \in 1 .. b - (a + 1) + 1 : cut(i)[j] = s[(a + 1) + j - 1]
    <3>1. a + 1 \in Int /\ b \in Int
      BY <2>1
    <3>2. QED BY <2>2, <2>3, <3>1, SubSeqProperties
  <2>5. Len(cut(i)) = b - a /\ b - (a + 1) + 1 = b - a
    BY <2>1, <2>4
  <2>6. \A j \in 1 .. b - a : cut(i)[j] = s[a + j]
    <3>1. \A j \in 1 .. b - a : (a + 1) + j - 1 = a + j
      BY <2>1
    <3>2. QED BY <2>4, <2>5, <3>1
  <2>7. QED BY <2>4, <2>5, <2>6 DEF a, b
<1>9. cs \in Seq(Seq(V)) /\ Len(cs) = m /\ \A i \in 1 .. m : cs[i] = cut(i)
  BY <1>3, <1>6, <1>8
<1>10. \A i \in 1 .. m : cut(i) = SubSeq(s, k * (i - 1) + 1, End(i))
  BY DEF cut
<1>11. Cuts(V, s, k, cs)
  <2>1. Chunked(Len(s), k, Len(cs))
    BY <1>2, <1>9 DEF n
  <2>2. ASSUME NEW i \in 1 .. Len(cs)
        PROVE  /\ End(i) \in Nat /\ End(i) <= n
               /\ k * (i - 1) < End(i)
               /\ cs[i] = SubSeq(s, k * (i - 1) + 1, End(i))
               /\ Len(cs[i]) = End(i) - k * (i - 1)
               /\ \A j \in 1 .. Len(cs[i]) : cs[i][j] = s[k * (i - 1) + j]
    <3>1. i \in 1 .. m /\ cs[i] = cut(i)
      BY <1>9
    <3>2. QED BY <1>7, <1>8, <1>10, <3>1
  <2>3. QED BY <1>9, <2>1, <2>2 DEF Cuts, End, n
<1>12. QED BY <1>11 DEF cs

\* The chunks of a list one after the other are the list.
LEMMA ChunksJoined ==
    ASSUME NEW V, NEW s \in Seq(V), NEW k \in {3, 4}, NEW cs, Cuts(V, s, k, cs)
    PROVE  FlattenSeq(cs) = s
<1> DEFINE n == Len(s)
           m == Len(cs)
           End(i) == IF i = 0 THEN 0 ELSE ChunkEnd(s, k, i)
<1>1. /\ cs \in Seq(Seq(V)) /\ Chunked(n, k, m)
      /\ \A i \in 1 .. m : /\ End(i) \in Nat /\ End(i) <= n /\ k * (i - 1) < End(i)
                           /\ cs[i] = SubSeq(s, k * (i - 1) + 1, End(i))
  <2>1. \A i \in 1 .. m : i # 0
    OBVIOUS
  <2>2. QED BY <2>1 DEF Cuts
<1>2. /\ m \in Nat /\ (m = 0 <=> n = 0) /\ n <= k * m
      /\ \A i \in 1 .. m - 1 : k * i < n
  BY <1>1 DEF Chunked
<1>3. n \in Nat
  BY SeqParts
<1>4. \A i \in 1 .. m - 1 : End(i) = k * i
  <2>1. \A i \in 1 .. m - 1 : i # 0
    OBVIOUS
  <2>2. QED BY <1>2, <2>1 DEF ChunkEnd
<1>5. m # 0 => End(m) = n
  <2>1. ~ k * m < n
    <3> DEFINE b == k * m
    <3>1. b \in Int
      BY <1>2
    <3> HIDE DEF b
    <3>2. ~ b < n
      BY <1>2, <1>3, <3>1 DEF b
    <3>3. QED BY <3>2 DEF b
  <2>2. QED BY <2>1 DEF ChunkEnd
<1>6. End(0) = 0 /\ k * 0 = 0
  OBVIOUS
<1> HIDE DEF End
<1>7. PICK g : /\ g[0] = <<>>
               /\ \A i \in 1 .. m : g[i] = g[i - 1] \o cs[i]
               /\ FlattenSeq(cs) = g[m]
  <2>1. \E g : Flattens(V, cs, g)
    BY <1>1, FlattenRuns
  <2>2. QED BY <2>1 DEF Flattens
<1> DEFINE Good == {i \in Nat : i <= m => g[i] = SubSeq(s, 1, End(i))}
<1>8. 0 \in Good
  <2>1. SubSeq(s, 1, 0) = <<>>
    BY SubSeqEmpty
  <2>2. QED BY <1>6, <1>7, <2>1
<1>9. ASSUME NEW i \in Nat, i \in Good PROVE i + 1 \in Good
  <2> SUFFICES ASSUME i + 1 <= m PROVE g[i + 1] = SubSeq(s, 1, End(i + 1))
    OBVIOUS
  <2>1. i + 1 \in 1 .. m /\ (i + 1) - 1 = i /\ i <= m /\ (i = 0 \/ i \in 1 .. m - 1)
    BY <1>2
  <2>2. g[i] = SubSeq(s, 1, End(i))
    BY <1>9, <2>1
  <2>3. End(i) = k * i
    BY <1>4, <1>6, <2>1
  <2>4. g[i + 1] = g[i] \o cs[i + 1]
    BY <1>7, <2>1
  <2>5. cs[i + 1] = SubSeq(s, k * i + 1, End(i + 1)) /\ End(i + 1) \in Nat /\ End(i + 1) <= n /\ k * i < End(i + 1)
    BY <1>1, <2>1
  <2>6. End(i) \in Nat
    BY <1>1, <1>6, <2>1
  <2> DEFINE a == End(i)
             b == End(i + 1)
  <2>7. SubSeq(s, 1, a) \o SubSeq(s, a + 1, b) = SubSeq(s, 1, b)
    <3>1. a \in Nat /\ b \in Nat /\ a < b /\ b <= n
      BY <2>3, <2>5, <2>6
    <3> HIDE DEF a, b
    <3>2. 1 \in 1 .. n + 1 /\ a \in 1 - 1 .. n /\ b \in a .. n
      BY <1>3, <3>1
    <3>3. QED BY <3>2, ConcatAdjacentSubSeq
  <2> HIDE DEF Good
  <2>8. QED BY <2>2, <2>3, <2>4, <2>5, <2>7
<1> HIDE DEF Good
<1>10. m \in Good
  BY <1>2, <1>8, <1>9, Counting
<1>11. g[m] = SubSeq(s, 1, End(m))
  BY <1>2, <1>10 DEF Good
<1>12. End(m) = n
  BY <1>2, <1>5, <1>6
<1>13. QED BY <1>7, <1>11, <1>12, SubSeqFull DEF n

\* If what is kept comes first, the rest is cut off.
LEMMA FilterPrefix ==
    ASSUME NEW V, NEW s \in Seq(V), NEW S, NEW k \in Nat, k <= Len(s),
           \A i \in 1 .. Len(s) : s[i] \in S <=> i <= k
    PROVE  /\ Filter(s, S) \in Seq(V) /\ Len(Filter(s, S)) = k
           /\ \A j \in 1 .. k : Filter(s, S)[j] = s[j]
<1> DEFINE n == Len(s)
           cut(i) == IF i <= k THEN i ELSE k
<1>1. n \in Nat /\ \A i \in 1 .. n : s[i] \in V
  BY SeqParts
<1>2. PICK g : /\ g \in [0 .. n -> Seq(V)]
               /\ g[0] = <<>>
               /\ \A i \in 1 .. n : g[i] = KeptIn(g[i - 1], s[i], S)
               /\ Filter(s, S) = g[n]
  <2>1. \E g : Filters(V, s, S, g)
    BY FilterRuns
  <2>2. QED BY <2>1 DEF Filters
<1> DEFINE Prefix(i) == Len(g[i]) = cut(i) /\ \A j \in 1 .. cut(i) : g[i][j] = s[j]
           Good == {i \in Nat : i <= n => Prefix(i)}
<1>3. 0 \in Good
  BY <1>2
<1>4. ASSUME NEW i \in Nat, i \in Good PROVE i + 1 \in Good
  <2> SUFFICES ASSUME i + 1 <= n PROVE Prefix(i + 1)
    OBVIOUS
  <2>1. i + 1 \in 1 .. n /\ (i + 1) - 1 = i /\ i \in 0 .. n /\ i <= n
    BY <1>1
  <2>2. Len(g[i]) = cut(i) /\ \A j \in 1 .. cut(i) : g[i][j] = s[j]
    BY <1>4, <2>1
  <2>3. g[i + 1] = KeptIn(g[i], s[i + 1], S) /\ g[i] \in Seq(V) /\ s[i + 1] \in V
    BY <1>1, <1>2, <2>1
  <2> DEFINE u == g[i]
             e == s[i + 1]
  <2>4. CASE i + 1 <= k
    <3>1. g[i + 1] = Append(u, e)
      BY <2>1, <2>3, <2>4 DEF KeptIn
    <3>2. Len(u) = i /\ cut(i + 1) = i + 1 /\ cut(i) = i
      BY <2>2, <2>4
    <3> HIDE DEF u, e, cut, Good
    <3>3. /\ Len(Append(u, e)) = i + 1
          /\ \A j \in 1 .. i : Append(u, e)[j] = u[j]
          /\ Append(u, e)[i + 1] = e
      BY <2>3, <3>2, Appended DEF u, e
    <3>4. \A j \in 1 .. i : u[j] = s[j]
      BY <2>2, <3>2 DEF u
    <3>5. \A j \in 1 .. i + 1 : j \in 1 .. i \/ j = i + 1
      OBVIOUS
    <3>6. \A j \in 1 .. i + 1 : Append(u, e)[j] = s[j]
      BY <3>3, <3>4, <3>5 DEF e
    <3>7. QED BY <3>1, <3>2, <3>3, <3>6
  <2>5. CASE ~ i + 1 <= k
    <3>1. g[i + 1] = g[i]
      BY <2>1, <2>3, <2>5 DEF KeptIn
    <3>2. cut(i + 1) = cut(i)
      BY <2>5
    <3> HIDE DEF cut
    <3>3. QED BY <2>2, <3>1, <3>2
  <2>6. QED BY <2>4, <2>5
<1> HIDE DEF Good
<1>5. n \in Good
  BY <1>1, <1>3, <1>4, Counting
<1>6. Prefix(n)
  BY <1>1, <1>5 DEF Good
<1>7. cut(n) = k
  BY <1>1
<1>8. g[n] \in Seq(V)
  BY <1>1, <1>2
<1>9. QED BY <1>2, <1>6, <1>7, <1>8

\* Lists of four, one after the other.
LEMMA FoursJoined ==
    ASSUME NEW V, NEW ss \in Seq(Seq(V)), \A i \in 1 .. Len(ss) : Len(ss[i]) = 4
    PROVE  /\ FlattenSeq(ss) \in Seq(V) /\ Len(FlattenSeq(ss)) = 4 * Len(ss)
           /\ \A i \in 1 .. Len(ss), j \in 1 .. 4 : FlattenSeq(ss)[4 * (i - 1) + j] = ss[i][j]
<1> DEFINE m == Len(ss)
<1>1. m \in Nat /\ \A i \in 1 .. m : ss[i] \in Seq(V)
  BY SeqParts
<1>2. PICK g : /\ g \in [0 .. m -> Seq(V)]
               /\ g[0] = <<>>
               /\ \A i \in 1 .. m : g[i] = g[i - 1] \o ss[i]
               /\ FlattenSeq(ss) = g[m]
  <2>1. \E g : Flattens(V, ss, g)
    BY FlattenRuns
  <2>2. QED BY <2>1 DEF Flattens
<1> DEFINE Joined(n) == /\ Len(g[n]) = 4 * n
                        /\ \A i \in 1 .. n, j \in 1 .. 4 : g[n][4 * (i - 1) + j] = ss[i][j]
           Good == {n \in Nat : n <= m => Joined(n)}
<1>3. 0 \in Good
  BY <1>2
<1>4. ASSUME NEW n \in Nat, n \in Good PROVE n + 1 \in Good
  <2> SUFFICES ASSUME n + 1 <= m PROVE Joined(n + 1)
    OBVIOUS
  <2>1. n + 1 \in 1 .. m /\ (n + 1) - 1 = n /\ n \in 0 .. m /\ n <= m
    BY <1>1
  <2> DEFINE u == g[n]
             w == ss[n + 1]
             c == u \o w
  <2>2. Len(u) = 4 * n /\ \A i \in 1 .. n, j \in 1 .. 4 : u[4 * (i - 1) + j] = ss[i][j]
    BY <1>4, <2>1
  <2>3. u \in Seq(V) /\ w \in Seq(V) /\ Len(w) = 4 /\ g[n + 1] = c
    BY <1>1, <1>2, <2>1
  <2> HIDE DEF u, w, Good
  <2>4. /\ Len(c) = Len(u) + Len(w)
        /\ \A p \in 1 .. Len(u) + Len(w) : c[p] = IF p <= Len(u) THEN u[p] ELSE w[p - Len(u)]
    <3>1. u \in Seq(V) /\ w \in Seq(V)
      BY <2>3
    <3>2. QED BY ONLY <3>1, ConcatProperties
  <2> HIDE DEF c
  <2>5. Len(c) = 4 * (n + 1)
    BY <2>2, <2>3, <2>4
  <2>6. ASSUME NEW i \in 1 .. n + 1, NEW j \in 1 .. 4 PROVE c[4 * (i - 1) + j] = ss[i][j]
    <3> DEFINE p == 4 * (i - 1) + j
    <3>1. CASE i = n + 1
      <4>1. p \in 1 .. 4 * n + 4 /\ ~ p <= 4 * n /\ p - 4 * n = j
        BY <3>1
      <4> HIDE DEF p
      <4>2. c[p] = w[j]
        BY <2>2, <2>3, <2>4, <4>1
      <4>3. QED BY <3>1, <4>2 DEF p, w
    <3>2. CASE i \in 1 .. n
      <4>1. p \in 1 .. 4 * n + 4 /\ p <= 4 * n
        BY <3>2
      <4>2. u[p] = ss[i][j]
        BY <2>2, <3>2
      <4> HIDE DEF p
      <4>3. c[p] = u[p]
        BY <2>2, <2>3, <2>4, <4>1
      <4>4. QED BY <4>2, <4>3 DEF p
    <3>3. QED BY <3>1, <3>2
  <2>7. QED BY <2>3, <2>5, <2>6
<1> HIDE DEF Good
<1>5. m \in Good
  BY <1>1, <1>3, <1>4, Counting
<1>6. Joined(m)
  BY <1>1, <1>5 DEF Good
<1>7. g[m] \in Seq(V)
  BY <1>1, <1>2
<1>8. QED BY <1>2, <1>6, <1>7

\* What is encoded is decoded.
LEMMA Base64Exact == ASSUME NEW v \in Seq(0 .. 2^8 - 1) PROVE base64_decode(base64_encode(v)) = v
<1> DEFINE Byte == 0 .. 2^8 - 1
           n == Len(v)
           cs == Chunks(v, 3)
           m == Len(cs)
           parts == [i \in DOMAIN cs |-> EncodeChunk(cs[i])]
           text == base64_encode(v)
           kept == Filter(text, ToSet(text) \ {Pad})
           dc == Chunks(kept, 4)
<1>1. base64_decode(text) = FlattenSeq([i \in DOMAIN dc |-> DecodeChunk(dc[i])])
  BY DEF base64_decode
<1>2. text = FlattenSeq(parts)
  BY DEF base64_encode
<1>3. Cuts(Byte, v, 3, cs)
  BY ChunksExact
<1>4. n \in Nat
  BY SeqParts
<1>5. v \in Seq(Byte)
  OBVIOUS
<1> HIDE DEF Byte, n, cs, text
<1>6. /\ cs \in Seq(Seq(Byte)) /\ Chunked(n, 3, m)
      /\ \A i \in 1 .. m : Len(cs[i]) = ChunkEnd(v, 3, i) - 3 * (i - 1)
  BY <1>3 DEF Cuts, n
<1>7. m \in Nat /\ (m = 0 <=> n = 0) /\ n <= 3 * m /\ (\A i \in 1 .. m : 3 * (i - 1) < n)
  BY <1>6 DEF Chunked
<1>8. \A i \in 1 .. m : cs[i] \in Seq(Byte)
  BY <1>6
<1>9. \A i : ChunkEnd(v, 3, i) = IF 3 * i < n THEN 3 * i ELSE n
  BY DEF ChunkEnd, n
<1>10. \A i \in 1 .. m - 1 : Len(cs[i]) = 3
  <2> SUFFICES ASSUME NEW i \in 1 .. m - 1 PROVE Len(cs[i]) = 3
    OBVIOUS
  <2>1. i \in 1 .. m /\ i + 1 \in 1 .. m /\ (i + 1) - 1 = i
    BY <1>7
  <2>2. 3 * i < n
    BY <1>7, <2>1
  <2>3. ChunkEnd(v, 3, i) = 3 * i
    BY <1>9, <2>2
  <2> DEFINE L == Len(cs[i])
  <2>4. L = 3 * i - 3 * (i - 1)
    BY <1>6, <2>1, <2>3
  <2> HIDE DEF L
  <2>5. L = 3
    BY <2>4
  <2>6. QED BY <2>5 DEF L
<1>11. ASSUME m # 0 PROVE m \in 1 .. m /\ Len(cs[m]) = n - 3 * (m - 1) /\ 3 * (m - 1) < n
  <2>1. m \in 1 .. m
    BY <1>7, <1>11
  <2>2. ChunkEnd(v, 3, m) = n
    BY <1>4, <1>7, <1>9
  <2>3. QED BY <1>6, <1>7, <2>1, <2>2
<1>12. \A i \in 1 .. m : Len(cs[i]) \in 1 .. 3
  <2> SUFFICES ASSUME NEW i \in 1 .. m PROVE Len(cs[i]) \in 1 .. 3
    OBVIOUS
  <2>1. CASE i = m
    <3> DEFINE L == Len(cs[m])
    <3>1. m \in Nat /\ L = n - 3 * (m - 1) /\ 3 * (m - 1) < n /\ n <= 3 * m
      BY <1>7, <1>11, <2>1
    <3> HIDE DEF L
    <3>2. L \in Int /\ 1 <= L /\ L <= 3
      BY <1>4, <3>1
    <3>3. L \in 1 .. 3
      BY <3>2
    <3>4. QED BY <2>1, <3>3 DEF L
  <2>2. CASE i \in 1 .. m - 1
    BY <1>10, <2>2
  <2>3. QED BY <1>7, <2>1, <2>2
<1>13. DOMAIN cs = 1 .. m
  BY <1>6
<1> HIDE DEF m
<1>14. \A i \in 1 .. m :
          /\ DOMAIN EncodeChunk(cs[i]) = 1 .. 4
          /\ \A j \in 1 .. 4 : /\ EncodeChunk(cs[i])[j] \in Nat
                               /\ EncodeChunk(cs[i])[j] # Pad <=> j <= Len(cs[i]) + 1
  BY <1>8, <1>12, EncodedKinds DEF Byte
<1>15. \A i \in 1 .. m : EncodeChunk(cs[i]) \in Seq(Nat) /\ Len(EncodeChunk(cs[i])) = 4
  <2> SUFFICES ASSUME NEW i \in 1 .. m
               PROVE  EncodeChunk(cs[i]) \in Seq(Nat) /\ Len(EncodeChunk(cs[i])) = 4
    OBVIOUS
  <2> DEFINE e == EncodeChunk(cs[i])
  <2>1. e = [j \in 1 .. 4 |-> e[j]]
    BY DEF EncodeChunk
  <2>2. \A j \in 1 .. 4 : e[j] \in Nat
    BY <1>14
  <2> HIDE DEF e
  <2>3. e \in Seq(Nat) /\ Len(e) = 4
    BY <2>1, <2>2
  <2>4. QED BY <2>3 DEF e
<1>16. parts \in Seq(Seq(Nat)) /\ Len(parts) = m /\ \A i \in 1 .. m : parts[i] = EncodeChunk(cs[i])
  BY <1>7, <1>13, <1>15
<1> HIDE DEF parts
<1>17. /\ text \in Seq(Nat) /\ Len(text) = 4 * m
       /\ \A i \in 1 .. m, j \in 1 .. 4 : text[4 * (i - 1) + j] = EncodeChunk(cs[i])[j]
  <2>1. \A i \in 1 .. Len(parts) : Len(parts[i]) = 4
    BY <1>15, <1>16
  <2>2. /\ FlattenSeq(parts) \in Seq(Nat) /\ Len(FlattenSeq(parts)) = 4 * Len(parts)
        /\ \A i \in 1 .. Len(parts), j \in 1 .. 4 :
             FlattenSeq(parts)[4 * (i - 1) + j] = parts[i][j]
    BY <1>16, <2>1, FoursJoined
  <2>3. QED BY <1>2, <1>16, <2>2
<1>18. \A p \in 1 .. 4 * m : text[p] \in ToSet(text) \ {Pad} <=> p <= n + m
  <2> SUFFICES ASSUME NEW p \in 1 .. 4 * m
               PROVE  text[p] \in ToSet(text) \ {Pad} <=> p <= n + m
    OBVIOUS
  <2>1. text[p] \in ToSet(text)
    BY <1>17 DEF ToSet
  <2> DEFINE i == (p - 1) \div 4 + 1
             j == ((p - 1) % 4) + 1
  <2>2. i \in 1 .. m /\ j \in 1 .. 4 /\ p = 4 * (i - 1) + j
    BY <1>7
  <2> HIDE DEF i, j
  <2>3. text[p] # Pad <=> j <= Len(cs[i]) + 1
    BY <1>14, <1>17, <2>2
  <2>4. j <= Len(cs[i]) + 1 <=> p <= n + m
    <3> DEFINE L == Len(cs[i])
    <3>1. CASE i = m
      <4>1. L = n - 3 * (m - 1)
        BY <1>7, <1>11, <3>1
      <4> HIDE DEF L
      <4>2. j <= L + 1 <=> p <= n + m
        BY <1>4, <1>7, <2>2, <3>1, <4>1
      <4>3. QED BY <4>2 DEF L
    <3>2. CASE i \in 1 .. m - 1
      <4>1. L = 3 /\ 3 * (m - 1) < n
        BY <1>7, <1>10, <1>11, <3>2
      <4> HIDE DEF L
      <4>2. j <= L + 1
        BY <2>2, <4>1
      <4>3. p <= n + m
        BY <1>4, <1>7, <2>2, <3>2, <4>1
      <4>4. QED BY <4>2, <4>3 DEF L
    <3>3. QED BY <1>7, <2>2, <3>1, <3>2
  <2>5. QED BY <2>1, <2>3, <2>4
<1>19. n + m \in Nat /\ n + m <= 4 * m
  BY <1>4, <1>7
<1>20. /\ kept \in Seq(Nat) /\ Len(kept) = n + m
       /\ \A p \in 1 .. n + m : kept[p] = text[p]
  <2> DEFINE S == ToSet(text) \ {Pad}
             k == n + m
  <2>1. \A p \in 1 .. Len(text) : text[p] \in S <=> p <= k
    BY <1>17, <1>18
  <2>2. k \in Nat /\ k <= Len(text) /\ text \in Seq(Nat)
    BY <1>17, <1>19
  <2> HIDE DEF S, k
  <2>3. /\ Filter(text, S) \in Seq(Nat) /\ Len(Filter(text, S)) = k
        /\ \A p \in 1 .. k : Filter(text, S)[p] = text[p]
    BY ONLY <2>1, <2>2, FilterPrefix
  <2>4. QED BY <2>3 DEF S, k
<1> HIDE DEF kept
<1>21. Cuts(Nat, kept, 4, dc)
  BY <1>20, ChunksExact
<1> HIDE DEF dc
<1> DEFINE q == Len(dc)
<1>22. /\ dc \in Seq(Seq(Nat)) /\ Chunked(n + m, 4, q)
       /\ \A i \in 1 .. q : /\ Len(dc[i]) = ChunkEnd(kept, 4, i) - 4 * (i - 1)
                            /\ \A j \in 1 .. Len(dc[i]) : dc[i][j] = kept[4 * (i - 1) + j]
  BY <1>20, <1>21 DEF Cuts
<1>23. q \in Nat /\ (q = 0 <=> n + m = 0) /\ n + m <= 4 * q /\ \A i \in 1 .. q : 4 * (i - 1) < n + m
  BY <1>22 DEF Chunked
<1>24. DOMAIN dc = 1 .. q /\ \A i \in 1 .. q : dc[i] \in Seq(Nat)
  BY <1>22
<1> HIDE DEF q
<1>25. q = m
  <2>1. q # 0 => 4 * (q - 1) < n + m
    <3>1. q # 0 => q \in 1 .. q
      BY <1>23
    <3>2. QED BY <1>23, <3>1
  <2>2. m # 0 => 3 * (m - 1) < n
    BY <1>11
  <2>3. QED BY <1>4, <1>7, <1>23, <2>1, <2>2
<1>26. ASSUME NEW i \in 1 .. m PROVE DecodeChunk(dc[i]) = cs[i]
  <2>1. ChunkEnd(kept, 4, i) = IF 4 * i < n + m THEN 4 * i ELSE n + m
    BY <1>20 DEF ChunkEnd
  <2>2. Len(dc[i]) = Len(cs[i]) + 1
    <3>1. Len(dc[i]) = ChunkEnd(kept, 4, i) - 4 * (i - 1)
      BY <1>22, <1>25
    <3> DEFINE L == Len(cs[i])
               D == Len(dc[i])
               e == ChunkEnd(kept, 4, i)
    <3>2. D = e - 4 * (i - 1) /\ e = IF 4 * i < n + m THEN 4 * i ELSE n + m
      BY <2>1, <3>1
    <3>3. CASE i = m
      <4>1. L = n - 3 * (m - 1)
        BY <1>7, <1>11, <3>3
      <4> HIDE DEF L, D, e
      <4>2. e = n + m
        BY <1>4, <1>7, <3>2, <3>3
      <4>3. D = L + 1
        BY <1>4, <1>7, <3>2, <3>3, <4>1, <4>2
      <4>4. QED BY <4>3 DEF L, D
    <3>4. CASE i \in 1 .. m - 1
      <4>1. L = 3 /\ 3 * (m - 1) < n
        BY <1>7, <1>10, <1>11, <3>4
      <4> HIDE DEF L, D, e
      <4>2. 4 * i <= n + m
        BY <1>4, <1>7, <3>4, <4>1
      <4>3. e = 4 * i
        BY <1>4, <1>7, <3>2, <3>4, <4>2
      <4>4. D = L + 1
        BY <3>2, <3>4, <4>1, <4>3
      <4>5. QED BY <4>4 DEF L, D
    <3>5. QED BY <1>7, <3>3, <3>4
  <2>3. ASSUME NEW j \in 1 .. Len(dc[i]) PROVE dc[i][j] = EncodeChunk(cs[i])[j]
    <3> DEFINE p == 4 * (i - 1) + j
    <3>1. dc[i][j] = kept[p]
      BY <1>22, <1>25
    <3> DEFINE L == Len(cs[i])
    <3>2. j \in 1 .. L + 1 /\ L \in 1 .. 3
      BY <1>12, <2>2
    <3>3. i = m => L = n - 3 * (m - 1)
      BY <1>7, <1>11
    <3>4. 3 * (m - 1) < n
      BY <1>7, <1>11
    <3> HIDE DEF L
    <3>5. j \in 1 .. 4 /\ p \in 1 .. 4 * m
      BY <1>7, <3>2
    <3>6. p \in 1 .. n + m
      <4>1. CASE i = m
        BY <1>4, <1>7, <3>2, <3>3, <4>1
      <4>2. CASE i \in 1 .. m - 1
        BY <1>4, <1>7, <3>5, <3>4, <4>2
      <4>3. QED BY <1>7, <4>1, <4>2
    <3>7. text[p] = EncodeChunk(cs[i])[j]
      BY <1>17, <3>5
    <3> HIDE DEF p
    <3>8. QED BY <1>20, <3>1, <3>6, <3>7
  <2>4. dc[i] \in Seq(Nat) /\ cs[i] \in Seq(Byte) /\ Len(cs[i]) \in 1 .. 3
    BY <1>8, <1>12, <1>24, <1>25
  <2> DEFINE d == dc[i]
             c == cs[i]
  <2>5. \A j \in 1 .. Len(d) : d[j] = EncodeChunk(c)[j]
    BY <2>3
  <2>6. d \in Seq(Nat) /\ c \in Seq(0 .. 2^8 - 1) /\ Len(c) \in 1 .. 3 /\ Len(d) = Len(c) + 1
    BY <2>2, <2>4 DEF Byte
  <2> HIDE DEF d, c
  <2>7. DecodeChunk(d) = c
    BY <2>5, <2>6, DecodedChunk
  <2>8. QED BY <2>7 DEF d, c
<1>27. [i \in DOMAIN dc |-> DecodeChunk(dc[i])] = cs
  <2>1. cs = [i \in 1 .. m |-> cs[i]]
    BY <1>6, SeqParts DEF m
  <2>2. QED BY <1>24, <1>25, <1>26, <2>1
<1>28. FlattenSeq(cs) = v
  BY <1>3, <1>5, ChunksJoined
<1>29. QED BY <1>1, <1>27, <1>28 DEF text

-----------------------------------------------------------------------------
(* What the agent store gives back.                                        *)

\* The casts of a timestamp to signed and back.
LEMMA CastsExact ==
    ASSUME NEW t \in 0 .. 2^Width - 1
    PROVE  /\ Signed(t) \in Int /\ Unsigned(Signed(t)) = t
           /\ t < 2^(Width - 1) => Signed(t) = t
<1> DEFINE M == 2^Width
           H == 2^(Width - 1)
<1>1. M \in Nat \ {0} /\ H \in Nat
  <2>1. Width \in Nat /\ Width - 1 \in Nat
    BY StoreAssumption
  <2>2. QED BY <2>1, PowerIsNat
<1>2. Signed(t) = (IF t % M < H THEN t % M ELSE (t % M) - M) /\ Unsigned(Signed(t)) = Signed(t) % M
  BY DEF Signed, Unsigned
<1>3. t \in 0 .. M - 1
  OBVIOUS
<1> HIDE DEF M, H
<1>4. t % M = t
  <2>1. t = M * 0 + t
    BY <1>1, <1>3
  <2>2. QED BY <1>1, <1>3, <2>1, ModUnique
<1>5. (t - M) % M = t
  <2>1. t - M = M * (-1) + t
    BY <1>1, <1>3
  <2>2. t - M \in Int /\ -1 \in Int
    BY <1>1, <1>3
  <2>3. QED BY <1>1, <1>3, <2>1, <2>2, ModUnique
<1>6. Signed(t) = IF t < H THEN t ELSE t - M
  BY <1>2, <1>4
<1>7. Signed(t) \in Int /\ (t < H => Signed(t) = t)
  BY <1>1, <1>3, <1>6
<1>8. Signed(t) % M = t
  BY <1>4, <1>5, <1>6
<1>9. QED BY <1>2, <1>7, <1>8 DEF H

\* One of some numbers is the last of the greatest.
LEMMA LastGreatest ==
    ASSUME NEW n \in Nat, n # 0, NEW x \in [1 .. n -> Int]
    PROVE  \E j \in 1 .. n : \A k \in 1 .. n : x[k] < x[j] \/ (x[k] = x[j] /\ k <= j)
<1> DEFINE Top(m, j) == \A k \in 1 .. m : x[k] < x[j] \/ (x[k] = x[j] /\ k <= j)
           Good == {m \in Nat : m # 0 /\ m <= n => \E j \in 1 .. m : Top(m, j)}
<1>1. 0 \in Good
  OBVIOUS
<1>2. ASSUME NEW m \in Nat, m \in Good PROVE m + 1 \in Good
  <2> SUFFICES ASSUME m + 1 <= n PROVE \E j \in 1 .. m + 1 : Top(m + 1, j)
    OBVIOUS
  <2>1. \A k \in 1 .. m + 1 : x[k] \in Int
    OBVIOUS
  <2>2. CASE m = 0
    <3>1. Top(m + 1, 1)
      BY <2>1, <2>2
    <3>2. 1 \in 1 .. m + 1
      OBVIOUS
    <3> HIDE DEF Top
    <3>3. QED BY <3>1, <3>2
  <2>3. CASE m # 0
    <3>1. PICK j \in 1 .. m : Top(m, j)
      BY <1>2, <2>3
    <3>2. \A k \in 1 .. m + 1 : k \in 1 .. m \/ k = m + 1
      OBVIOUS
    <3>3. CASE x[m + 1] < x[j]
      <4>1. Top(m + 1, j)
        BY <2>1, <3>1, <3>2, <3>3
      <4>2. j \in 1 .. m + 1
        OBVIOUS
      <4> HIDE DEF Top
      <4>3. QED BY <4>1, <4>2
    <3>4. CASE ~ x[m + 1] < x[j]
      <4>1. ASSUME NEW k \in 1 .. m
            PROVE  x[k] < x[m + 1] \/ (x[k] = x[m + 1] /\ k <= m + 1)
        <5>1. x[k] < x[j] \/ x[k] = x[j]
          BY <3>1
        <5>2. x[k] \in Int /\ x[j] \in Int /\ x[m + 1] \in Int
          BY <2>1
        <5>3. QED BY <3>4, <5>1, <5>2
      <4>2. Top(m + 1, m + 1)
        BY <2>1, <3>2, <4>1
      <4>3. m + 1 \in 1 .. m + 1
        OBVIOUS
      <4> HIDE DEF Top
      <4>4. QED BY <4>2, <4>3
    <3>5. QED BY <3>3, <3>4
  <2>4. QED BY <2>2, <2>3
<1>3. n \in Good
  <2> HIDE DEF Good
  <2>1. QED BY <1>1, <1>2, Counting
<1>4. QED BY <1>3

\* What the record of a put holds.
RecordOf(i) ==
    /\ \A a : Same(table.tuples[i][2], VInt(hash_string(a)))
                <=> hash_string(puts[i].agent) = hash_string(a)
    /\ \A k : Same(table.tuples[i][3], Text(k)) <=> puts[i].key = k
    /\ table.tuples[i][2][2] = hash_string(puts[i].agent)
    /\ table.tuples[i][3][2] = puts[i].key
    /\ base64_decode(table.tuples[i][4][2]) = puts[i].value
    /\ Stamp(table.tuples[i]) = Signed(puts[i].ts) /\ Signed(puts[i].ts) \in Int
    /\ Unsigned(Stamp(table.tuples[i])) = puts[i].ts
    /\ puts[i].ts < 2^(Width - 1) => Stamp(table.tuples[i]) = puts[i].ts

LEMMA RecordsExact == ASSUME RecordsInv PROVE \A i \in 1 .. Len(puts) : RecordOf(i)
<1> SUFFICES ASSUME NEW i \in 1 .. Len(puts) PROVE RecordOf(i)
  OBVIOUS
<1> DEFINE p == puts[i]
           t == table.tuples[i]
<1>1. p \in [agent : Agent, key : KeyName, value : Bytes, ts : Timestamp]
  BY SeqParts DEF RecordsInv
<1>2. t = Record(i, p)
  BY DEF RecordsInv
<1> HIDE DEF p, t
<1>3. /\ t[2] = VInt(hash_string(p.agent)) /\ t[3] = Text(p.key)
      /\ t[4] = Text(base64_encode(p.value)) /\ t[5] = VInt(Signed(p.ts))
  BY <1>2 DEF Record
<1>4. \A x, y : (Same(VInt(x), VInt(y)) <=> x = y) /\ (Same(Text(x), Text(y)) <=> x = y)
  BY DEF Same, VInt, Text, NaN
<1>5. t[2][2] = hash_string(p.agent) /\ t[3][2] = p.key /\ t[4][2] = base64_encode(p.value)
  BY <1>3 DEF VInt, Text
<1>6. Stamp(t) = Signed(p.ts)
  BY <1>3 DEF VInt, Stamp
<1>7. base64_decode(base64_encode(p.value)) = p.value
  <2>1. p.value \in Seq(0 .. 2^8 - 1)
    BY <1>1, StoreAssumption
  <2>2. QED BY <2>1, Base64Exact
<1>8. /\ Signed(p.ts) \in Int /\ Unsigned(Signed(p.ts)) = p.ts
      /\ p.ts < 2^(Width - 1) => Signed(p.ts) = p.ts
  <2>1. p.ts \in 0 .. 2^Width - 1
    BY <1>1, StoreAssumption
  <2>2. QED BY <2>1, CastsExact
<1>9. QED BY <1>3, <1>4, <1>5, <1>6, <1>7, <1>8 DEF RecordOf, p, t

\* found and mine are the records and the puts at the positions pos.
Found(pos, found, mine, T) ==
    /\ Len(found) \in Nat /\ Len(mine) = Len(found)
    /\ DOMAIN found = 1 .. Len(found) /\ DOMAIN mine = 1 .. Len(found)
    /\ pos \in [1 .. Len(found) -> 1 .. Len(puts)]
    /\ \A j \in 1 .. Len(found) : found[j] = table.tuples[pos[j]] /\ mine[j] = puts[pos[j]]
    /\ \A j, k \in 1 .. Len(found) : j < k => pos[j] < pos[k]
    /\ \A i \in 1 .. Len(puts) : puts[i] \in T <=> \E j \in 1 .. Len(found) : pos[j] = i

\* What is selected are the records of some puts, in their order.
LEMMA SelectedAre ==
    ASSUME RecordsInv, NEW S, NEW T,
           \A i \in 1 .. Len(puts) : table.tuples[i] \in S <=> puts[i] \in T
    PROVE  \E pos : Found(pos, select(table, S).tuples, Filter(puts, T), T)
<1> DEFINE n == Len(puts)
           s == table.tuples
           f == Filter(s, S)
           g == Filter(puts, T)
           V == {Record(i, puts[i]) : i \in 1 .. n}
           W == [agent : Agent, key : KeyName, value : Bytes, ts : Timestamp]
<1>1. puts \in Seq(W) /\ n \in Nat /\ s = [i \in 1 .. n |-> Record(i, puts[i])]
  BY DEF RecordsInv
<1>2. s \in Seq(V) /\ Len(s) = n
  BY <1>1
<1>3. select(table, S).tuples = f
  BY DEF select, RecordsInv
<1>4. \A i \in 1 .. n : s[i] \in S <=> puts[i] \in T
  OBVIOUS
<1> HIDE DEF s, V, W
<1>5. /\ f \in Seq(V) /\ g \in Seq(W) /\ Len(f) = Len(g)
      /\ \E pos : Selects(pos, s, n, S, f) /\ Selects(pos, puts, n, T, g)
  <2>1. Len(s) = Len(puts) /\ \A i \in 1 .. Len(s) : s[i] \in S <=> puts[i] \in T
    BY <1>2, <1>4
  <2>2. s \in Seq(V) /\ puts \in Seq(W)
    BY <1>1, <1>2
  <2>3. /\ Filter(s, S) \in Seq(V) /\ Filter(puts, T) \in Seq(W)
        /\ Len(Filter(s, S)) = Len(Filter(puts, T))
        /\ \E pos : /\ Selects(pos, s, Len(s), S, Filter(s, S))
                    /\ Selects(pos, puts, Len(s), T, Filter(puts, T))
    BY ONLY <2>1, <2>2, FilterTwice
  <2>4. QED BY <1>2, <2>3
<1>6. PICK pos : Selects(pos, s, n, S, f) /\ Selects(pos, puts, n, T, g)
  BY <1>5
<1> HIDE DEF f, g
<1>7. DOMAIN f = 1 .. Len(f) /\ DOMAIN g = 1 .. Len(g)
  BY <1>5
<1>8. \A j \in 1 .. Len(f) : f[j] = s[pos[j]] /\ g[j] = puts[pos[j]]
  <2>1. /\ f = [j \in 1 .. Len(f) |-> s[pos[j]]]
        /\ g = [j \in 1 .. Len(f) |-> puts[pos[j]]]
    BY <1>5, <1>6 DEF Selects
  <2>2. QED BY <2>1
<1>9. Found(pos, f, g, T)
  BY <1>5, <1>6, <1>7, <1>8 DEF Selects, Found, s
<1>10. QED BY <1>3, <1>9 DEF g

\* What get_all and query list.
LEMMA ListsFollow == StoreInv => ListsExact
<1> SUFFICES ASSUME StoreInv PROVE ListsExact
  OBVIOUS
<1>1. RecordsInv /\ puts \in Seq([agent : Agent, key : KeyName, value : Bytes, ts : Timestamp])
  BY DEF StoreInv, RecordsInv
<1>2. DOMAIN puts = 1 .. Len(puts) /\ \A i \in 1 .. Len(puts) : puts[i] \in ToSet(puts)
  BY <1>1 DEF ToSet
<1>3. DOMAIN table.tuples = 1 .. Len(puts)
  BY <1>1 DEF RecordsInv
<1>4. \A i \in 1 .. Len(puts) : table.tuples[i] \in Tuples
  BY <1>3 DEF Tuples, ToSet
<1>5. \A i \in 1 .. Len(puts) : RecordOf(i)
  BY <1>1, RecordsExact
<1>6. ASSUME NEW a \in Agent, Alone(a)
      PROVE  LET mine == Filter(puts, {p \in ToSet(puts) : p.agent = a})
             IN get_all(a) = [i \in DOMAIN mine |-> <<mine[i].key, mine[i].value, mine[i].ts>>]
  <2> DEFINE S == {t \in Tuples : Same(t[2], VInt(hash_string(a)))}
             T == {p \in ToSet(puts) : p.agent = a}
             found == select(table, S).tuples
             mine == Filter(puts, T)
             given == [i \in DOMAIN found |->
                         <<found[i][3][2], base64_decode(found[i][4][2]), Unsigned(Stamp(found[i]))>>]
  <2>1. get_all(a) = given
    BY DEF get_all
  <2>2. \A i \in 1 .. Len(puts) : table.tuples[i] \in S <=> puts[i] \in T
    <3> SUFFICES ASSUME NEW i \in 1 .. Len(puts) PROVE table.tuples[i] \in S <=> puts[i] \in T
      OBVIOUS
    <3>1. table.tuples[i] \in S <=> hash_string(puts[i].agent) = hash_string(a)
      BY <1>4, <1>5 DEF RecordOf
    <3>2. hash_string(puts[i].agent) = hash_string(a) <=> puts[i].agent = a
      BY <1>2, <1>6 DEF Alone
    <3>3. puts[i] \in T <=> puts[i].agent = a
      BY <1>2
    <3>4. QED BY <3>1, <3>2, <3>3
  <2> HIDE DEF S, T
  <2>3. PICK pos : Found(pos, found, mine, T)
    BY <1>1, <2>2, SelectedAre
  <2> HIDE DEF found, mine
  <2>4. /\ DOMAIN found = 1 .. Len(found) /\ DOMAIN mine = 1 .. Len(found)
        /\ \A j \in 1 .. Len(found) :
             pos[j] \in 1 .. Len(puts) /\ found[j] = table.tuples[pos[j]] /\ mine[j] = puts[pos[j]]
    BY <2>3 DEF Found
  <2>5. ASSUME NEW j \in 1 .. Len(found)
        PROVE  <<found[j][3][2], base64_decode(found[j][4][2]), Unsigned(Stamp(found[j]))>>
                 = <<mine[j].key, mine[j].value, mine[j].ts>>
    <3>1. RecordOf(pos[j])
      BY <1>5, <2>4
    <3>2. QED BY <2>4, <3>1 DEF RecordOf
  <2>6. given = [i \in DOMAIN mine |-> <<mine[i].key, mine[i].value, mine[i].ts>>]
    BY <2>4, <2>5
  <2> HIDE DEF given
  <2>7. QED BY <2>1, <2>6 DEF mine, T
<1>7. ASSUME NEW k \in KeyName
      PROVE  LET under == Filter(puts, {p \in ToSet(puts) : p.key = k})
             IN query({t \in Tuples : Same(t[3], Text(k))}) =
                  [i \in DOMAIN under |->
                     [agent_id |-> hash_string(under[i].agent), key |-> k,
                      value |-> under[i].value, timestamp |-> under[i].ts]]
  <2> DEFINE S == {t \in Tuples : Same(t[3], Text(k))}
             T == {p \in ToSet(puts) : p.key = k}
             found == select(table, S).tuples
             under == Filter(puts, T)
             given == [i \in DOMAIN found |->
                         [agent_id |-> found[i][2][2], key |-> found[i][3][2],
                          value |-> base64_decode(found[i][4][2]),
                          timestamp |-> Unsigned(Stamp(found[i]))]]
  <2>1. query(S) = given
    BY DEF query
  <2>2. \A i \in 1 .. Len(puts) : table.tuples[i] \in S <=> puts[i] \in T
    <3> SUFFICES ASSUME NEW i \in 1 .. Len(puts) PROVE table.tuples[i] \in S <=> puts[i] \in T
      OBVIOUS
    <3>1. table.tuples[i] \in S <=> puts[i].key = k
      BY <1>4, <1>5 DEF RecordOf
    <3>2. puts[i] \in T <=> puts[i].key = k
      BY <1>2
    <3>3. QED BY <3>1, <3>2
  <2>3. \A p \in T : p.key = k
    OBVIOUS
  <2> HIDE DEF S, T
  <2>4. PICK pos : Found(pos, found, under, T)
    BY <1>1, <2>2, SelectedAre
  <2> HIDE DEF found, under
  <2>5. /\ DOMAIN found = 1 .. Len(found) /\ DOMAIN under = 1 .. Len(found)
        /\ \A j \in 1 .. Len(found) :
             /\ pos[j] \in 1 .. Len(puts) /\ puts[pos[j]] \in T
             /\ found[j] = table.tuples[pos[j]] /\ under[j] = puts[pos[j]]
    BY <2>4 DEF Found
  <2>6. ASSUME NEW j \in 1 .. Len(found)
        PROVE  /\ found[j][2][2] = hash_string(under[j].agent) /\ found[j][3][2] = k
               /\ base64_decode(found[j][4][2]) = under[j].value
               /\ Unsigned(Stamp(found[j])) = under[j].ts
    <3>1. RecordOf(pos[j]) /\ under[j].key = k
      BY <1>5, <2>3, <2>5
    <3>2. QED BY <2>5, <3>1 DEF RecordOf
  <2>7. given = [i \in DOMAIN under |->
                   [agent_id |-> hash_string(under[i].agent), key |-> k,
                    value |-> under[i].value, timestamp |-> under[i].ts]]
    BY <2>5, <2>6
  <2> HIDE DEF given
  <2>8. QED BY <2>1, <2>7 DEF under, S, T
<1>8. QED BY <1>6, <1>7 DEF ListsExact

\* What get gives.
LEMMA GetFollows == StoreInv => GetExact
<1> SUFFICES ASSUME StoreInv PROVE GetExact
  OBVIOUS
<1>1. RecordsInv /\ puts \in Seq([agent : Agent, key : KeyName, value : Bytes, ts : Timestamp])
  BY DEF StoreInv, RecordsInv
<1> DEFINE n == Len(puts)
<1>2. n \in Nat /\ DOMAIN puts = 1 .. n /\ \A i \in 1 .. n : puts[i] \in ToSet(puts) /\ puts[i].ts \in Timestamp
  <2>1. n \in Nat /\ DOMAIN puts = 1 .. n
    BY <1>1
  <2>2. \A i \in 1 .. n : puts[i] \in [agent : Agent, key : KeyName, value : Bytes, ts : Timestamp]
    BY <1>1, SeqParts
  <2>3. QED BY <2>1, <2>2 DEF ToSet
<1>3. DOMAIN table.tuples = 1 .. n
  BY <1>1 DEF RecordsInv
<1>4. \A i \in 1 .. n : table.tuples[i] \in Tuples
  BY <1>3 DEF Tuples, ToSet
<1>5. \A i \in 1 .. n : RecordOf(i)
  BY <1>1, RecordsExact
<1> SUFFICES ASSUME NEW a \in Agent, NEW k \in KeyName
             PROVE  LET mine == {i \in DOMAIN puts : puts[i].agent = a /\ puts[i].key = k}
                        top == {i \in mine : \A j \in mine : puts[j].ts <= puts[i].ts}
                    IN Alone(a) /\ (\A i \in mine : puts[i].ts < 2^(Width - 1)) =>
                         get(a, k) = {puts[i].value : i \in {j \in top : \A l \in top : l <= j}}
  BY DEF GetExact
<1> DEFINE mine == {i \in DOMAIN puts : puts[i].agent = a /\ puts[i].key = k}
           top == {i \in mine : \A j \in mine : puts[j].ts <= puts[i].ts}
           last == {j \in top : \A l \in top : l <= j}
<1> SUFFICES ASSUME Alone(a), \A i \in mine : puts[i].ts < 2^(Width - 1)
             PROVE  get(a, k) = {puts[i].value : i \in last}
  OBVIOUS
<1> DEFINE S == {t \in Tuples : /\ Same(t[2], VInt(hash_string(a)))
                                /\ Same(t[3], Text(k))}
           T == {p \in ToSet(puts) : p.agent = a /\ p.key = k}
           found == select(table, S).tuples
<1>6. get(a, k) = IF found = <<>> THEN {} ELSE {base64_decode(Latest(found)[4][2])}
  BY DEF get
<1>7. \A i \in 1 .. n : table.tuples[i] \in S <=> puts[i] \in T
  <2> SUFFICES ASSUME NEW i \in 1 .. n PROVE table.tuples[i] \in S <=> puts[i] \in T
    OBVIOUS
  <2>1. table.tuples[i] \in S <=> hash_string(puts[i].agent) = hash_string(a) /\ puts[i].key = k
    BY <1>4, <1>5 DEF RecordOf
  <2>2. hash_string(puts[i].agent) = hash_string(a) <=> puts[i].agent = a
    BY <1>2 DEF Alone
  <2>3. puts[i] \in T <=> puts[i].agent = a /\ puts[i].key = k
    BY <1>2
  <2>4. QED BY <2>1, <2>2, <2>3
<1>8. \A i \in 1 .. n : puts[i] \in T <=> i \in mine
  BY <1>2
<1>9. \A i \in mine : i \in 1 .. n
  BY <1>2
<1> HIDE DEF S, T
<1>10. PICK pos : Found(pos, found, Filter(puts, T), T)
  BY <1>1, <1>7, SelectedAre
<1> DEFINE m == Len(found)
           x == [j \in 1 .. m |-> puts[pos[j]].ts]
<1> HIDE DEF mine
<1>11. /\ m \in Nat /\ DOMAIN found = 1 .. m
       /\ \A j \in 1 .. m : pos[j] \in mine /\ pos[j] \in 1 .. n /\ found[j] = table.tuples[pos[j]]
       /\ \A j, l \in 1 .. m : j < l => pos[j] < pos[l]
       /\ \A i \in mine : \E j \in 1 .. m : pos[j] = i
  <2>1. \A j \in 1 .. m : pos[j] \in 1 .. n /\ puts[pos[j]] \in T
    BY <1>10 DEF Found
  <2>2. QED BY <1>8, <1>9, <1>10, <2>1 DEF Found
<1>12. found = <<>> <=> m = 0
  BY <1>11
<1> HIDE DEF found, m
<1>13. \A i \in Timestamp : i \in Int
  BY StoreAssumption
<1>14. x \in [1 .. m -> Int] /\ \A j \in 1 .. m : x[j] = puts[pos[j]].ts
  BY <1>2, <1>11, <1>13
<1>15. \A j \in 1 .. m : Stamp(found[j]) = x[j]
  BY <1>5, <1>11, <1>14 DEF RecordOf
<1>16. CASE m = 0
  <2>1. mine = {}
    BY <1>11, <1>16
  <2>2. QED BY <1>6, <1>12, <1>16, <2>1
<1>17. CASE m # 0
  <2> DEFINE Top(j) == \A l \in DOMAIN found :
                 \/ Stamp(found[l]) < Stamp(found[j])
                 \/ Stamp(found[l]) = Stamp(found[j]) /\ l <= j
             J == CHOOSE j \in DOMAIN found : Top(j)
  <2> HIDE DEF x
  <2>1. \E j \in 1 .. m : \A l \in 1 .. m : x[l] < x[j] \/ (x[l] = x[j] /\ l <= j)
    BY <1>11, <1>14, <1>17, LastGreatest
  <2>2. \E j \in DOMAIN found : Top(j)
    <3>1. PICK j \in 1 .. m : \A l \in 1 .. m : x[l] < x[j] \/ (x[l] = x[j] /\ l <= j)
      BY <2>1
    <3>2. Top(j)
      BY <1>11, <1>15, <3>1
    <3> HIDE DEF Top
    <3>3. QED BY <1>11, <3>2
  <2> HIDE DEF Top
  <2>3. J \in DOMAIN found /\ Top(J)
    BY <2>2
  <2>4. Latest(found) = found[J]
    BY DEF Latest, Top
  <2> HIDE DEF J
  <2>5. J \in 1 .. m /\ \A l \in 1 .. m : x[l] < x[J] \/ (x[l] = x[J] /\ l <= J)
    BY <1>11, <1>15, <2>3 DEF Top
  <2>6. \A l \in 1 .. m : x[l] \in Int
    BY <1>14
  <2>7. pos[J] \in top
    <3>1. \A i \in mine : puts[i].ts <= puts[pos[J]].ts
      <4> SUFFICES ASSUME NEW i \in mine PROVE puts[i].ts <= puts[pos[J]].ts
        OBVIOUS
      <4>1. PICK l \in 1 .. m : pos[l] = i
        BY <1>11
      <4>2. x[l] <= x[J]
        BY <2>5, <2>6
      <4>3. QED BY <1>14, <2>5, <4>1, <4>2
    <3>2. QED BY <1>11, <2>5, <3>1
  <2>8. \A i \in top : i <= pos[J]
    <3> SUFFICES ASSUME NEW i \in top PROVE i <= pos[J]
      OBVIOUS
    <3>1. i \in mine /\ puts[pos[J]].ts <= puts[i].ts
      BY <2>7
    <3>2. PICK l \in 1 .. m : pos[l] = i
      BY <1>11, <3>1
    <3>3. x[J] <= x[l]
      BY <1>14, <2>5, <3>1, <3>2
    <3>4. l <= J
      BY <2>5, <2>6, <3>3
    <3>5. l = J \/ l < J
      BY <1>11, <2>5, <3>4
    <3>6. pos[l] = pos[J] \/ pos[l] < pos[J]
      BY <1>11, <2>5, <3>5
    <3>7. pos[l] \in Int /\ pos[J] \in Int
      BY <1>11, <2>5
    <3>8. QED BY <3>2, <3>6, <3>7
  <2>9. \A i \in top : i \in Int
    BY <1>2, <1>9
  <2> HIDE DEF top
  <2>10. last = {pos[J]}
    <3>1. ASSUME NEW i \in last PROVE i = pos[J]
      <4>1. i \in top /\ pos[J] <= i /\ i <= pos[J]
        BY <2>7, <2>8, <3>1
      <4>2. QED BY <2>7, <2>9, <4>1
    <3>2. pos[J] \in last
      BY <2>7, <2>8
    <3>3. QED BY <3>1, <3>2
  <2>11. base64_decode(found[J][4][2]) = puts[pos[J]].value
    BY <1>5, <1>11, <2>5 DEF RecordOf
  <2> HIDE DEF last
  <2>12. QED BY <1>6, <1>12, <1>17, <2>4, <2>10, <2>11
<1>18. QED BY <1>16, <1>17

\* get gives an agent that shares its hash with no other the value that it
\* put under the key with the greatest timestamp, the last of these, in
\* whatever order the puts came, as long as no timestamp has its highest bit
\* set.
THEOREM GetAlwaysExact == StoreSpec => []GetExact
<1>1. StoreSpec => []StoreInv
  BY StoreAlways
<1>2. StoreInv => GetExact
  BY GetFollows
<1>3. QED BY <1>1, <1>2, PTL

\* get_all and query give the puts they select, in their order, with the
\* values and the timestamps that were put.
THEOREM ListsAlwaysExact == StoreSpec => []ListsExact
<1>1. StoreSpec => []StoreInv
  BY StoreAlways
<1>2. StoreInv => ListsExact
  BY ListsFollow
<1>3. QED BY <1>1, <1>2, PTL

-----------------------------------------------------------------------------
(* Relations and what they mean.                                           *)

\* A relation as the session keeps it.
Sound(r) == IsRelation(r) /\ DistinctNames(r.schema) /\ Distinct(r.tuples)

\* A tuple as a function from column names.
Row(r, t) == [c \in Columns(r) |-> t[column_index(r, c)]]

\* A column is found at its position.
LEMMA ColumnExact ==
    ASSUME NEW r, DistinctNames(r.schema), NEW i \in DOMAIN r.schema
    PROVE  column_index(r, r.schema[i]) = i
<1> DEFINE Is(k) == /\ r.schema[k] = r.schema[i]
                    /\ \A j \in DOMAIN r.schema : r.schema[j] = r.schema[i] => k <= j
<1>1. \A j \in DOMAIN r.schema : r.schema[j] = r.schema[i] => j = i
  BY DEF DistinctNames, IsInjective
<1>2. QED BY <1>1 DEF column_index

\* A column has a position.
LEMMA ColumnAt ==
    ASSUME NEW r, DistinctNames(r.schema), NEW c \in Columns(r)
    PROVE  column_index(r, c) \in DOMAIN r.schema /\ r.schema[column_index(r, c)] = c
<1>1. PICK i \in DOMAIN r.schema : c = r.schema[i]
  BY DEF Columns
<1>2. QED BY <1>1, ColumnExact

\* What a row has in a column is what the tuple has at its position.
LEMMA RowExact ==
    ASSUME NEW r, DistinctNames(r.schema), NEW t
    PROVE  /\ DOMAIN Row(r, t) = Columns(r)
           /\ \A i \in DOMAIN r.schema : r.schema[i] \in Columns(r) /\ Row(r, t)[r.schema[i]] = t[i]
<1>1. ASSUME NEW i \in DOMAIN r.schema
      PROVE  r.schema[i] \in Columns(r) /\ column_index(r, r.schema[i]) = i
  BY ColumnExact DEF Columns
<1>2. QED BY <1>1 DEF Row

\* A function on the columns with these values is the row.
LEMMA RowOf ==
    ASSUME NEW r, DistinctNames(r.schema), NEW t, NEW f, f = [c \in Columns(r) |-> f[c]],
           \A i \in DOMAIN r.schema : f[r.schema[i]] = t[i]
    PROVE  f = Row(r, t)
<1>1. ASSUME NEW c \in Columns(r) PROVE f[c] = t[column_index(r, c)]
  BY ColumnAt
<1>2. QED BY <1>1 DEF Row

\* The rows of a relation.
LEMMA MeaningRows == ASSUME NEW r PROVE Meaning(r) = {Row(r, t) : t \in ToSet(r.tuples)}
BY DEF Meaning, Row

\* What a relation of the session is made of.
LEMMA SoundParts ==
    ASSUME NEW r, Sound(r)
    PROVE  /\ r = Relation(r.schema, r.tuples)
           /\ Len(r.schema) \in Nat /\ DOMAIN r.schema = 1 .. Len(r.schema)
           /\ r.schema \in Seq(ToSet(r.schema)) /\ Columns(r) = ToSet(r.schema)
           /\ DistinctNames(r.schema)
           /\ r.tuples \in Seq(ToSet(r.tuples)) /\ Distinct(r.tuples)
           /\ \A t \in ToSet(r.tuples) :
                 IsTuple(t) /\ Len(t) = Len(r.schema) /\ DOMAIN t = 1 .. Len(r.schema)
<1>1. /\ r = Relation(r.schema, r.tuples)
      /\ r.schema \in Seq(ToSet(r.schema)) /\ r.tuples \in Seq(ToSet(r.tuples))
      /\ \A t \in ToSet(r.tuples) : t \in Seq(ToSet(t)) /\ Len(t) = Len(r.schema)
  BY DEF Sound, IsRelation
<1>2. DistinctNames(r.schema) /\ Distinct(r.tuples)
  BY DEF Sound
<1>3. Columns(r) = ToSet(r.schema)
  BY DEF Columns, ToSet
<1>4. Len(r.schema) \in Nat /\ DOMAIN r.schema = 1 .. Len(r.schema)
  BY <1>1
<1>5. ASSUME NEW t \in ToSet(r.tuples) PROVE IsTuple(t) /\ DOMAIN t = 1 .. Len(r.schema)
  <2>1. t \in Seq(ToSet(t)) /\ Len(t) = Len(r.schema)
    BY <1>1
  <2>2. QED BY <2>1 DEF IsTuple
<1>6. QED BY <1>1, <1>2, <1>3, <1>4, <1>5

\* And what makes one.
LEMMA SoundMade ==
    ASSUME NEW S, NEW schema \in Seq(S), DistinctNames(schema),
           NEW V, NEW tuples \in Seq(V), Distinct(tuples),
           \A t \in ToSet(tuples) : IsTuple(t) /\ Len(t) = Len(schema)
    PROVE  Sound(Relation(schema, tuples))
<1>1. schema \in Seq(ToSet(schema))
  BY DEF ToSet
<1>2. tuples \in Seq(ToSet(tuples))
  BY DEF ToSet
<1>3. Relation(schema, tuples).schema = schema /\ Relation(schema, tuples).tuples = tuples
  BY DEF Relation
<1> DEFINE r == Relation(schema, tuples)
<1> HIDE DEF r
<1>4. IsRelation(r)
  BY <1>1, <1>2, <1>3 DEF IsRelation, IsTuple, r
<1>5. QED BY <1>3, <1>4 DEF Sound, r

\* Rows are made by the schema alone.
LEMMA RowSchema ==
    ASSUME NEW r, NEW q, q.schema = r.schema
    PROVE  Columns(q) = Columns(r) /\ \A t : Row(q, t) = Row(r, t)
BY DEF Columns, Row, column_index

\* Different tuples have different rows.
LEMMA RowInjective ==
    ASSUME NEW r, Sound(r), NEW t, IsTuple(t), Len(t) = Len(r.schema),
           NEW u, IsTuple(u), Len(u) = Len(r.schema), Row(r, t) = Row(r, u)
    PROVE  t = u
<1> DEFINE n == Len(r.schema)
<1>1. n \in Nat /\ DOMAIN r.schema = 1 .. n /\ DistinctNames(r.schema)
  BY SoundParts
<1>2. t = [i \in 1 .. n |-> t[i]] /\ u = [i \in 1 .. n |-> u[i]]
  BY DEF IsTuple
<1> HIDE DEF n
<1>3. ASSUME NEW i \in 1 .. n PROVE t[i] = u[i]
  <2>1. Row(r, t)[r.schema[i]] = t[i] /\ Row(r, u)[r.schema[i]] = u[i]
    BY <1>1, RowExact
  <2>2. QED BY <2>1
<1>4. QED BY <1>2, <1>3

\* A value that is not a number shows in the row.
LEMMA RowNaN ==
    ASSUME NEW r, Sound(r), NEW t
    PROVE  HasNaN(Row(r, t)) <=> \E i \in 1 .. Len(r.schema) : t[i] = NaN
<1>1. DOMAIN r.schema = 1 .. Len(r.schema) /\ DistinctNames(r.schema)
  BY SoundParts
<1>2. /\ DOMAIN Row(r, t) = Columns(r)
      /\ \A i \in DOMAIN r.schema : r.schema[i] \in Columns(r) /\ Row(r, t)[r.schema[i]] = t[i]
  BY <1>1, RowExact
<1>3. \A c \in Columns(r) : \E i \in DOMAIN r.schema : c = r.schema[i]
  BY DEF Columns
<1>4. QED BY <1>1, <1>2, <1>3 DEF HasNaN

\* What select answers is a relation of the rows selected.
LEMMA SelectSound ==
    ASSUME NEW r, Sound(r), NEW P
    PROVE  /\ Sound(select(r, P))
           /\ Meaning(select(r, P)) = {Row(r, t) : t \in ToSet(r.tuples) \intersect P}
<1> DEFINE T == Filter(r.tuples, P)
           q == Relation(r.schema, T)
           V == ToSet(r.tuples)
<1>1. /\ r = Relation(r.schema, r.tuples)
      /\ r.schema \in Seq(ToSet(r.schema)) /\ DistinctNames(r.schema)
      /\ r.tuples \in Seq(V) /\ Distinct(r.tuples)
      /\ \A t \in V : IsTuple(t) /\ Len(t) = Len(r.schema)
  BY SoundParts
<1> HIDE DEF V
<1>2. T \in Seq(V) /\ ToSet(T) = ToSet(r.tuples) \intersect P /\ Distinct(T)
  BY <1>1, FilterExact, FilterDistinct
<1> HIDE DEF T
<1>3. select(r, P) = q
  BY <1>1 DEF select, Relation, T
<1>4. Sound(q)
  <2>1. \A t \in ToSet(T) : IsTuple(t) /\ Len(t) = Len(r.schema)
    BY <1>1, <1>2 DEF V
  <2>2. QED BY <1>1, <1>2, <2>1, SoundMade
<1>5. q.schema = r.schema /\ q.tuples = T
  BY DEF Relation
<1> HIDE DEF q
<1>6. Meaning(q) = {Row(q, t) : t \in ToSet(T)}
  BY <1>5, MeaningRows
<1>7. \A t : Row(q, t) = Row(r, t)
  BY <1>5, RowSchema
<1>8. QED BY <1>2, <1>3, <1>4, <1>6, <1>7

\* The rows selected are those of which something is true if the tuples are.
LEMMA SelectWhere ==
    ASSUME NEW r, Sound(r), NEW P, NEW Q, Q \subseteq Meaning(r),
           \A t \in ToSet(r.tuples) : t \in P <=> Row(r, t) \in Q
    PROVE  Sound(select(r, P)) /\ Meaning(select(r, P)) = Q
<1>1. {Row(r, t) : t \in ToSet(r.tuples) \intersect P} = Q
  BY MeaningRows
<1>2. QED BY <1>1, SelectSound

\* The tuples and the rows with c equal to v.
SameTuples(r, c, v) == {t \in ToSet(r.tuples) : Same(t[column_index(r, c)], v)}

SameRows(rows, c, v) == {row \in rows : row[c] = v /\ v # NaN}

\* select by a value of a column.
LEMMA SelectSame ==
    ASSUME NEW r, Sound(r), NEW c \in Columns(r), NEW v
    PROVE  /\ Sound(select(r, SameTuples(r, c, v)))
           /\ Meaning(select(r, SameTuples(r, c, v))) = SameRows(Meaning(r), c, v)
<1> DEFINE P == {t \in ToSet(r.tuples) : Same(t[column_index(r, c)], v)}
           Q == {row \in Meaning(r) : row[c] = v /\ v # NaN}
<1>1. ASSUME NEW t \in ToSet(r.tuples) PROVE t \in P <=> Row(r, t) \in Q
  <2>1. Row(r, t)[c] = t[column_index(r, c)]
    BY DEF Row
  <2>2. Row(r, t) \in Meaning(r)
    BY MeaningRows
  <2>3. QED BY <2>1, <2>2 DEF Same
<1>2. Q \subseteq Meaning(r) /\ \A t \in ToSet(r.tuples) : t \in P <=> Row(r, t) \in Q
  BY <1>1
<1> HIDE DEF P, Q
<1>3. Sound(select(r, P)) /\ Meaning(select(r, P)) = Q
  BY <1>2, SelectWhere
<1>4. QED BY <1>3 DEF P, Q, SameTuples, SameRows

\* The tuples and the rows with c less than v.
LessTuples(r, c, v) == {t \in ToSet(r.tuples) : Less(t[column_index(r, c)], v)}

LessRows(rows, c, v) == {row \in rows : Less(row[c], v)}

\* select by a bound on a column.
LEMMA SelectLess ==
    ASSUME NEW r, Sound(r), NEW c \in Columns(r), NEW v
    PROVE  /\ Sound(select(r, LessTuples(r, c, v)))
           /\ Meaning(select(r, LessTuples(r, c, v))) = LessRows(Meaning(r), c, v)
<1> DEFINE P == {t \in ToSet(r.tuples) : Less(t[column_index(r, c)], v)}
           Q == {row \in Meaning(r) : Less(row[c], v)}
<1>1. ASSUME NEW t \in ToSet(r.tuples) PROVE t \in P <=> Row(r, t) \in Q
  <2>1. Row(r, t)[c] = t[column_index(r, c)]
    BY DEF Row
  <2>2. Row(r, t) \in Meaning(r)
    BY MeaningRows
  <2>3. QED BY <2>1, <2>2
<1>2. Q \subseteq Meaning(r) /\ \A t \in ToSet(r.tuples) : t \in P <=> Row(r, t) \in Q
  BY <1>1
<1> HIDE DEF P, Q
<1>3. Sound(select(r, P)) /\ Meaning(select(r, P)) = Q
  BY <1>2, SelectWhere
<1>4. QED BY <1>3 DEF P, Q, LessTuples, LessRows

\* A list contains a tuple if it has it, and it has only numbers.
LEMMA ContainsExact ==
    ASSUME NEW s, Sound(s), NEW t, IsTuple(t), Len(t) = Len(s.schema)
    PROVE  contains(s.tuples, t) <=> Row(s, t) \in Meaning(s) /\ ~ HasNaN(Row(s, t))
<1>1. /\ s.tuples \in Seq(ToSet(s.tuples))
      /\ \A u \in ToSet(s.tuples) : IsTuple(u) /\ Len(u) = Len(s.schema)
  BY SoundParts
<1>2. DOMAIN t = 1 .. Len(s.schema)
  BY DEF IsTuple
<1>3. contains(s.tuples, t) <=> \E u \in ToSet(s.tuples) : SameTuple(u, t)
  BY DEF contains, ToSet
<1>4. \A u \in ToSet(s.tuples) : SameTuple(u, t) <=> u = t /\ \A i \in DOMAIN u : u[i] # NaN
  BY <1>1, SameTupleExact
<1>5. contains(s.tuples, t) <=> t \in ToSet(s.tuples) /\ ~ HasNaN(Row(s, t))
  <2>1. HasNaN(Row(s, t)) <=> \E i \in DOMAIN t : t[i] = NaN
    BY <1>2, RowNaN
  <2>2. QED BY <1>3, <1>4, <2>1
<1>6. Row(s, t) \in Meaning(s) <=> t \in ToSet(s.tuples)
  <2>1. ASSUME Row(s, t) \in Meaning(s) PROVE t \in ToSet(s.tuples)
    <3>1. PICK u \in ToSet(s.tuples) : Row(s, t) = Row(s, u)
      BY <2>1, MeaningRows
    <3>2. t = u
      BY <1>1, <3>1, RowInjective
    <3>3. QED BY <3>2
  <2>2. QED BY <2>1, MeaningRows
<1>7. QED BY <1>5, <1>6

\* difference, on rows.
LEMMA DifferenceSound ==
    ASSUME NEW r, Sound(r), NEW s, Sound(s), r.schema = s.schema
    PROVE  /\ Sound(difference(r, s))
           /\ Meaning(difference(r, s))
                = {row \in Meaning(r) : row \notin Meaning(s) \/ HasNaN(row)}
<1> DEFINE P == {t \in ToSet(r.tuples) : ~ contains(s.tuples, t)}
           Q == {row \in Meaning(r) : row \notin Meaning(s) \/ HasNaN(row)}
<1>1. ASSUME NEW t \in ToSet(r.tuples) PROVE t \in P <=> Row(r, t) \in Q
  <2>1. IsTuple(t) /\ Len(t) = Len(s.schema)
    BY SoundParts
  <2>2. contains(s.tuples, t) <=> Row(s, t) \in Meaning(s) /\ ~ HasNaN(Row(s, t))
    BY <2>1, ContainsExact
  <2>3. Row(s, t) = Row(r, t)
    BY RowSchema
  <2>4. Row(r, t) \in Meaning(r)
    BY MeaningRows
  <2>5. QED BY <2>2, <2>3, <2>4
<1>2. Q \subseteq Meaning(r) /\ \A t \in ToSet(r.tuples) : t \in P <=> Row(r, t) \in Q
  BY <1>1
<1>3. difference(r, s) = select(r, P)
  BY DEF difference
<1> HIDE DEF P, Q
<1>4. Sound(select(r, P)) /\ Meaning(select(r, P)) = Q
  BY <1>2, SelectWhere
<1>5. QED BY <1>3, <1>4 DEF Q

\* intersection, on rows.
LEMMA IntersectionSound ==
    ASSUME NEW r, Sound(r), NEW s, Sound(s), r.schema = s.schema
    PROVE  /\ Sound(intersection(r, s))
           /\ Meaning(intersection(r, s))
                = {row \in Meaning(r) \intersect Meaning(s) : ~ HasNaN(row)}
<1> DEFINE P == {t \in ToSet(r.tuples) : contains(s.tuples, t)}
           Q == {row \in Meaning(r) \intersect Meaning(s) : ~ HasNaN(row)}
<1>1. ASSUME NEW t \in ToSet(r.tuples) PROVE t \in P <=> Row(r, t) \in Q
  <2>1. IsTuple(t) /\ Len(t) = Len(s.schema)
    BY SoundParts
  <2>2. contains(s.tuples, t) <=> Row(s, t) \in Meaning(s) /\ ~ HasNaN(Row(s, t))
    BY <2>1, ContainsExact
  <2>3. Row(s, t) = Row(r, t)
    BY RowSchema
  <2>4. Row(r, t) \in Meaning(r)
    BY MeaningRows
  <2>5. QED BY <2>2, <2>3, <2>4
<1>2. Q \subseteq Meaning(r) /\ \A t \in ToSet(r.tuples) : t \in P <=> Row(r, t) \in Q
  BY <1>1
<1>3. intersection(r, s) = select(r, P)
  BY DEF intersection
<1> HIDE DEF P, Q
<1>4. Sound(select(r, P)) /\ Meaning(select(r, P)) = Q
  BY <1>2, SelectWhere
<1>5. QED BY <1>3, <1>4 DEF Q

\* union, on rows.
LEMMA UnionSound ==
    ASSUME NEW r, Sound(r), NEW s, Sound(s), r.schema = s.schema
    PROVE  Sound(union(r, s)) /\ Meaning(union(r, s)) = Meaning(r) \union Meaning(s)
<1> DEFINE V == ToSet(r.tuples) \union ToSet(s.tuples)
           T == AddNew(r.tuples, s.tuples)
           q == Relation(r.schema, T)
<1>1. /\ r = Relation(r.schema, r.tuples)
      /\ r.schema \in Seq(ToSet(r.schema)) /\ DistinctNames(r.schema)
      /\ r.tuples \in Seq(ToSet(r.tuples)) /\ Distinct(r.tuples)
      /\ s.tuples \in Seq(ToSet(s.tuples))
  BY SoundParts
<1>2. \A t \in V : IsTuple(t) /\ Len(t) = Len(r.schema)
  BY SoundParts
<1>3. r.tuples \in Seq(V) /\ s.tuples \in Seq(V)
  BY <1>1
<1>4. ToSet(r.tuples) \union ToSet(s.tuples) = V
  OBVIOUS
<1> HIDE DEF V
<1>5. T \in Seq(V) /\ ToSet(T) = ToSet(r.tuples) \union ToSet(s.tuples) /\ Distinct(T)
  BY <1>1, <1>2, <1>3, AddNewExact
<1> HIDE DEF T
<1>6. union(r, s) = q
  BY <1>1 DEF union, Relation, T
<1>7. Sound(q)
  <2>1. \A t \in ToSet(T) : IsTuple(t) /\ Len(t) = Len(r.schema)
    BY <1>2, <1>4, <1>5
  <2>2. QED BY <1>1, <1>5, <2>1, SoundMade
<1>8. q.schema = r.schema /\ q.tuples = T
  BY DEF Relation
<1> HIDE DEF q
<1>9. Meaning(q) = {Row(q, t) : t \in ToSet(T)}
  BY <1>8, MeaningRows
<1>10. \A t : Row(q, t) = Row(r, t) /\ Row(s, t) = Row(r, t)
  BY <1>8, RowSchema
<1>11. /\ Meaning(r) = {Row(r, t) : t \in ToSet(r.tuples)}
       /\ Meaning(s) = {Row(s, t) : t \in ToSet(s.tuples)}
  BY MeaningRows
<1>12. Meaning(q) = Meaning(r) \union Meaning(s)
  BY <1>5, <1>9, <1>10, <1>11
<1>13. QED BY <1>6, <1>7, <1>12

\* Columns cut out of a tuple, in their order.
LEMMA CutExact ==
    ASSUME NEW t, NEW at, NEW k \in Nat, DOMAIN at = 1 .. k
    PROVE  /\ IsTuple(Cut(t, at)) /\ Len(Cut(t, at)) = k /\ DOMAIN Cut(t, at) = 1 .. k
           /\ \A j \in 1 .. k : Cut(t, at)[j] = t[at[j]]
<1> DEFINE f == Cut(t, at)
<1>1. f = [j \in 1 .. k |-> t[at[j]]]
  BY DEF Cut
<1> HIDE DEF f
<1>2. ToSet(f) = {f[j] : j \in 1 .. k}
  BY <1>1 DEF ToSet
<1>3. f \in Seq(ToSet(f)) /\ Len(f) = k
  BY <1>1, <1>2
<1>4. QED BY <1>1, <1>3 DEF IsTuple, f

\* Columns to project r on.
Picks(r, columns) == IsTuple(columns) /\ ToSet(columns) \subseteq Columns(r)

\* The columns of some rows.
Narrowed(rows, columns) == {[c \in ToSet(columns) |-> row[c]] : row \in rows}

\* project, on rows.
LEMMA ProjectSound ==
    ASSUME NEW r, Sound(r), NEW columns, Picks(r, columns),
           DistinctNames(project(r, columns).schema)
    PROVE  /\ Sound(project(r, columns))
           /\ Meaning(project(r, columns)) = Narrowed(Meaning(r), columns)
<1> DEFINE k == Len(columns)
           at == [i \in DOMAIN columns |-> column_index(r, columns[i])]
           cuts == [i \in DOMAIN r.tuples |-> Cut(r.tuples[i], at)]
           V == {Cut(t, at) : t \in ToSet(r.tuples)}
           T == AddNew(<<>>, cuts)
           q == Relation(columns, T)
           Only(row) == [c \in ToSet(columns) |-> row[c]]
<1>1. /\ k \in Nat /\ DOMAIN columns = 1 .. k /\ DOMAIN at = 1 .. k
      /\ columns = [i \in 1 .. k |-> columns[i]]
      /\ \A i \in 1 .. k : columns[i] \in ToSet(columns) /\ columns[i] \in Columns(r)
  <2>1. columns \in Seq(ToSet(columns)) /\ ToSet(columns) \subseteq Columns(r)
    BY DEF Picks, IsTuple
  <2>2. k \in Nat /\ DOMAIN columns = 1 .. k /\ columns = [i \in 1 .. k |-> columns[i]]
    BY <2>1
  <2>3. \A i \in 1 .. k : columns[i] \in ToSet(columns)
    BY <2>2 DEF ToSet
  <2>4. DOMAIN at = 1 .. k
    BY <2>2
  <2>5. QED BY <2>1, <2>2, <2>3, <2>4
<1> HIDE DEF k
<1>2. /\ DistinctNames(r.schema)
      /\ r.tuples \in Seq(ToSet(r.tuples))
  BY SoundParts
<1>3. \A i \in 1 .. k : at[i] = column_index(r, columns[i]) /\ r.schema[at[i]] = columns[i]
  BY <1>1, <1>2, ColumnAt
<1> HIDE DEF at
<1>4. Cut(r.schema, at) = columns
  <2>1. Cut(r.schema, at) = [i \in 1 .. k |-> r.schema[at[i]]]
    BY <1>1 DEF Cut
  <2>2. QED BY <1>1, <1>3, <2>1
<1>5. \A x \in V : IsTuple(x) /\ Len(x) = k
  BY <1>1, CutExact
<1>6. cuts \in Seq(V) /\ ToSet(cuts) = V
  <2>1. \A i \in DOMAIN r.tuples : r.tuples[i] \in ToSet(r.tuples)
    BY DEF ToSet
  <2>2. DOMAIN r.tuples = 1 .. Len(r.tuples) /\ Len(r.tuples) \in Nat
    BY <1>2
  <2>3. cuts \in Seq(V)
    BY <2>1, <2>2
  <2>4. \A t \in ToSet(r.tuples) : \E i \in DOMAIN r.tuples : t = r.tuples[i]
    BY DEF ToSet
  <2>5. QED BY <2>1, <2>3, <2>4 DEF ToSet
<1> HIDE DEF V, cuts
<1>7. T \in Seq(V) /\ ToSet(T) = V /\ Distinct(T)
  <2>1. <<>> \in Seq(V) /\ ToSet(<<>>) = {} /\ Distinct(<<>>)
    BY DEF ToSet, Distinct
  <2>2. \A x \in V : IsTuple(x)
    BY <1>5
  <2>3. /\ T \in Seq(V) /\ ToSet(T) = ToSet(<<>>) \union ToSet(cuts)
        /\ Distinct(<<>>) => Distinct(T)
    <3> DEFINE none == <<>>
    <3>1. none \in Seq(V)
      OBVIOUS
    <3> HIDE DEF none
    <3>2. /\ AddNew(none, cuts) \in Seq(V)
          /\ ToSet(AddNew(none, cuts)) = ToSet(none) \union ToSet(cuts)
          /\ Distinct(none) => Distinct(AddNew(none, cuts))
      BY <1>6, <2>2, <3>1, AddNewExact
    <3>3. QED BY <3>2 DEF none
  <2> HIDE DEF T
  <2>4. QED BY <1>6, <2>1, <2>3
<1>8. project(r, columns) = q
  BY <1>4 DEF project, at, cuts
<1> HIDE DEF T
<1>9. q.schema = columns /\ q.tuples = T
  BY DEF Relation
<1>10. Sound(q)
  <2>1. DistinctNames(columns)
    BY <1>8, <1>9
  <2>2. \A t \in ToSet(T) : IsTuple(t) /\ Len(t) = Len(columns)
    BY <1>5, <1>7 DEF k
  <2>3. columns \in Seq(ToSet(columns))
    BY DEF Picks, IsTuple
  <2>4. QED BY <1>7, <2>1, <2>2, <2>3, SoundMade
<1>11. Columns(q) = ToSet(columns)
  BY <1>9 DEF Columns, ToSet
<1> HIDE DEF q
<1>12. ASSUME NEW t \in ToSet(r.tuples) PROVE Row(q, Cut(t, at)) = Only(Row(r, t))
  <2> DEFINE f == Only(Row(r, t))
  <2>1. f = [c \in Columns(q) |-> f[c]]
    BY <1>11
  <2>2. ASSUME NEW i \in DOMAIN q.schema PROVE f[q.schema[i]] = Cut(t, at)[i]
    <3>1. i \in 1 .. k /\ q.schema[i] = columns[i]
      BY <1>1, <1>9
    <3>2. f[columns[i]] = Row(r, t)[columns[i]]
      BY <1>1, <3>1
    <3>3. Row(r, t)[columns[i]] = t[at[i]]
      BY <1>1, <1>3, <3>1 DEF Row
    <3>4. Cut(t, at)[i] = t[at[i]]
      BY <1>1, <3>1, CutExact
    <3>5. QED BY <3>1, <3>2, <3>3, <3>4
  <2> HIDE DEF f
  <2>3. DistinctNames(q.schema)
    BY <1>10 DEF Sound
  <2>4. f = Row(q, Cut(t, at))
    BY <2>1, <2>2, <2>3, RowOf
  <2>5. QED BY <2>4 DEF f
<1>13. Meaning(q) = {Row(q, x) : x \in V}
  BY <1>7, <1>9, MeaningRows
<1>14. Meaning(r) = {Row(r, t) : t \in ToSet(r.tuples)}
  BY MeaningRows
<1> HIDE DEF Only
<1>15. Meaning(q) = {Only(row) : row \in Meaning(r)}
  BY <1>12, <1>13, <1>14 DEF V
<1>16. QED BY <1>8, <1>10, <1>15 DEF Only, Narrowed

\* Tuples put side by side are the same if both parts are.
LEMMA SideBySame ==
    ASSUME NEW m \in Nat, NEW k \in Nat,
           NEW t, IsTuple(t), Len(t) = m, NEW u, IsTuple(u), Len(u) = m,
           NEW a, IsTuple(a), Len(a) = k, NEW b, IsTuple(b), Len(b) = k
    PROVE  /\ IsTuple(t \o a) /\ Len(t \o a) = m + k
           /\ \A i \in 1 .. m : (t \o a)[i] = t[i]
           /\ \A j \in 1 .. k : (t \o a)[m + j] = a[j]
           /\ SameTuple(t \o a, u \o b) => SameTuple(t, u) /\ SameTuple(a, b)
<1> DEFINE V == ToSet(t) \union ToSet(u) \union ToSet(a) \union ToSet(b)
           x == t \o a
           y == u \o b
<1>1. t \in Seq(V) /\ u \in Seq(V) /\ a \in Seq(V) /\ b \in Seq(V)
  BY DEF IsTuple
<1> HIDE DEF V
<1>2. /\ x \in Seq(V) /\ Len(x) = m + k
      /\ \A i \in 1 .. m + k : x[i] = IF i <= m THEN t[i] ELSE a[i - m]
      /\ y \in Seq(V) /\ Len(y) = m + k
      /\ \A i \in 1 .. m + k : y[i] = IF i <= m THEN u[i] ELSE b[i - m]
  <2>1. /\ x \in Seq(V) /\ Len(x) = m + k
        /\ \A i \in 1 .. m + k : x[i] = IF i <= m THEN t[i] ELSE a[i - m]
    BY <1>1, ConcatProperties
  <2>2. /\ y \in Seq(V) /\ Len(y) = m + k
        /\ \A i \in 1 .. m + k : y[i] = IF i <= m THEN u[i] ELSE b[i - m]
    BY <1>1, ConcatProperties
  <2> HIDE DEF x, y
  <2>3. QED BY <2>1, <2>2
<1> HIDE DEF x, y
<1>3. DOMAIN x = 1 .. m + k /\ DOMAIN t = 1 .. m /\ DOMAIN a = 1 .. k
  BY <1>1, <1>2
<1>4. \A i \in 1 .. m : i \in 1 .. m + k /\ x[i] = t[i] /\ y[i] = u[i]
  BY <1>2
<1>5. \A j \in 1 .. k : m + j \in 1 .. m + k /\ x[m + j] = a[j] /\ y[m + j] = b[j]
  BY <1>2
<1>6. x \in Seq(ToSet(x))
  BY <1>2 DEF ToSet
<1>7. ASSUME SameTuple(x, y) PROVE SameTuple(t, u) /\ SameTuple(a, b)
  <2>1. \A i \in 1 .. m + k : Same(x[i], y[i])
    BY <1>3, <1>7 DEF SameTuple
  <2>2. \A i \in 1 .. m : Same(t[i], u[i])
    BY <1>4, <2>1
  <2>3. \A j \in 1 .. k : Same(a[j], b[j])
    BY <1>5, <2>1
  <2>4. QED BY <1>3, <2>2, <2>3 DEF SameTuple
<1>8. QED BY <1>2, <1>4, <1>5, <1>6, <1>7 DEF IsTuple, x, y

\* A tuple that has the values of t, then those of a.
Joint(x, t, m, a, k) ==
    /\ IsTuple(x) /\ Len(x) = m + k /\ DOMAIN x = 1 .. m + k
    /\ \A i \in 1 .. m : x[i] = t[i]
    /\ \A j \in 1 .. k : x[m + j] = a[j]

LEMMA SideBySideExact ==
    ASSUME NEW m \in Nat, NEW k \in Nat,
           NEW t, IsTuple(t), Len(t) = m, NEW a, IsTuple(a), Len(a) = k
    PROVE  Joint(t \o a, t, m, a, k)
<1>1. /\ IsTuple(t \o a) /\ Len(t \o a) = m + k
      /\ \A i \in 1 .. m : (t \o a)[i] = t[i]
      /\ \A j \in 1 .. k : (t \o a)[m + j] = a[j]
  BY SideBySame
<1> DEFINE x == t \o a
<1> HIDE DEF x
<1>2. DOMAIN x = 1 .. m + k
  BY <1>1 DEF IsTuple, x
<1>3. QED BY <1>1, <1>2 DEF x, Joint

\* The tuples of a join.
GluedTuples(r, s, P, at) ==
    {p[1] \o Cut(p[2], at) : p \in {p \in ToSet(r.tuples) \X ToSet(s.tuples) : p \in P}}

\* Tuples that a tuple is joined with stay apart when cut.
KeptApart(r, s, P, at) ==
    \A t \in ToSet(r.tuples), u, v \in ToSet(s.tuples) :
        <<t, u>> \in P /\ <<t, v>> \in P /\ SameTuple(Cut(u, at), Cut(v, at)) => SameTuple(u, v)

\* The loops of a join make each of its tuples, and none twice.
LEMMA GluedExact ==
    ASSUME NEW r, Sound(r), NEW s, Sound(s), NEW P, NEW at, NEW k \in Nat, DOMAIN at = 1 .. k,
           KeptApart(r, s, P, at)
    PROVE  /\ Glued(r, s, P, at) \in Seq(GluedTuples(r, s, P, at))
           /\ ToSet(Glued(r, s, P, at)) = GluedTuples(r, s, P, at)
           /\ Distinct(Glued(r, s, P, at))
<1> DEFINE V == GluedTuples(r, s, P, at)
           n == Len(r.tuples)
           m == Len(r.schema)
           F(i) == {u \in ToSet(s.tuples) : <<r.tuples[i], u>> \in P}
           fit(i) == Filter(s.tuples, F(i))
           part(i) == [j \in DOMAIN fit(i) |-> r.tuples[i] \o Cut(fit(i)[j], at)]
           parts == [i \in DOMAIN r.tuples |-> part(i)]
<1>1. /\ n \in Nat /\ DOMAIN r.tuples = 1 .. n
      /\ \A i \in 1 .. n : r.tuples[i] \in ToSet(r.tuples)
      /\ r.tuples \in Seq(ToSet(r.tuples)) /\ Distinct(r.tuples)
      /\ s.tuples \in Seq(ToSet(s.tuples)) /\ Distinct(s.tuples)
      /\ m \in Nat
      /\ \A t \in ToSet(r.tuples) : IsTuple(t) /\ Len(t) = m
  <2>1. r.tuples \in Seq(ToSet(r.tuples))
    BY SoundParts
  <2>2. n \in Nat /\ DOMAIN r.tuples = 1 .. n
    BY <2>1
  <2>3. \A i \in 1 .. n : r.tuples[i] \in ToSet(r.tuples)
    BY <2>2 DEF ToSet
  <2>4. QED BY <2>1, <2>2, <2>3, SoundParts
<1>2. Glued(r, s, P, at) = FlattenSeq(parts)
  BY DEF Glued
<1>3. \A u : IsTuple(Cut(u, at)) /\ Len(Cut(u, at)) = k
  BY CutExact
<1> HIDE DEF n, m
<1>4. ASSUME NEW i \in 1 .. n
      PROVE  /\ part(i) \in Seq(V)
             /\ ToSet(part(i)) = {r.tuples[i] \o Cut(u, at) : u \in F(i)}
             /\ Distinct(part(i))
  <2> DEFINE t == r.tuples[i]
             f == fit(i)
             g == part(i)
  <2>1. /\ f \in Seq(ToSet(s.tuples)) /\ ToSet(f) = ToSet(s.tuples) \intersect F(i)
        /\ Distinct(f)
    <3> DEFINE R == F(i)
    <3> HIDE DEF R
    <3>1. /\ Filter(s.tuples, R) \in Seq(ToSet(s.tuples))
          /\ ToSet(Filter(s.tuples, R)) = ToSet(s.tuples) \intersect R
          /\ Distinct(Filter(s.tuples, R))
      BY <1>1, FilterExact, FilterDistinct
    <3>2. QED BY <3>1 DEF R
  <2>2. ToSet(f) = F(i)
    BY <2>1
  <2>3. t \in ToSet(r.tuples) /\ IsTuple(t) /\ Len(t) = m
    BY <1>1
  <2> HIDE DEF f, t
  <2>4. g = [j \in DOMAIN f |-> t \o Cut(f[j], at)]
    BY DEF f, t
  <2>5. Len(f) \in Nat /\ DOMAIN f = 1 .. Len(f) /\ \A j \in 1 .. Len(f) : f[j] \in F(i)
    <3>1. Len(f) \in Nat /\ DOMAIN f = 1 .. Len(f)
      BY <2>1
    <3>2. \A j \in 1 .. Len(f) : f[j] \in ToSet(f)
      BY <3>1 DEF ToSet
    <3>3. QED BY <2>2, <3>1, <3>2
  <2>6. \A u \in F(i) : t \o Cut(u, at) \in V
    <3> SUFFICES ASSUME NEW u \in F(i) PROVE t \o Cut(u, at) \in V
      OBVIOUS
    <3>1. <<t, u>> \in ToSet(r.tuples) \X ToSet(s.tuples) /\ <<t, u>> \in P
      BY <2>3 DEF t
    <3>2. <<t, u>>[1] \o Cut(<<t, u>>[2], at) \in V
      BY <3>1 DEF GluedTuples
    <3>3. QED BY <3>2
  <2> HIDE DEF V, g, F
  <2>7. g \in Seq(V)
    BY <2>4, <2>5, <2>6
  <2>8. ToSet(g) = {t \o Cut(u, at) : u \in F(i)}
    <3>1. ToSet(g) = {t \o Cut(f[j], at) : j \in DOMAIN f}
      BY <2>4 DEF ToSet
    <3>2. \A u \in F(i) : \E j \in DOMAIN f : u = f[j]
      BY <2>2 DEF ToSet
    <3>3. QED BY <2>5, <3>1, <3>2
  <2>9. Distinct(g)
    <3> SUFFICES ASSUME NEW j \in DOMAIN f, NEW l \in DOMAIN f, j # l PROVE ~ SameTuple(g[j], g[l])
      BY <2>4 DEF Distinct
    <3>1. g[j] = t \o Cut(f[j], at) /\ g[l] = t \o Cut(f[l], at)
      BY <2>4
    <3>2. SameTuple(g[j], g[l]) => SameTuple(Cut(f[j], at), Cut(f[l], at))
      BY <1>1, <1>3, <2>3, <3>1, SideBySame
    <3>3. /\ f[j] \in ToSet(s.tuples) /\ f[l] \in ToSet(s.tuples)
          /\ <<t, f[j]>> \in P /\ <<t, f[l]>> \in P
      BY <2>5 DEF F, t
    <3>4. ~ SameTuple(f[j], f[l])
      BY <2>1 DEF Distinct
    <3>5. QED BY <2>3, <3>2, <3>3, <3>4 DEF KeptApart
  <2>10. QED BY <2>7, <2>8, <2>9 DEF g, t
<1>5. ASSUME NEW i \in 1 .. n, NEW j \in 1 .. n, i # j PROVE Foreign(part(i), part(j))
  <2>1. /\ ToSet(part(i)) = {r.tuples[i] \o Cut(u, at) : u \in F(i)}
        /\ ToSet(part(j)) = {r.tuples[j] \o Cut(u, at) : u \in F(j)}
    BY <1>4
  <2>2. ~ SameTuple(r.tuples[i], r.tuples[j]) /\ ~ SameTuple(r.tuples[j], r.tuples[i])
    BY <1>1, <1>5 DEF Distinct
  <2> DEFINE t == r.tuples[i]
             u == r.tuples[j]
  <2>3. IsTuple(t) /\ Len(t) = m /\ IsTuple(u) /\ Len(u) = m
    BY <1>1
  <2> HIDE DEF t, u, part
  <2>4. ASSUME NEW x \in ToSet(part(i)), NEW y \in ToSet(part(j))
        PROVE  ~ SameTuple(x, y) /\ ~ SameTuple(y, x)
    <3>1. PICK a : x = t \o Cut(a, at)
      BY <2>1 DEF t
    <3>2. PICK b : y = u \o Cut(b, at)
      BY <2>1 DEF u
    <3>3. SameTuple(x, y) => SameTuple(t, u)
      BY <1>1, <1>3, <2>3, <3>1, <3>2, SideBySame
    <3>4. SameTuple(y, x) => SameTuple(u, t)
      BY <1>1, <1>3, <2>3, <3>1, <3>2, SideBySame
    <3>5. QED BY <2>2, <3>3, <3>4 DEF t, u
  <2>5. QED BY <2>4 DEF Foreign
<1>6. DOMAIN parts = 1 .. n /\ \A i \in 1 .. n : parts[i] = part(i)
  BY <1>1
<1>7. parts \in Seq(Seq(V)) /\ Len(parts) = n
  <2> HIDE DEF part, V
  <2>1. parts = [i \in 1 .. n |-> part(i)]
    BY <1>1
  <2>2. \A i \in 1 .. n : part(i) \in Seq(V)
    BY <1>4
  <2> HIDE DEF parts
  <2>3. QED BY <1>1, <2>1, <2>2
<1> HIDE DEF parts
<1>8. /\ \A i \in 1 .. n : Distinct(parts[i])
      /\ \A i, j \in 1 .. n : i # j => Foreign(parts[i], parts[j])
  <2> HIDE DEF part
  <2>1. QED BY <1>4, <1>5, <1>6
<1>9. /\ FlattenSeq(parts) \in Seq(V)
      /\ ToSet(FlattenSeq(parts)) = UNION {ToSet(parts[i]) : i \in 1 .. n}
      /\ Distinct(FlattenSeq(parts))
  <2> HIDE DEF V
  <2>1. QED BY <1>7, <1>8, FlattenExact
<1>10. UNION {ToSet(parts[i]) : i \in 1 .. n} = V
  <2>1. \A i \in 1 .. n : ToSet(parts[i]) = {r.tuples[i] \o Cut(u, at) : u \in F(i)}
    <3> HIDE DEF part, F
    <3>1. QED BY <1>4, <1>6
  <2>2. ASSUME NEW x \in V PROVE \E i \in 1 .. n : x \in ToSet(parts[i])
    <3>1. PICK p \in ToSet(r.tuples) \X ToSet(s.tuples) : p \in P /\ x = p[1] \o Cut(p[2], at)
      BY <2>2 DEF GluedTuples
    <3>2. PICK i \in 1 .. n : p[1] = r.tuples[i]
      BY <1>1, <3>1 DEF ToSet
    <3>3. p = <<p[1], p[2]>> /\ p[2] \in ToSet(s.tuples)
      BY <3>1
    <3>4. p[2] \in F(i)
      BY <3>1, <3>2, <3>3
    <3> HIDE DEF F
    <3>5. QED BY <2>1, <3>1, <3>2, <3>4
  <2>3. \A i \in 1 .. n : ToSet(parts[i]) \subseteq V
    <3> SUFFICES ASSUME NEW i \in 1 .. n, NEW x \in ToSet(parts[i]) PROVE x \in V
      OBVIOUS
    <3>1. PICK u \in F(i) : x = r.tuples[i] \o Cut(u, at)
      <4> HIDE DEF F
      <4> QED BY <2>1
    <3> DEFINE p == <<r.tuples[i], u>>
    <3>2. p \in ToSet(r.tuples) \X ToSet(s.tuples) /\ p \in P
      BY <1>1, <3>1
    <3>3. x = p[1] \o Cut(p[2], at)
      BY <3>1
    <3> HIDE DEF p
    <3>4. QED BY <3>2, <3>3 DEF GluedTuples
  <2> HIDE DEF V
  <2>4. QED BY <2>2, <2>3
<1>11. QED BY <1>2, <1>9, <1>10

\* The positions at stand for all columns of s that are not in r.
Covering(r, s, at, k) ==
    /\ DOMAIN at = 1 .. k
    /\ \A i \in 1 .. k : at[i] \in 1 .. Len(s.schema)
    /\ \A j \in 1 .. Len(s.schema) :
          s.schema[j] \in Columns(r) \/ \E i \in 1 .. k : at[i] = j

\* q has the columns of r, then those of s that it lacks.
Widens(q, r, s, at, k) ==
    /\ k \in Nat /\ Covering(r, s, at, k)
    /\ q.schema = r.schema \o Cut(s.schema, at) /\ DistinctNames(q.schema)

\* The two rows that a joined tuple is made of lie side by side in its row.
LEMMA RowBeside ==
    ASSUME NEW r, Sound(r), NEW s, Sound(s), NEW at, NEW k, NEW q, Widens(q, r, s, at, k),
           NEW t, IsTuple(t), Len(t) = Len(r.schema), NEW u
    PROVE  Row(q, t \o Cut(u, at)) = Beside(Row(r, t), Row(s, u))
<1> DEFINE m == Len(r.schema)
           n == Len(s.schema)
           c == Cut(s.schema, at)
           a == Cut(u, at)
           x == t \o a
           f == Beside(Row(r, t), Row(s, u))
<1>0. /\ k \in Nat /\ Covering(r, s, at, k)
      /\ q.schema = r.schema \o Cut(s.schema, at) /\ DistinctNames(q.schema)
  BY DEF Widens
<1>1. /\ m \in Nat /\ DOMAIN r.schema = 1 .. m /\ r.schema \in Seq(ToSet(r.schema))
      /\ k \in Nat
      /\ IsTuple(r.schema) /\ DistinctNames(r.schema)
      /\ n \in Nat /\ DOMAIN s.schema = 1 .. n /\ DistinctNames(s.schema)
  BY <1>0, SoundParts DEF IsTuple
<1>2. /\ DOMAIN at = 1 .. k /\ \A i \in 1 .. k : at[i] \in 1 .. n
      /\ \A j \in 1 .. n : s.schema[j] \in Columns(r) \/ \E i \in 1 .. k : at[i] = j
  BY <1>0 DEF Covering, n
<1>3. /\ IsTuple(c) /\ Len(c) = k /\ \A j \in 1 .. k : c[j] = s.schema[at[j]]
      /\ IsTuple(a) /\ Len(a) = k /\ \A j \in 1 .. k : a[j] = u[at[j]]
  <2>1. k \in Nat /\ DOMAIN at = 1 .. k
    BY <1>0, <1>2
  <2>2. IsTuple(c) /\ Len(c) = k /\ \A j \in 1 .. k : c[j] = s.schema[at[j]]
    BY <2>1, CutExact
  <2>3. IsTuple(a) /\ Len(a) = k /\ \A j \in 1 .. k : a[j] = u[at[j]]
    BY <2>1, CutExact
  <2>4. QED BY <2>2, <2>3
<1> HIDE DEF a, c, m, n
<1>4. /\ IsTuple(q.schema) /\ Len(q.schema) = m + k /\ DOMAIN q.schema = 1 .. m + k
      /\ \A i \in 1 .. m : q.schema[i] = r.schema[i]
      /\ \A j \in 1 .. k : q.schema[m + j] = c[j]
  <2> DEFINE schema == r.schema
  <2>1. IsTuple(schema) /\ Len(schema) = m
    BY <1>1 DEF m
  <2> HIDE DEF schema
  <2>2. /\ IsTuple(schema \o c) /\ Len(schema \o c) = m + k /\ DOMAIN (schema \o c) = 1 .. m + k
        /\ \A i \in 1 .. m : (schema \o c)[i] = schema[i]
        /\ \A j \in 1 .. k : (schema \o c)[m + j] = c[j]
    <3>1. m \in Nat /\ IsTuple(c) /\ Len(c) = k
      BY <1>1, <1>3
    <3>2. Joint(schema \o c, schema, m, c, k)
      BY <2>1, <3>1, SideBySideExact
    <3>3. QED BY <3>2 DEF Joint
  <2>3. q.schema = schema \o c
    BY <1>0 DEF c, schema
  <2>4. QED BY <2>2, <2>3 DEF schema
<1>5. /\ \A i \in 1 .. m : x[i] = t[i]
      /\ \A j \in 1 .. k : x[m + j] = a[j]
  <2>1. m \in Nat /\ Len(t) = m /\ IsTuple(a) /\ Len(a) = k
    BY <1>1, <1>3 DEF m
  <2> HIDE DEF f, x
  <2>2. Joint(t \o a, t, m, a, k)
    BY <2>1, SideBySideExact
  <2>3. QED BY <2>2 DEF x, Joint
<1>6. DOMAIN q.schema = 1 .. m + k
  BY <1>4
<1>7. \A i \in 1 .. m + k : i \in 1 .. m \/ \E j \in 1 .. k : i = m + j
  <2> SUFFICES ASSUME NEW i \in 1 .. m + k, i \notin 1 .. m PROVE \E j \in 1 .. k : i = m + j
    OBVIOUS
  <2>1. i - m \in 1 .. k /\ i = m + (i - m)
    BY <1>1
  <2>2. QED BY <2>1
<1>8. ASSUME NEW j \in 1 .. k PROVE c[j] \notin Columns(r) /\ c[j] \in Columns(s)
  <2>1. c[j] = s.schema[at[j]] /\ at[j] \in 1 .. n
    BY <1>2, <1>3
  <2>2. c[j] \in Columns(s)
    BY <1>1, <2>1 DEF Columns
  <2>3. ASSUME c[j] \in Columns(r) PROVE FALSE
    <3>1. PICK i \in 1 .. m : c[j] = r.schema[i]
      BY <1>1, <2>3 DEF Columns
    <3>2. q.schema[i] = q.schema[m + j]
      BY <1>4, <3>1
    <3>3. i \in 1 .. m + k /\ m + j \in 1 .. m + k /\ i # m + j
      BY <1>1
    <3>4. QED BY <1>0, <1>6, <3>2, <3>3 DEF DistinctNames, IsInjective
  <2>4. QED BY <2>2, <2>3
<1>9. Columns(q) = Columns(r) \union Columns(s)
  <2>1. \A i \in 1 .. m : i \in 1 .. m + k /\ r.schema[i] \in Columns(q)
    <3>1. \A i \in 1 .. m : i \in 1 .. m + k
      BY <1>1
    <3>2. QED BY <1>4, <1>6, <3>1 DEF Columns
  <2>2. \A j \in 1 .. k : m + j \in 1 .. m + k /\ c[j] \in Columns(q)
    <3>1. \A j \in 1 .. k : m + j \in 1 .. m + k
      BY <1>1
    <3>2. QED BY <1>4, <1>6, <3>1 DEF Columns
  <2>3. \A d \in Columns(r) : \E i \in 1 .. m : d = r.schema[i]
    BY <1>1 DEF Columns
  <2>4. \A d \in Columns(s) : d \in Columns(r) \/ \E j \in 1 .. k : d = c[j]
    <3> SUFFICES ASSUME NEW d \in Columns(s), d \notin Columns(r) PROVE \E j \in 1 .. k : d = c[j]
      OBVIOUS
    <3>1. PICK j \in 1 .. n : d = s.schema[j]
      BY <1>1 DEF Columns
    <3>2. PICK i \in 1 .. k : at[i] = j
      BY <1>2, <3>1
    <3>3. QED BY <1>3, <3>1, <3>2
  <2>5. \A d \in Columns(q) : d \in Columns(r) \/ d \in Columns(s)
    <3> SUFFICES ASSUME NEW d \in Columns(q) PROVE d \in Columns(r) \/ d \in Columns(s)
      OBVIOUS
    <3>1. PICK i \in 1 .. m + k : d = q.schema[i]
      BY <1>6 DEF Columns
    <3>2. CASE i \in 1 .. m
      BY <1>1, <1>4, <3>1, <3>2 DEF Columns
    <3>3. ASSUME NEW j \in 1 .. k, i = m + j PROVE d \in Columns(s)
      BY <1>4, <1>8, <3>1, <3>3
    <3>4. QED BY <1>7, <3>2, <3>3
  <2>6. QED BY <2>1, <2>2, <2>3, <2>4, <2>5
<1>10. /\ DOMAIN Row(r, t) = Columns(r) /\ DOMAIN Row(s, u) = Columns(s)
       /\ \A i \in 1 .. m : r.schema[i] \in Columns(r) /\ Row(r, t)[r.schema[i]] = t[i]
       /\ \A j \in 1 .. n : Row(s, u)[s.schema[j]] = u[j]
  BY <1>1, RowExact
<1>11. f = [d \in Columns(q) |-> IF d \in Columns(r) THEN Row(r, t)[d] ELSE Row(s, u)[d]]
  BY <1>9, <1>10 DEF Beside
<1>12. f = [d \in Columns(q) |-> f[d]]
  BY <1>11
<1>13. ASSUME NEW i \in DOMAIN q.schema PROVE f[q.schema[i]] = x[i]
  <2>0. q.schema[i] \in Columns(q)
    BY DEF Columns
  <2>1. CASE i \in 1 .. m
    <3>1. q.schema[i] = r.schema[i] /\ x[i] = t[i] /\ r.schema[i] \in Columns(r)
      BY <1>4, <1>5, <1>10, <2>1
    <3>2. f[r.schema[i]] = Row(r, t)[r.schema[i]]
      BY <1>11, <2>0, <3>1
    <3>3. QED BY <1>10, <2>1, <3>1, <3>2
  <2>2. ASSUME NEW j \in 1 .. k, i = m + j PROVE f[q.schema[i]] = x[i]
    <3>1. q.schema[i] = c[j] /\ x[i] = a[j]
      BY <1>4, <1>5, <2>2
    <3>2. c[j] = s.schema[at[j]] /\ a[j] = u[at[j]] /\ at[j] \in 1 .. n
      BY <1>2, <1>3
    <3>3. f[c[j]] = Row(s, u)[c[j]]
      BY <1>8, <1>11, <2>0, <3>1
    <3>4. QED BY <1>10, <3>1, <3>2, <3>3
  <2>3. QED BY <1>6, <1>7, <2>1, <2>2
<1> HIDE DEF f, x
<1>14. f = Row(q, x)
  <2>1. \A i \in DOMAIN q.schema : f[q.schema[i]] = x[i]
    BY <1>13
  <2>2. ASSUME NEW d \in Columns(q) PROVE f[d] = x[column_index(q, d)]
    <3>1. column_index(q, d) \in DOMAIN q.schema /\ q.schema[column_index(q, d)] = d
      BY <1>0, ColumnAt
    <3>2. QED BY <2>1, <3>1
  <2>3. QED BY <1>12, <2>2 DEF Row
<1>15. QED BY <1>14 DEF f, x, a

\* P and Q say of the tuples and of their rows which match.
Matching(r, s, P, Q) ==
    /\ Q \subseteq Meaning(r) \X Meaning(s)
    /\ \A t \in ToSet(r.tuples), u \in ToSet(s.tuples) :
          <<t, u>> \in P <=> <<Row(r, t), Row(s, u)>> \in Q

\* A join of any kind, on rows.
LEMMA JoinedSound ==
    ASSUME NEW r, Sound(r), NEW s, Sound(s), NEW at, NEW k \in Nat, Covering(r, s, at, k),
           NEW P, KeptApart(r, s, P, at), NEW q,
           q = Relation(r.schema \o Cut(s.schema, at), Glued(r, s, P, at)),
           DistinctNames(q.schema), NEW Q, Matching(r, s, P, Q)
    PROVE  Sound(q) /\ Meaning(q) = SideBySide(Q)
<1>0. /\ Q \subseteq Meaning(r) \X Meaning(s)
      /\ \A t \in ToSet(r.tuples), u \in ToSet(s.tuples) :
            <<t, u>> \in P <=> <<Row(r, t), Row(s, u)>> \in Q
  BY DEF Matching
<1> DEFINE m == Len(r.schema)
           V == GluedTuples(r, s, P, at)
           A == ToSet(r.tuples)
           B == ToSet(s.tuples)
<1>1. /\ m \in Nat /\ IsTuple(r.schema)
      /\ \A t \in A : IsTuple(t) /\ Len(t) = m
  BY SoundParts DEF IsTuple
<1>2. DOMAIN at = 1 .. k
  BY DEF Covering
<1>3. q.schema = r.schema \o Cut(s.schema, at) /\ q.tuples = Glued(r, s, P, at)
  BY DEF Relation
<1>4. q.tuples \in Seq(V) /\ ToSet(q.tuples) = V /\ Distinct(q.tuples)
  BY <1>2, <1>3, GluedExact
<1>5. \A u : IsTuple(Cut(u, at)) /\ Len(Cut(u, at)) = k
  BY <1>2, CutExact
<1>6. IsTuple(q.schema) /\ Len(q.schema) = m + k
  <2> DEFINE schema == r.schema
             c == Cut(s.schema, at)
  <2>1. IsTuple(schema) /\ Len(schema) = m /\ IsTuple(c) /\ Len(c) = k
    BY <1>1, <1>5
  <2> HIDE DEF schema, c, m
  <2>2. IsTuple(schema \o c) /\ Len(schema \o c) = m + k
    BY <1>1, <2>1, SideBySame
  <2>3. q.schema = schema \o c
    BY <1>3 DEF schema, c
  <2>4. QED BY <2>2, <2>3
<1> HIDE DEF m
<1>7. ASSUME NEW x \in V PROVE IsTuple(x) /\ Len(x) = m + k
  <2>1. PICK p \in A \X B : x = p[1] \o Cut(p[2], at)
    BY <1>7 DEF GluedTuples
  <2> DEFINE t == p[1]
             a == Cut(p[2], at)
  <2>2. IsTuple(t) /\ Len(t) = m /\ IsTuple(a) /\ Len(a) = k
    BY <1>1, <1>5, <2>1
  <2> HIDE DEF t, a
  <2>3. IsTuple(t \o a) /\ Len(t \o a) = m + k
    BY <1>1, <2>2, SideBySame
  <2>4. QED BY <2>1, <2>3 DEF t, a
<1> HIDE DEF V
<1>8. Sound(q)
  <2>1. q = Relation(q.schema, q.tuples)
    BY <1>3
  <2>2. q.schema \in Seq(ToSet(q.schema))
    BY <1>6 DEF IsTuple
  <2>3. \A x \in ToSet(q.tuples) : IsTuple(x) /\ Len(x) = Len(q.schema)
    BY <1>4, <1>6, <1>7
  <2>4. Sound(Relation(q.schema, q.tuples))
    BY <1>4, <2>2, <2>3, SoundMade
  <2>5. QED BY <2>1, <2>4
<1>9. ASSUME NEW t \in A, NEW u \in B
      PROVE  Row(q, t \o Cut(u, at)) = Beside(Row(r, t), Row(s, u))
  <2>1. IsTuple(t) /\ Len(t) = Len(r.schema)
    BY <1>1 DEF m
  <2>2. q.schema = r.schema \o Cut(s.schema, at)
    BY <1>3
  <2> HIDE DEF A, B
  <2>3. Widens(q, r, s, at, k)
    BY <2>2 DEF Widens
  <2>4. QED BY <2>1, <2>3, RowBeside
<1>10. Meaning(q) = {Row(q, x) : x \in V}
  BY <1>4, MeaningRows
<1>11. ASSUME NEW p \in A \X B, p \in P
       PROVE  /\ <<Row(r, p[1]), Row(s, p[2])>> \in Q
              /\ Row(q, p[1] \o Cut(p[2], at)) = Beside(Row(r, p[1]), Row(s, p[2]))
  <2>1. p = <<p[1], p[2]>> /\ p[1] \in A /\ p[2] \in B
    OBVIOUS
  <2>2. <<p[1], p[2]>> \in P
    BY <1>11, <2>1
  <2>3. QED BY <1>0, <1>9, <2>1, <2>2
<1>12. ASSUME NEW row \in Meaning(q) PROVE row \in SideBySide(Q)
  <2>1. PICK x \in V : row = Row(q, x)
    BY <1>10, <1>12
  <2>2. PICK p \in A \X B : p \in P /\ x = p[1] \o Cut(p[2], at)
    BY <2>1 DEF V, GluedTuples
  <2> DEFINE o == <<Row(r, p[1]), Row(s, p[2])>>
  <2>3. o \in Q /\ row = Beside(o[1], o[2])
    BY <1>11, <2>1, <2>2
  <2> HIDE DEF o
  <2>4. QED BY <2>3 DEF SideBySide
<1>13. ASSUME NEW row \in SideBySide(Q) PROVE row \in Meaning(q)
  <2>1. PICK o \in Q : row = Beside(o[1], o[2])
    BY <1>13 DEF SideBySide
  <2>2. o \in Meaning(r) \X Meaning(s)
    BY <1>0
  <2>3. PICK t \in A : o[1] = Row(r, t)
    BY <2>2, MeaningRows
  <2>4. PICK u \in B : o[2] = Row(s, u)
    BY <2>2, MeaningRows
  <2>5. o = <<Row(r, t), Row(s, u)>>
    BY <2>2, <2>3, <2>4
  <2>6. <<t, u>> \in P
    BY <1>0, <2>5
  <2> DEFINE p == <<t, u>>
  <2>7. p \in A \X B /\ p \in P /\ t \o Cut(u, at) = p[1] \o Cut(p[2], at)
    BY <2>6
  <2> HIDE DEF p
  <2>8. t \o Cut(u, at) \in V
    BY <2>7 DEF V, GluedTuples
  <2>9. row = Row(q, t \o Cut(u, at))
    BY <1>9, <2>1, <2>3, <2>4
  <2>10. QED BY <1>10, <2>8, <2>9
<1>14. QED BY <1>8, <1>12, <1>13

\* theta_join, on rows.
LEMMA ThetaSound ==
    ASSUME NEW r, Sound(r), NEW s, Sound(s), NEW P, NEW Q, Matching(r, s, P, Q),
           DistinctNames(theta_join(r, s, P).schema)
    PROVE  Sound(theta_join(r, s, P)) /\ Meaning(theta_join(r, s, P)) = SideBySide(Q)
<1> DEFINE n == Len(s.schema)
           at == [j \in DOMAIN s.schema |-> j]
           q == theta_join(r, s, P)
<1>1. /\ n \in Nat /\ DOMAIN s.schema = 1 .. n /\ IsTuple(s.schema)
      /\ \A u \in ToSet(s.tuples) : IsTuple(u) /\ Len(u) = n
  BY SoundParts DEF IsTuple
<1>2. DOMAIN at = 1 .. n /\ \A j \in 1 .. n : at[j] = j
  BY <1>1
<1>3. q = Relation(r.schema \o s.schema, Glued(r, s, P, at))
  BY DEF theta_join
<1>4. Len(s.schema) = n
  OBVIOUS
<1> HIDE DEF at, n, q
<1>5. ASSUME NEW u, IsTuple(u), Len(u) = n PROVE Cut(u, at) = u
  <2>1. Cut(u, at) = [j \in 1 .. n |-> u[j]]
    BY <1>2 DEF Cut
  <2>2. u = [j \in 1 .. n |-> u[j]]
    BY <1>5 DEF IsTuple
  <2>3. QED BY <2>1, <2>2
<1>6. Covering(r, s, at, n)
  BY <1>1, <1>2, <1>4 DEF Covering
<1>7. KeptApart(r, s, P, at)
  BY <1>1, <1>5 DEF KeptApart
<1>8. q = Relation(r.schema \o Cut(s.schema, at), Glued(r, s, P, at))
  BY <1>1, <1>3, <1>4, <1>5
<1>9. DistinctNames(q.schema)
  BY DEF q
<1>10. Sound(q) /\ Meaning(q) = SideBySide(Q)
  BY <1>1, <1>6, <1>7, <1>8, <1>9, JoinedSound
<1>11. QED BY <1>10 DEF q

\* cross_product, on rows.
LEMMA CrossSound ==
    ASSUME NEW r, Sound(r), NEW s, Sound(s), DistinctNames(cross_product(r, s).schema)
    PROVE  /\ Sound(cross_product(r, s))
           /\ Meaning(cross_product(r, s)) = SideBySide(Meaning(r) \X Meaning(s))
<1> DEFINE P == Pairs(r, s)
           Q == Meaning(r) \X Meaning(s)
<1>1. \A t \in ToSet(r.tuples) : Row(r, t) \in Meaning(r)
  BY MeaningRows
<1>2. \A u \in ToSet(s.tuples) : Row(s, u) \in Meaning(s)
  BY MeaningRows
<1>3. Matching(r, s, P, Q)
  BY <1>1, <1>2 DEF Matching, Pairs
<1> HIDE DEF P, Q
<1>4. cross_product(r, s) = theta_join(r, s, P)
  BY DEF cross_product, P
<1>5. DistinctNames(theta_join(r, s, P).schema)
  BY <1>4
<1>6. Sound(theta_join(r, s, P)) /\ Meaning(theta_join(r, s, P)) = SideBySide(Q)
  BY <1>3, <1>5, ThetaSound
<1>7. QED BY <1>4, <1>6 DEF Q

\* A theta join on two columns, on rows.
LEMMA ThetaLess ==
    ASSUME NEW r, Sound(r), NEW s, Sound(s), NEW c \in Columns(r), NEW d \in Columns(s)
    PROVE  Matching(r, s, {p \in Pairs(r, s) :
                              Less(p[1][column_index(r, c)], p[2][column_index(s, d)])},
                          {p \in Meaning(r) \X Meaning(s) : Less(p[1][c], p[2][d])})
<1>1. \A t : Row(r, t)[c] = t[column_index(r, c)]
  BY DEF Row
<1>2. \A u : Row(s, u)[d] = u[column_index(s, d)]
  BY DEF Row
<1>3. \A t \in ToSet(r.tuples) : Row(r, t) \in Meaning(r)
  BY MeaningRows
<1>4. \A u \in ToSet(s.tuples) : Row(s, u) \in Meaning(s)
  BY MeaningRows
<1> DEFINE P == {p \in Pairs(r, s) :
                    Less(p[1][column_index(r, c)], p[2][column_index(s, d)])}
           Q == {p \in Meaning(r) \X Meaning(s) : Less(p[1][c], p[2][d])}
<1>5. ASSUME NEW t \in ToSet(r.tuples), NEW u \in ToSet(s.tuples)
      PROVE  <<t, u>> \in P <=> <<Row(r, t), Row(s, u)>> \in Q
  <2>1. <<t, u>> \in P <=> Less(t[column_index(r, c)], u[column_index(s, d)])
    BY DEF Pairs
  <2>2. <<Row(r, t), Row(s, u)>> \in Q <=> Less(Row(r, t)[c], Row(s, u)[d])
    BY <1>3, <1>4
  <2>3. QED BY <1>1, <1>2, <2>1, <2>2
<1>6. Q \subseteq Meaning(r) \X Meaning(s)
  OBVIOUS
<1> HIDE DEF P, Q
<1>7. Matching(r, s, P, Q)
  BY <1>5, <1>6 DEF Matching
<1>8. QED BY <1>7 DEF P, Q

\* Tuples agree in the common columns as their rows do.
LEMMA MatchesAgree ==
    ASSUME NEW r, Sound(r), NEW s, Sound(s), NEW t, NEW u
    PROVE  JoinMatches(r, s, t, u) <=> Agree(Row(r, t), Row(s, u))
<1>1. DistinctNames(r.schema) /\ DistinctNames(s.schema)
  BY SoundParts
<1>2. DOMAIN Row(r, t) = Columns(r) /\ DOMAIN Row(s, u) = Columns(s)
  BY <1>1, RowExact
<1>3. \A i \in DOMAIN r.schema : r.schema[i] \in Columns(r) /\ Row(r, t)[r.schema[i]] = t[i]
  BY <1>1, RowExact
<1>4. \A c \in Columns(s) : Row(s, u)[c] = u[column_index(s, c)]
  BY DEF Row
<1>5. \A c \in Columns(r) : \E i \in DOMAIN r.schema : c = r.schema[i]
  BY DEF Columns
<1>6. ASSUME JoinMatches(r, s, t, u) PROVE Agree(Row(r, t), Row(s, u))
  <2>1. ASSUME NEW c \in Columns(r) \intersect Columns(s)
        PROVE  Row(r, t)[c] = Row(s, u)[c] /\ Row(r, t)[c] # NaN
    <3>1. PICK i \in DOMAIN r.schema : c = r.schema[i]
      BY <1>5
    <3>2. Same(t[i], u[column_index(s, c)])
      BY <1>6, <3>1 DEF JoinMatches
    <3>3. QED BY <1>3, <1>4, <3>1, <3>2 DEF Same
  <2>2. QED BY <1>2, <2>1 DEF Agree
<1>7. ASSUME Agree(Row(r, t), Row(s, u)) PROVE JoinMatches(r, s, t, u)
  <2>1. ASSUME NEW i \in DOMAIN r.schema, r.schema[i] \in Columns(s)
        PROVE  Same(t[i], u[column_index(s, r.schema[i])])
    <3>1. r.schema[i] \in DOMAIN Row(r, t) \intersect DOMAIN Row(s, u)
      BY <1>2, <1>3, <2>1
    <3>2. Row(r, t)[r.schema[i]] = Row(s, u)[r.schema[i]] /\ Row(r, t)[r.schema[i]] # NaN
      BY <1>7, <3>1 DEF Agree
    <3>3. QED BY <1>3, <1>4, <2>1, <3>2 DEF Same
  <2>2. QED BY <2>1 DEF JoinMatches
<1>8. QED BY <1>6, <1>7

\* The columns that a natural join keeps of s are those that r lacks.
LEMMA ExtrasExact ==
    ASSUME NEW r, NEW s, Sound(s)
    PROVE  LET J == {j \in DOMAIN s.schema : s.schema[j] \notin Columns(r)}
               at == Filter([j \in DOMAIN s.schema |-> j], J)
           IN /\ Len(at) \in Nat /\ Covering(r, s, at, Len(at))
<1> DEFINE n == Len(s.schema)
           J == {j \in DOMAIN s.schema : s.schema[j] \notin Columns(r)}
           ids == [j \in DOMAIN s.schema |-> j]
           at == Filter(ids, J)
<1>1. n \in Nat /\ DOMAIN s.schema = 1 .. n
  BY SoundParts
<1>2. ids \in Seq(1 .. n) /\ ToSet(ids) = 1 .. n
  <2>1. ids = [j \in 1 .. n |-> j]
    BY <1>1
  <2> HIDE DEF ids, n
  <2>2. QED BY <1>1, <2>1 DEF ToSet
<1>3. J = {j \in 1 .. n : s.schema[j] \notin Columns(r)}
  BY <1>1
<1>4. n = Len(s.schema)
  OBVIOUS
<1> HIDE DEF ids, J, n
<1>5. at \in Seq(1 .. n) /\ ToSet(at) = ToSet(ids) \intersect J
  BY <1>2, FilterExact
<1> HIDE DEF at
<1> DEFINE k == Len(at)
<1>6. k \in Nat /\ DOMAIN at = 1 .. k /\ \A i \in 1 .. k : at[i] \in 1 .. n
  <2> DEFINE N == 1 .. n
  <2>1. at \in Seq(N)
    BY <1>5
  <2> HIDE DEF N
  <2>2. k \in Nat /\ DOMAIN at = 1 .. k /\ \A i \in 1 .. k : at[i] \in N
    BY <2>1
  <2>3. QED BY <2>2 DEF N
<1>7. ASSUME NEW j \in 1 .. n, s.schema[j] \notin Columns(r) PROVE \E i \in 1 .. k : at[i] = j
  <2>1. j \in ToSet(at)
    BY <1>2, <1>3, <1>5, <1>7
  <2>2. QED BY <1>6, <2>1 DEF ToSet
<1>8. Covering(r, s, at, k)
  BY <1>4, <1>6, <1>7 DEF Covering
<1>9. QED BY <1>6, <1>8 DEF at, ids, J

\* join, on rows.
LEMMA JoinSound ==
    ASSUME NEW r, Sound(r), NEW s, Sound(s), DistinctNames(join(r, s).schema)
    PROVE  /\ Sound(join(r, s))
           /\ Meaning(join(r, s)) =
                 SideBySide({p \in Meaning(r) \X Meaning(s) : Agree(p[1], p[2])})
<1> DEFINE Q == {p \in Meaning(r) \X Meaning(s) : Agree(p[1], p[2])}
<1>1. CASE Columns(r) \intersect Columns(s) = {}
  <2>1. join(r, s) = cross_product(r, s)
    BY <1>1 DEF join
  <2>2. Sound(cross_product(r, s))
        /\ Meaning(cross_product(r, s)) = SideBySide(Meaning(r) \X Meaning(s))
    BY <2>1, CrossSound
  <2>3. ASSUME NEW p \in Meaning(r) \X Meaning(s) PROVE Agree(p[1], p[2])
    <3>1. p[1] \in Meaning(r) /\ p[2] \in Meaning(s)
      OBVIOUS
    <3>2. DOMAIN p[1] = Columns(r) /\ DOMAIN p[2] = Columns(s)
      BY <3>1 DEF Meaning
    <3>3. QED BY <1>1, <3>2 DEF Agree
  <2>4. Q = Meaning(r) \X Meaning(s)
    BY <2>3
  <2>5. QED BY <2>1, <2>2, <2>4
<1>2. CASE Columns(r) \intersect Columns(s) # {}
  <2> DEFINE J == {j \in DOMAIN s.schema : s.schema[j] \notin Columns(r)}
             at == Filter([j \in DOMAIN s.schema |-> j], J)
             k == Len(at)
             P == {p \in Pairs(r, s) : JoinMatches(r, s, p[1], p[2])}
             q == join(r, s)
  <2>1. k \in Nat /\ Covering(r, s, at, k)
    BY ExtrasExact
  <2>2. q = Relation(r.schema \o Cut(s.schema, at), Glued(r, s, P, at))
    BY <1>2 DEF join
  <2>3. \A t \in ToSet(r.tuples) : Row(r, t) \in Meaning(r)
    BY MeaningRows
  <2>4. \A u \in ToSet(s.tuples) : Row(s, u) \in Meaning(s)
    BY MeaningRows
  <2>5. ASSUME NEW t \in ToSet(r.tuples), NEW u \in ToSet(s.tuples)
        PROVE  /\ <<t, u>> \in P <=> <<Row(r, t), Row(s, u)>> \in Q
               /\ <<t, u>> \in P <=> JoinMatches(r, s, t, u)
    <3>1. <<t, u>> \in P <=> JoinMatches(r, s, t, u)
      BY DEF Pairs
    <3>2. <<Row(r, t), Row(s, u)>> \in Q <=> Agree(Row(r, t), Row(s, u))
      BY <2>3, <2>4
    <3>3. QED BY <3>1, <3>2, MatchesAgree
  <2>6. Q \subseteq Meaning(r) \X Meaning(s)
    OBVIOUS
  <2> HIDE DEF Q, P, at, q, k
  <2>7. Matching(r, s, P, Q)
    BY <2>5, <2>6 DEF Matching
  <2>8. KeptApart(r, s, P, at)
    <3> SUFFICES ASSUME NEW t \in ToSet(r.tuples), NEW u \in ToSet(s.tuples),
                        NEW v \in ToSet(s.tuples), <<t, u>> \in P, <<t, v>> \in P,
                        SameTuple(Cut(u, at), Cut(v, at))
                 PROVE  SameTuple(u, v)
      BY DEF KeptApart
    <3> DEFINE n == Len(s.schema)
    <3>1. /\ n \in Nat /\ DOMAIN s.schema = 1 .. n /\ DistinctNames(s.schema)
          /\ Len(u) = n /\ DOMAIN u = 1 .. n /\ Len(v) = n
      BY SoundParts
    <3>2. /\ DOMAIN at = 1 .. k
          /\ \A j \in 1 .. n : s.schema[j] \in Columns(r) \/ \E i \in 1 .. k : at[i] = j
      BY <2>1 DEF Covering
    <3> HIDE DEF n
    <3>3. JoinMatches(r, s, t, u) /\ JoinMatches(r, s, t, v)
      BY <2>5
    <3>4. ASSUME NEW j \in 1 .. n PROVE Same(u[j], v[j])
      <4>1. CASE s.schema[j] \in Columns(r)
        <5>1. PICK i \in DOMAIN r.schema : s.schema[j] = r.schema[i]
          BY <4>1 DEF Columns
        <5>2. s.schema[j] \in Columns(s) /\ column_index(s, s.schema[j]) = j
          BY <3>1, ColumnExact DEF Columns
        <5>3. Same(t[i], u[j]) /\ Same(t[i], v[j])
          BY <3>3, <5>1, <5>2 DEF JoinMatches
        <5>4. QED BY <5>3 DEF Same
      <4>2. ASSUME NEW i \in 1 .. k, at[i] = j PROVE Same(u[j], v[j])
        <5>1. DOMAIN Cut(u, at) = 1 .. k /\ Cut(u, at)[i] = u[j] /\ Cut(v, at)[i] = v[j]
          BY <3>2, <4>2 DEF Cut
        <5>2. QED BY <5>1 DEF SameTuple
      <4>3. QED BY <3>2, <4>1, <4>2
    <3>5. QED BY <3>1, <3>4 DEF SameTuple
  <2>9. DistinctNames(q.schema)
    BY DEF q
  <2>10. Sound(q) /\ Meaning(q) = SideBySide(Q)
    BY <2>1, <2>2, <2>7, <2>8, <2>9, JoinedSound
  <2>11. QED BY <2>10 DEF q, Q
<1>3. QED BY <1>1, <1>2

\* Rows with a column renamed.
Renamed(rows, from, to) ==
    LET New(c) == IF c = from THEN to ELSE c
    IN {[c \in {New(d) : d \in DOMAIN row} |->
            row[CHOOSE d \in DOMAIN row : New(d) = c]] : row \in rows}

\* rename, on rows.
LEMMA RenameSound ==
    ASSUME NEW r, Sound(r), NEW from, NEW to,
           DistinctNames(rename(r, [c \in {from} |-> to]).schema)
    PROVE  /\ Sound(rename(r, [c \in {from} |-> to]))
           /\ Meaning(rename(r, [c \in {from} |-> to])) = Renamed(Meaning(r), from, to)
<1> DEFINE q == rename(r, [c \in {from} |-> to])
           New(c) == IF c = from THEN to ELSE c
           n == Len(r.schema)
           Moved(row) == [c \in {New(d) : d \in DOMAIN row} |->
                             row[CHOOSE d \in DOMAIN row : New(d) = c]]
           schema == [i \in 1 .. n |-> New(r.schema[i])]
<1>1. /\ r = Relation(r.schema, r.tuples)
      /\ n \in Nat /\ DOMAIN r.schema = 1 .. n /\ DistinctNames(r.schema)
      /\ r.tuples \in Seq(ToSet(r.tuples)) /\ Distinct(r.tuples)
      /\ \A t \in ToSet(r.tuples) : IsTuple(t) /\ Len(t) = n
  BY SoundParts
<1>2. q.schema = schema /\ q.tuples = r.tuples /\ q = Relation(schema, r.tuples)
  <2> DEFINE renames == [c \in {from} |-> to]
  <2>1. DOMAIN renames = {from} /\ renames[from] = to
    OBVIOUS
  <2> HIDE DEF renames
  <2>2. \A i \in 1 .. n : (IF r.schema[i] \in DOMAIN renames THEN renames[r.schema[i]] ELSE r.schema[i])
                           = New(r.schema[i])
    BY <2>1
  <2>3. [i \in DOMAIN r.schema |->
            IF r.schema[i] \in DOMAIN renames THEN renames[r.schema[i]] ELSE r.schema[i]] = schema
    BY <1>1, <2>2
  <2>4. q = [r EXCEPT !.schema = schema]
    BY <2>3 DEF rename, renames
  <2> HIDE DEF q, schema
  <2>5. QED BY <1>1, <2>4 DEF Relation
<1>3. DistinctNames(q.schema)
  OBVIOUS
<1> HIDE DEF q, n, New
<1>4. DOMAIN schema = 1 .. n /\ \A i \in 1 .. n : schema[i] = New(r.schema[i])
  OBVIOUS
<1>5. schema \in Seq(ToSet(schema)) /\ Len(schema) = n
  <2> DEFINE V == ToSet(schema)
  <2>1. \A i \in 1 .. n : New(r.schema[i]) \in V
    BY <1>4 DEF ToSet
  <2> HIDE DEF V
  <2>2. schema \in Seq(V) /\ Len(schema) = n
    BY <1>1, <2>1
  <2>3. QED BY <2>2 DEF V
<1> HIDE DEF schema
<1>6. Sound(q)
  BY <1>1, <1>2, <1>3, <1>5, SoundMade
<1>7. \A c \in Columns(r) : \E i \in 1 .. n : c = r.schema[i]
  BY <1>1 DEF Columns
<1>8. ASSUME NEW c \in Columns(r), NEW d \in Columns(r), New(c) = New(d) PROVE c = d
  <2>1. PICK i \in 1 .. n : c = r.schema[i]
    BY <1>7
  <2>2. PICK j \in 1 .. n : d = r.schema[j]
    BY <1>7
  <2>3. schema[i] = schema[j]
    BY <1>4, <1>8, <2>1, <2>2
  <2>4. i = j
    BY <1>2, <1>3, <1>4, <2>3 DEF DistinctNames, IsInjective
  <2>5. QED BY <2>1, <2>2, <2>4
<1>9. Columns(q) = {New(d) : d \in Columns(r)}
  <2>1. Columns(q) = {schema[i] : i \in 1 .. n}
    BY <1>2, <1>4 DEF Columns
  <2>2. Columns(r) = {r.schema[i] : i \in 1 .. n}
    BY <1>1 DEF Columns
  <2>3. QED BY <1>4, <2>1, <2>2
<1>10. ASSUME NEW t PROVE Row(q, t) = Moved(Row(r, t))
  <2> DEFINE row == Row(r, t)
             f == Moved(row)
  <2>1. /\ DOMAIN row = Columns(r)
        /\ \A i \in 1 .. n : r.schema[i] \in Columns(r) /\ row[r.schema[i]] = t[i]
    BY <1>1, RowExact
  <2> HIDE DEF row
  <2>2. f = [c \in Columns(q) |-> row[CHOOSE d \in Columns(r) : New(d) = c]]
    BY <1>9, <2>1
  <2>3. ASSUME NEW c \in Columns(q) PROVE f[c] = t[column_index(q, c)]
    <3> DEFINE i == column_index(q, c)
               e == CHOOSE d \in Columns(r) : New(d) = c
    <3>1. i \in 1 .. n /\ schema[i] = c
      BY <1>2, <1>3, <1>4, ColumnAt
    <3> HIDE DEF i
    <3>2. r.schema[i] \in Columns(r) /\ New(r.schema[i]) = c
      BY <1>4, <2>1, <3>1
    <3>3. e \in Columns(r) /\ New(e) = c
      BY <3>2
    <3>4. f[c] = row[e]
      BY <2>2
    <3> HIDE DEF e, f
    <3>5. e = r.schema[i]
      BY <1>8, <3>2, <3>3
    <3>6. QED BY <2>1, <3>1, <3>4, <3>5 DEF i
  <2>4. f = [c \in Columns(q) |-> t[column_index(q, c)]]
    <3>1. f = [c \in Columns(q) |-> f[c]]
      BY <2>2
    <3> HIDE DEF f
    <3>2. QED BY <2>3, <3>1
  <2>5. QED BY <2>4 DEF Row, row
<1>11. Meaning(q) = {Row(q, t) : t \in ToSet(r.tuples)} /\ Meaning(r) = {Row(r, t) : t \in ToSet(r.tuples)}
  BY <1>2, MeaningRows
<1> HIDE DEF Moved
<1>12. Meaning(q) = {Moved(row) : row \in Meaning(r)}
  BY <1>10, <1>11
<1>13. QED BY <1>6, <1>12 DEF q, Moved, New, Renamed

\* What holds between two operators.
SessionInv == Sound(rel) /\ meaning = Meaning(rel)

\* The bases are relations of the session.
LEMMA BasesSound == \A s \in Bases : Sound(s)
BY SessionAssumption DEF Sound

\* An operator whose rows are right keeps it.
LEMMA ResultKeeps ==
    ASSUME NEW q, NEW rows, Sound(q), Meaning(q) = rows, Result(q, rows)
    PROVE  SessionInv'
<1>1. rel' = q /\ meaning' = Meaning(q)
  BY DEF Result
<1>2. Sound(rel')
  BY <1>1
<1>3. meaning' = Meaning(rel')
  BY <1>1
<1>4. QED BY <1>2, <1>3 DEF SessionInv

\* select, project and rename keep it.
LEMMA UnaryKeeps ==
    ASSUME SessionInv
    PROVE  /\ \A c, v : Select(c, v) => SessionInv'
           /\ \A columns : columns \in Seq(ToSet(columns)) /\ Project(columns) => SessionInv'
           /\ \A from, to : Rename(from, to) => SessionInv'
<1>1. Sound(rel) /\ meaning = Meaning(rel)
  BY DEF SessionInv
<1>2. ASSUME NEW c, NEW v, Select(c, v) PROVE SessionInv'
  <2> DEFINE q1 == select(rel, SameTuples(rel, c, v))
             rows1 == SameRows(Meaning(rel), c, v)
             q2 == select(rel, LessTuples(rel, c, v))
             rows2 == LessRows(Meaning(rel), c, v)
  <2>1. c \in Columns(rel) /\ (Result(q1, rows1) \/ Result(q2, rows2))
    BY <1>1, <1>2 DEF Select, SameTuples, SameRows, LessTuples, LessRows
  <2>2. Sound(q1) /\ Meaning(q1) = rows1
    BY <1>1, <2>1, SelectSame
  <2>3. Sound(q2) /\ Meaning(q2) = rows2
    BY <1>1, <2>1, SelectLess
  <2> HIDE DEF q1, rows1, q2, rows2
  <2>4. QED BY <2>1, <2>2, <2>3, ResultKeeps
<1>3. ASSUME NEW columns, columns \in Seq(ToSet(columns)), Project(columns) PROVE SessionInv'
  <2> DEFINE q == project(rel, columns)
             rows == Narrowed(Meaning(rel), columns)
  <2>1. ToSet(columns) \subseteq Columns(rel) /\ Result(q, rows)
    BY <1>1, <1>3 DEF Project, Narrowed
  <2>2. DistinctNames(q.schema)
    BY <2>1 DEF Result
  <2>3. Sound(q) /\ Meaning(q) = rows
    <3>1. Picks(rel, columns)
      BY <1>3, <2>1 DEF Picks, IsTuple
    <3>2. QED BY <1>1, <2>1, <2>2, <3>1, ProjectSound
  <2> HIDE DEF q, rows
  <2>4. QED BY <2>1, <2>3, ResultKeeps
<1>4. ASSUME NEW from, NEW to, Rename(from, to) PROVE SessionInv'
  <2> DEFINE q == rename(rel, [c \in {from} |-> to])
             rows == Renamed(Meaning(rel), from, to)
  <2>1. Result(q, rows)
    BY <1>1, <1>4 DEF Rename, Renamed
  <2>2. DistinctNames(q.schema)
    BY <2>1 DEF Result
  <2>3. Sound(q) /\ Meaning(q) = rows
    BY <1>1, <2>2, RenameSound
  <2> HIDE DEF q, rows
  <2>4. QED BY <2>1, <2>3, ResultKeeps
<1>5. QED BY <1>2, <1>3, <1>4

\* The operators on two relations keep it.
LEMMA BinaryKeeps ==
    ASSUME SessionInv, NEW s \in Bases
    PROVE  /\ Join(s) \/ CrossProduct(s) => SessionInv'
           /\ \A c, d : ThetaJoin(s, c, d) => SessionInv'
           /\ Union(s) \/ Difference(s) \/ Intersection(s) => SessionInv'
<1>1. Sound(rel) /\ meaning = Meaning(rel) /\ Sound(s)
  BY BasesSound DEF SessionInv
<1>2. ASSUME Join(s) PROVE SessionInv'
  <2> DEFINE q == join(rel, s)
             rows == SideBySide({p \in Meaning(rel) \X Meaning(s) : Agree(p[1], p[2])})
  <2>1. Result(q, rows)
    BY <1>1, <1>2 DEF Join
  <2>2. DistinctNames(q.schema)
    BY <2>1 DEF Result
  <2>3. Sound(q) /\ Meaning(q) = rows
    BY <1>1, <2>2, JoinSound
  <2> HIDE DEF q, rows
  <2>4. QED BY <2>1, <2>3, ResultKeeps
<1>3. ASSUME CrossProduct(s) PROVE SessionInv'
  <2> DEFINE q == cross_product(rel, s)
             rows == SideBySide(Meaning(rel) \X Meaning(s))
  <2>1. Result(q, rows)
    BY <1>1, <1>3 DEF CrossProduct
  <2>2. DistinctNames(q.schema)
    BY <2>1 DEF Result
  <2>3. Sound(q) /\ Meaning(q) = rows
    BY <1>1, <2>2, CrossSound
  <2> HIDE DEF q, rows
  <2>4. QED BY <2>1, <2>3, ResultKeeps
<1>4. ASSUME NEW c, NEW d, ThetaJoin(s, c, d) PROVE SessionInv'
  <2> DEFINE P == {p \in Pairs(rel, s) :
                      Less(p[1][column_index(rel, c)], p[2][column_index(s, d)])}
             Q == {p \in Meaning(rel) \X Meaning(s) : Less(p[1][c], p[2][d])}
             q == theta_join(rel, s, P)
             rows == SideBySide(Q)
  <2>1. c \in Columns(rel) /\ d \in Columns(s) /\ Result(q, rows)
    BY <1>1, <1>4 DEF ThetaJoin
  <2>2. DistinctNames(q.schema)
    BY <2>1 DEF Result
  <2>3. Matching(rel, s, P, Q)
    BY <1>1, <2>1, ThetaLess
  <2> HIDE DEF P, Q
  <2>4. Sound(q) /\ Meaning(q) = rows
    BY <1>1, <2>2, <2>3, ThetaSound
  <2> HIDE DEF q, rows
  <2>5. QED BY <2>1, <2>4, ResultKeeps
<1>5. ASSUME Union(s) PROVE SessionInv'
  <2> DEFINE q == union(rel, s)
             rows == Meaning(rel) \union Meaning(s)
  <2>1. rel.schema = s.schema /\ Result(q, rows)
    BY <1>1, <1>5 DEF Union
  <2>2. Sound(q) /\ Meaning(q) = rows
    BY <1>1, <2>1, UnionSound
  <2> HIDE DEF q, rows
  <2>3. QED BY <2>1, <2>2, ResultKeeps
<1>6. ASSUME Difference(s) PROVE SessionInv'
  <2> DEFINE q == difference(rel, s)
             rows == {row \in Meaning(rel) : row \notin Meaning(s) \/ HasNaN(row)}
  <2>1. rel.schema = s.schema /\ Result(q, rows)
    BY <1>1, <1>6 DEF Difference
  <2>2. Sound(q) /\ Meaning(q) = rows
    BY <1>1, <2>1, DifferenceSound
  <2> HIDE DEF q, rows
  <2>3. QED BY <2>1, <2>2, ResultKeeps
<1>7. ASSUME Intersection(s) PROVE SessionInv'
  <2> DEFINE q == intersection(rel, s)
             rows == {row \in Meaning(rel) \intersect Meaning(s) : ~ HasNaN(row)}
  <2>1. rel.schema = s.schema /\ Result(q, rows)
    BY <1>1, <1>7 DEF Intersection
  <2>2. Sound(q) /\ Meaning(q) = rows
    BY <1>1, <2>1, IntersectionSound
  <2> HIDE DEF q, rows
  <2>3. QED BY <2>1, <2>2, ResultKeeps
<1>8. QED BY <1>2, <1>3, <1>4, <1>5, <1>6, <1>7

\* Every operator keeps it.
LEMMA SessionKeeps == ASSUME SessionInv, SessionNext PROVE SessionInv'
<1>1. ASSUME NEW c \in Names, NEW v \in Constants, Select(c, v) PROVE SessionInv'
  BY <1>1, UnaryKeeps
<1>2. ASSUME NEW c \in Names, NEW d \in Names,
             Project(<<c>>) \/ (c # d /\ Project(<<c, d>>)) \/ Rename(c, d)
      PROVE  SessionInv'
  <2>1. <<c>> \in Seq(ToSet(<<c>>)) /\ <<c, d>> \in Seq(ToSet(<<c, d>>))
    BY DEF ToSet
  <2>2. CASE Project(<<c>>)
    BY <2>1, <2>2, UnaryKeeps
  <2>3. CASE Project(<<c, d>>)
    BY <2>1, <2>3, UnaryKeeps
  <2>4. CASE Rename(c, d)
    BY <2>4, UnaryKeeps
  <2>5. QED BY <1>2, <2>2, <2>3, <2>4
<1>3. ASSUME NEW s \in Bases,
             \/ Join(s) \/ CrossProduct(s) \/ Union(s) \/ Difference(s) \/ Intersection(s)
             \/ \E c, d \in Names : ThetaJoin(s, c, d)
      PROVE  SessionInv'
  BY <1>3, BinaryKeeps
<1>4. QED BY <1>1, <1>2, <1>3 DEF SessionNext

\* AlgebraExact: whatever operators were composed, the relation has exactly
\* the rows that the set operators give, none of them twice.
THEOREM AlgebraAlwaysExact == SessionSpec => []AlgebraExact
<1>1. SessionInit => SessionInv
  BY BasesSound DEF SessionInit, SessionInv
<1>2. SessionInv /\ [SessionNext]_sessionVars => SessionInv'
  <2>1. ASSUME SessionInv, UNCHANGED sessionVars PROVE SessionInv'
    <3>1. rel' = rel /\ meaning' = meaning
      BY <2>1 DEF sessionVars
    <3>2. Sound(rel') /\ meaning' = Meaning(rel')
      BY <2>1, <3>1 DEF SessionInv
    <3>3. QED BY <3>2 DEF SessionInv
  <2>2. QED BY <2>1, SessionKeeps
<1>3. SessionInv => AlgebraExact
  BY SoundParts DEF SessionInv, AlgebraExact
<1>4. QED BY <1>1, <1>2, <1>3, PTL DEF SessionSpec

-----------------------------------------------------------------------------
(* What closure computes.                                                  *)

\* A set of attributes with what one dependency adds to it.
Grow(S, fd) == IF fd.lhs \subseteq S THEN S \union fd.rhs ELSE S

\* A round is one growth for each dependency, in their order.
LEMMA AppliedUnfolds ==
    ASSUME NEW A, NEW list \in Seq(Dependency(A)), NEW S \in SUBSET A
    PROVE  \E k : /\ k[0] = S
                  /\ \A i \in 1 .. Len(list) : k[i] = Grow(k[i - 1], list[i])
                  /\ Applied(S, list) = k[Len(list)]
<1> DEFINE n == Len(list)
           X == SUBSET A
           step == [p \in (1 .. n) \X X |-> Grow(p[2], list[p[1]])]
           Is(h) == h = [s \in SUBSET DOMAIN list |->
                           IF s = {} THEN S
                           ELSE Grow(h[s \ {Max(s)}], list[Max(s)])]
           h == CHOOSE h : Is(h)
<1>1. n \in Nat /\ DOMAIN list = 1 .. n /\ \A i \in 1 .. n : list[i] \in Dependency(A)
  OBVIOUS
<1>2. Applied(S, list) = h[DOMAIN list]
  BY DEF Applied, FoldLeft, MapThenFoldSet, Grow
<1> HIDE DEF n
<1>3. \E g : Is(g)
  <2>1. step \in [(1 .. n) \X X -> X]
    BY <1>1 DEF Grow, Dependency
  <2>2. S \in X
    OBVIOUS
  <2>3. PICK g : FoldsUp(X, S, step, n, g)
    <3> HIDE DEF step, X
    <3>1. QED BY <1>1, <2>1, <2>2, FoldingUp
  <2>4. \A s \in SUBSET (1 .. n) : s # {} =>
            step[<<Max(s), g[s \ {Max(s)}]>>] = Grow(g[s \ {Max(s)}], list[Max(s)])
    <3> SUFFICES ASSUME NEW s \in SUBSET (1 .. n), s # {}
                 PROVE  step[<<Max(s), g[s \ {Max(s)}]>>] = Grow(g[s \ {Max(s)}], list[Max(s)])
      OBVIOUS
    <3>1. Max(s) \in 1 .. n
      BY <1>1, MaxOfSome
    <3>2. g[s \ {Max(s)}] \in X
      BY <2>3 DEF FoldsUp
    <3> HIDE DEF X
    <3>3. QED BY <3>1, <3>2
  <2>5. g = [s \in SUBSET (1 .. n) |-> IF s = {} THEN S ELSE step[<<Max(s), g[s \ {Max(s)}]>>]]
    BY <2>3 DEF FoldsUp
  <2>6. Is(g)
    <3> HIDE DEF step
    <3>1. QED BY <1>1, <2>4, <2>5
  <2>7. QED BY <2>6
<1>4. h = [s \in SUBSET (1 .. n) |-> IF s = {} THEN S ELSE Grow(h[s \ {Max(s)}], list[Max(s)])]
  <2>1. Is(h)
    BY <1>3
  <2> HIDE DEF h
  <2>2. QED BY <1>1, <2>1
<1> HIDE DEF h
<1> DEFINE k == [i \in 0 .. n |-> h[1 .. i]]
<1>5. h[1 .. 0] = S /\ \A i \in 1 .. n : h[1 .. i] = Grow(h[1 .. i - 1], list[i])
  <2>1. h[1 .. 0] = S
    BY <1>1, <1>4, IntervalSteps
  <2>2. ASSUME NEW i \in 1 .. n PROVE h[1 .. i] = Grow(h[1 .. i - 1], list[i])
    <3> DEFINE s == 1 .. i
    <3>1. s \in SUBSET (1 .. n) /\ s # {} /\ Max(s) = i /\ s \ {i} = 1 .. i - 1
      BY <1>1, IntervalSteps
    <3> HIDE DEF s
    <3>2. h[s] = Grow(h[s \ {Max(s)}], list[Max(s)])
      BY <1>4, <3>1
    <3>3. QED BY <3>1, <3>2 DEF s
  <2>3. QED BY <2>1, <2>2
<1>6. k[0] = S /\ k[n] = h[1 .. n]
  BY <1>1, <1>5
<1>7. \A i \in 1 .. n : k[i] = Grow(k[i - 1], list[i])
  <2>1. \A i \in 1 .. n : k[i] = h[1 .. i] /\ k[i - 1] = h[1 .. i - 1]
    BY <1>1
  <2> HIDE DEF k
  <2>2. QED BY <1>5, <2>1
<1>8. QED BY <1>1, <1>2, <1>6, <1>7 DEF n

\* A round loses nothing, takes in the right side of every dependency whose
\* left side was there, and stays within every closed set it started within.
\* If it changes anything, it completes a right side.
LEMMA AppliedExact ==
    ASSUME NEW A, NEW list \in Seq(Dependency(A)), NEW S \in SUBSET A
    PROVE  /\ Applied(S, list) \in SUBSET A /\ S \subseteq Applied(S, list)
           /\ \A i \in DOMAIN list : list[i].lhs \subseteq S => list[i].rhs \subseteq Applied(S, list)
           /\ \A K \in ClosedSets(A, list) : S \subseteq K => Applied(S, list) \subseteq K
           /\ Applied(S, list) # S =>
                 \E i \in DOMAIN list : /\ list[i].rhs \subseteq Applied(S, list)
                                        /\ ~ list[i].rhs \subseteq S
<1> DEFINE n == Len(list)
<1>1. PICK k : /\ k[0] = S
               /\ \A i \in 1 .. n : k[i] = Grow(k[i - 1], list[i])
               /\ Applied(S, list) = k[n]
  BY AppliedUnfolds
<1>2. n \in Nat /\ DOMAIN list = 1 .. n
      /\ \A i \in 1 .. n : list[i].lhs \in SUBSET A /\ list[i].rhs \in SUBSET A
  <2>1. n \in Nat /\ DOMAIN list = 1 .. n /\ \A i \in 1 .. n : list[i] \in Dependency(A)
    OBVIOUS
  <2>2. \A fd \in Dependency(A) : fd.lhs \in SUBSET A /\ fd.rhs \in SUBSET A
    BY DEF Dependency
  <2> HIDE DEF n
  <2>3. QED BY <2>1, <2>2
<1> HIDE DEF n
<1>3. \A i \in 0 .. n : k[i] \in SUBSET A /\ S \subseteq k[i]
  <2> DEFINE Good == {i \in Nat : i <= n => k[i] \in SUBSET A /\ S \subseteq k[i]}
  <2>1. 0 \in Good
    BY <1>1
  <2>2. ASSUME NEW i \in Nat, i \in Good PROVE i + 1 \in Good
    <3> SUFFICES ASSUME i + 1 <= n PROVE k[i + 1] \in SUBSET A /\ S \subseteq k[i + 1]
      OBVIOUS
    <3>1. i + 1 \in 1 .. n /\ (i + 1) - 1 = i /\ i <= n
      BY <1>2
    <3>2. k[i + 1] = Grow(k[i], list[i + 1])
      BY <1>1, <3>1
    <3>3. QED BY <1>2, <2>2, <3>1, <3>2 DEF Grow
  <2> HIDE DEF Good
  <2>3. Nat \subseteq Good
    BY <2>1, <2>2, Counting
  <2>4. QED BY <1>2, <2>3 DEF Good
\* What is there after some step is there after all of them.
<1>4. \A i \in 0 .. n : k[i] \subseteq k[n]
  <2> DEFINE Good == {d \in Nat : d <= n => k[n - d] \subseteq k[n]}
  <2>1. 0 \in Good
    BY <1>2
  <2>2. ASSUME NEW d \in Nat, d \in Good PROVE d + 1 \in Good
    <3> SUFFICES ASSUME d + 1 <= n PROVE k[n - (d + 1)] \subseteq k[n]
      OBVIOUS
    <3>1. n - d \in 1 .. n /\ (n - d) - 1 = n - (d + 1) /\ d <= n
      BY <1>2
    <3>2. k[n - d] = Grow(k[n - (d + 1)], list[n - d])
      BY <1>1, <3>1
    <3>3. k[n - (d + 1)] \subseteq k[n - d]
      BY <3>2 DEF Grow
    <3>4. QED BY <2>2, <3>1, <3>3
  <2> HIDE DEF Good
  <2>3. Nat \subseteq Good
    BY <2>1, <2>2, Counting
  <2>4. ASSUME NEW i \in 0 .. n PROVE k[i] \subseteq k[n]
    <3>1. n - i \in Nat /\ n - i <= n /\ n - (n - i) = i
      BY <1>2
    <3>2. QED BY <2>3, <3>1 DEF Good
  <2>5. QED BY <2>4
<1>5. \A i \in 1 .. n : list[i].lhs \subseteq S => list[i].rhs \subseteq k[n]
  <2> SUFFICES ASSUME NEW i \in 1 .. n, list[i].lhs \subseteq S PROVE list[i].rhs \subseteq k[n]
    OBVIOUS
  <2>1. i - 1 \in 0 .. n /\ i \in 0 .. n
    BY <1>2
  <2>2. list[i].lhs \subseteq k[i - 1]
    BY <1>3, <2>1
  <2>3. list[i].rhs \subseteq k[i]
    BY <1>1, <2>2 DEF Grow
  <2>4. QED BY <1>4, <2>1, <2>3
<1>6. ASSUME NEW K \in ClosedSets(A, list), S \subseteq K PROVE k[n] \subseteq K
  <2> DEFINE Good == {i \in Nat : i <= n => k[i] \subseteq K}
  <2>1. 0 \in Good
    BY <1>1, <1>6
  <2>2. ASSUME NEW i \in Nat, i \in Good PROVE i + 1 \in Good
    <3> SUFFICES ASSUME i + 1 <= n PROVE k[i + 1] \subseteq K
      OBVIOUS
    <3>1. i + 1 \in 1 .. n /\ (i + 1) - 1 = i /\ i <= n
      BY <1>2
    <3>2. k[i + 1] = Grow(k[i], list[i + 1])
      BY <1>1, <3>1
    <3>3. list[i + 1].lhs \subseteq K => list[i + 1].rhs \subseteq K
      BY <1>2, <3>1 DEF ClosedSets
    <3>4. QED BY <2>2, <3>1, <3>2, <3>3 DEF Grow
  <2> HIDE DEF Good
  <2>3. Nat \subseteq Good
    BY <2>1, <2>2, Counting
  <2>4. QED BY <1>2, <2>3 DEF Good
<1>7. ASSUME \A i \in 1 .. n : list[i].rhs \subseteq k[n] => list[i].rhs \subseteq S
      PROVE  k[n] = S
  <2> DEFINE Good == {i \in Nat : i <= n => k[i] = S}
  <2>1. 0 \in Good
    BY <1>1
  <2>2. ASSUME NEW i \in Nat, i \in Good PROVE i + 1 \in Good
    <3> SUFFICES ASSUME i + 1 <= n PROVE k[i + 1] = S
      OBVIOUS
    <3>1. i + 1 \in 1 .. n /\ (i + 1) - 1 = i /\ i <= n
      BY <1>2
    <3>2. k[i + 1] = Grow(S, list[i + 1])
      BY <1>1, <2>2, <3>1
    <3>3. CASE list[i + 1].lhs \subseteq S
      <4>1. list[i + 1].rhs \subseteq S
        BY <1>5, <1>7, <3>1, <3>3
      <4>2. QED BY <3>2, <4>1 DEF Grow
    <3>4. CASE ~ list[i + 1].lhs \subseteq S
      BY <3>2, <3>4 DEF Grow
    <3>5. QED BY <3>3, <3>4
  <2> HIDE DEF Good
  <2>3. Nat \subseteq Good
    BY <2>1, <2>2, Counting
  <2>4. QED BY <1>2, <2>3 DEF Good
<1>8. k[n] \in SUBSET A /\ S \subseteq k[n]
  BY <1>2, <1>3
<1>9. QED BY <1>1, <1>2, <1>5, <1>6, <1>7, <1>8

\* Nothing changes before all right sides are complete, so that a round that
\* changes nothing comes in time.
LEMMA RoundsEnd ==
    ASSUME NEW A, NEW list \in Seq(Dependency(A)), NEW round,
           round[0] \in SUBSET A,
           \A n \in 1 .. Len(list) + 1 : round[n] = Applied(round[n - 1], list)
    PROVE  /\ \A n \in 0 .. Len(list) + 1 : round[n] \in SUBSET A /\ round[0] \subseteq round[n]
           /\ \A K \in ClosedSets(A, list) : round[0] \subseteq K =>
                 \A n \in 0 .. Len(list) + 1 : round[n] \subseteq K
           /\ \E n \in 1 .. Len(list) + 1 : round[n] = round[n - 1]
<1> DEFINE L == Len(list)
           Complete(n) == {i \in 1 .. L : list[i].rhs \subseteq round[n]}
<1>1. L \in Nat /\ DOMAIN list = 1 .. L
  OBVIOUS
<1> HIDE DEF L
<1>2. \A n \in Nat : n + 1 <= L + 1 => round[n + 1] = Applied(round[n], list)
  <2> SUFFICES ASSUME NEW n \in Nat, n + 1 <= L + 1 PROVE round[n + 1] = Applied(round[n], list)
    OBVIOUS
  <2>1. n + 1 \in 1 .. L + 1 /\ (n + 1) - 1 = n
    BY <1>1
  <2>2. QED BY <2>1 DEF L
<1>3. \A n \in 0 .. L + 1 : round[n] \in SUBSET A /\ round[0] \subseteq round[n]
  <2> DEFINE Good == {n \in Nat : n <= L + 1 => round[n] \in SUBSET A /\ round[0] \subseteq round[n]}
  <2>1. 0 \in Good
    OBVIOUS
  <2>2. ASSUME NEW n \in Nat, n \in Good PROVE n + 1 \in Good
    <3> SUFFICES ASSUME n + 1 <= L + 1 PROVE round[n + 1] \in SUBSET A /\ round[0] \subseteq round[n + 1]
      OBVIOUS
    <3>1. round[n] \in SUBSET A /\ round[0] \subseteq round[n]
      BY <1>1, <2>2
    <3>2. round[n] \subseteq round[n + 1] /\ round[n + 1] \in SUBSET A
      BY <1>2, <3>1, AppliedExact
    <3>3. QED BY <3>1, <3>2
  <2> HIDE DEF Good
  <2>3. Nat \subseteq Good
    BY <2>1, <2>2, Counting
  <2>4. QED BY <1>1, <2>3 DEF Good
<1>4. ASSUME NEW K \in ClosedSets(A, list), round[0] \subseteq K
      PROVE  \A n \in 0 .. L + 1 : round[n] \subseteq K
  <2> DEFINE Good == {n \in Nat : n <= L + 1 => round[n] \subseteq K}
  <2>1. 0 \in Good
    BY <1>4
  <2>2. ASSUME NEW n \in Nat, n \in Good PROVE n + 1 \in Good
    <3> SUFFICES ASSUME n + 1 <= L + 1 PROVE round[n + 1] \subseteq K
      OBVIOUS
    <3>1. round[n] \in SUBSET A /\ round[n] \subseteq K
      BY <1>1, <1>3, <2>2
    <3>2. QED BY <1>2, <3>1, AppliedExact
  <2> HIDE DEF Good
  <2>3. Nat \subseteq Good
    BY <2>1, <2>2, Counting
  <2>4. QED BY <1>1, <2>3 DEF Good
<1>5. ASSUME \A n \in 1 .. L + 1 : round[n] # round[n - 1] PROVE FALSE
  <2> DEFINE Good == {n \in Nat : n <= L + 1 => Cardinality(Complete(n)) >= n}
  <2>1. \A n : IsFiniteSet(Complete(n)) /\ Cardinality(Complete(n)) \in Nat
                 /\ Cardinality(Complete(n)) <= L
    <3> TAKE n
    <3>1. IsFiniteSet(1 .. L) /\ Cardinality(1 .. L) = L
      BY <1>1, FS_Interval
    <3>2. Complete(n) \in SUBSET (1 .. L)
      OBVIOUS
    <3> HIDE DEF Complete
    <3>3. QED BY <3>1, <3>2, FS_Subset, FS_CardinalityType
  <2>2. 0 \in Good
    <3> HIDE DEF Complete
    <3>1. QED BY <2>1
  <2>3. ASSUME NEW n \in Nat, n \in Good PROVE n + 1 \in Good
    <3> SUFFICES ASSUME n + 1 <= L + 1 PROVE Cardinality(Complete(n + 1)) >= n + 1
      OBVIOUS
    <3>1. round[n] \in SUBSET A /\ Cardinality(Complete(n)) >= n
      BY <1>1, <1>3, <2>3
    <3>2. round[n + 1] = Applied(round[n], list) /\ round[n + 1] # round[n]
      <4>1. n + 1 \in 1 .. L + 1 /\ (n + 1) - 1 = n
        BY <1>1
      <4>2. QED BY <1>2, <1>5, <4>1
    <3>3. PICK i \in 1 .. L : list[i].rhs \subseteq round[n + 1] /\ ~ list[i].rhs \subseteq round[n]
      BY <1>1, <3>1, <3>2, AppliedExact
    <3>4. round[n] \subseteq round[n + 1]
      BY <3>1, <3>2, AppliedExact
    <3>5. Complete(n) \union {i} \subseteq Complete(n + 1) /\ i \notin Complete(n)
      BY <3>3, <3>4
    <3>6. Cardinality(Complete(n) \union {i}) = Cardinality(Complete(n)) + 1
      <4> HIDE DEF Complete
      <4>1. QED BY <2>1, <3>5, FS_AddElement
    <3>7. Cardinality(Complete(n) \union {i}) <= Cardinality(Complete(n + 1))
      <4> HIDE DEF Complete
      <4>1. QED BY <2>1, <3>5, FS_Subset
    <3> HIDE DEF Complete
    <3>8. QED BY <2>1, <3>1, <3>6, <3>7
  <2> HIDE DEF Good
  <2>4. Nat \subseteq Good
    BY <2>2, <2>3, Counting
  <2>5. L + 1 \in Nat /\ L + 1 \in Good
    BY <1>1, <2>4
  <2> HIDE DEF Complete
  <2>6. Cardinality(Complete(L + 1)) >= L + 1
    <3>1. L + 1 <= L + 1 => Cardinality(Complete(L + 1)) >= L + 1
      BY <2>5 DEF Good
    <3>2. QED BY <1>1, <3>1
  <2>7. QED BY <1>1, <2>1, <2>6
<1>6. QED BY <1>3, <1>4, <1>5 DEF L

\* closure finds the least closed set around what it is given.
LEMMA ClosureExact ==
    ASSUME NEW A, NEW list \in Seq(Dependency(A)), NEW S \in SUBSET A
    PROVE  /\ closure(S, list) \in ClosedSets(A, list) /\ S \subseteq closure(S, list)
           /\ \A K \in ClosedSets(A, list) : S \subseteq K => closure(S, list) \subseteq K
<1> DEFINE L == Len(list)
           X == SUBSET A
           step == [p \in X |-> Applied(p, list)]
           Is(h) == h = [n \in 0 .. L + 1 |-> IF n = 0 THEN S ELSE Applied(h[n - 1], list)]
           h == CHOOSE h : Is(h)
           last == CHOOSE n \in 1 .. L + 1 : h[n] = h[n - 1]
<1>1. L \in Nat /\ L + 1 \in Nat
  OBVIOUS
<1>2. closure(S, list) = h[last]
  BY DEF closure
<1> HIDE DEF L
<1>3. \E g : Is(g)
  <2>1. step \in [X -> X] /\ S \in X
    BY AppliedExact
  <2>2. PICK g : Iterates(X, S, step, L + 1, g)
    <3> HIDE DEF step, X
    <3>1. QED BY <1>1, <2>1, Iteration
  <2>3. \A n \in 0 .. L + 1 : g[n] \in X
    BY <1>1, <2>2, IterationUnfolds
  <2>4. \A n \in 0 .. L + 1 : n # 0 => step[g[n - 1]] = Applied(g[n - 1], list)
    BY <1>1, <2>3
  <2>5. g = [n \in 0 .. L + 1 |-> IF n = 0 THEN S ELSE step[g[n - 1]]]
    BY <2>2 DEF Iterates
  <2>6. Is(g)
    <3> HIDE DEF step
    <3>1. QED BY <2>4, <2>5
  <2>7. QED BY <2>6
<1>4. h[0] = S /\ \A n \in 1 .. L + 1 : h[n] = Applied(h[n - 1], list)
  <2>1. h = [n \in 0 .. L + 1 |-> IF n = 0 THEN S ELSE Applied(h[n - 1], list)]
    BY <1>3
  <2> HIDE DEF h
  <2>2. QED BY <1>1, <2>1
<1> HIDE DEF h
<1>5. /\ \A n \in 0 .. L + 1 : h[n] \in SUBSET A /\ S \subseteq h[n]
      /\ \A K \in ClosedSets(A, list) : S \subseteq K => \A n \in 0 .. L + 1 : h[n] \subseteq K
      /\ \E n \in 1 .. L + 1 : h[n] = h[n - 1]
  BY <1>4, RoundsEnd DEF L
<1>6. last \in 1 .. L + 1 /\ h[last] = h[last - 1]
  BY <1>5
<1> HIDE DEF last
<1>7. last - 1 \in 0 .. L + 1 /\ last \in 0 .. L + 1 /\ h[last] = Applied(h[last], list)
  BY <1>1, <1>4, <1>6
<1>8. h[last] \in ClosedSets(A, list)
  BY <1>5, <1>7, AppliedExact DEF ClosedSets
<1>9. QED BY <1>2, <1>5, <1>7, <1>8

\* What a set determines is its closure.
LEMMA DeterminedIsClosure ==
    ASSUME NEW A, NEW list \in Seq(Dependency(A)), NEW S \in SUBSET A
    PROVE  Determined(S, ClosedSets(A, list)) = closure(S, list)
<1>1. /\ closure(S, list) \in ClosedSets(A, list) /\ S \subseteq closure(S, list)
      /\ \A K \in ClosedSets(A, list) : S \subseteq K => closure(S, list) \subseteq K
  BY ClosureExact
<1>2. QED BY <1>1 DEF Determined

-----------------------------------------------------------------------------
(* Candidate keys.                                                         *)

\* The sets whose closure is everything determine everything.
LEMMA SuperkeysExact ==
    ASSUME NEW A, NEW list \in Seq(Dependency(A))
    PROVE  /\ superkeys(A, list) \subseteq (SUBSET A) \ {{}}
           /\ \A s \in (SUBSET A) \ {{}} :
                 s \in superkeys(A, list) <=> Determines(s, A, ClosedSets(A, list))
<1>1. ASSUME NEW s \in SUBSET A
      PROVE  closure(s, list) = A <=> Determines(s, A, ClosedSets(A, list))
  <2>1. closure(s, list) \in SUBSET A
    BY ClosureExact DEF ClosedSets
  <2>2. QED BY <2>1, DeterminedIsClosure DEF Determines
<1>2. QED BY <1>1 DEF superkeys

\* The least sets among those seen, all of them.
LeastOf(minimal, seen) ==
    /\ minimal \subseteq seen
    /\ \A s \in seen : \E k \in minimal : k \subseteq s
    /\ \A k, l \in minimal : k \subseteq l => k = l

\* One more set looked at leaves the least ones.
LEMMA WithKeyLeast ==
    ASSUME NEW minimal, NEW seen, NEW s, LeastOf(minimal, seen)
    PROVE  LeastOf(WithKey(minimal, s), seen \union {s})
<1>1. CASE \E k \in minimal : k \subseteq s
  BY <1>1 DEF LeastOf, WithKey
<1>2. CASE \A k \in minimal : ~ k \subseteq s
  <2> DEFINE after == {k \in minimal : ~ s \subseteq k} \union {s}
  <2>1. WithKey(minimal, s) = after
    BY <1>2 DEF WithKey
  <2>2. after \subseteq seen \union {s}
    BY DEF LeastOf
  <2>3. ASSUME NEW t \in seen \union {s} PROVE \E k \in after : k \subseteq t
    <3>1. CASE t = s
      BY <3>1
    <3>2. CASE t \in seen
      <4>1. PICK k \in minimal : k \subseteq t
        BY <3>2 DEF LeastOf
      <4>2. k \in after \/ s \subseteq t
        BY <4>1
      <4>3. QED BY <4>1, <4>2
    <3>3. QED BY <3>1, <3>2
  <2>4. \A k, l \in after : k \subseteq l => k = l
    BY <1>2 DEF LeastOf
  <2> HIDE DEF after
  <2>5. QED BY <2>1, <2>2, <2>3, <2>4 DEF LeastOf
<1>3. QED BY <1>1, <1>2

\* The least superkeys are the keys.
LEMMA LeastSuperkeysAreKeys ==
    ASSUME NEW A, NEW list \in Seq(Dependency(A)), NEW minimal,
           LeastOf(minimal, superkeys(A, list))
    PROVE  minimal = Keys(A, ClosedSets(A, list))
<1> DEFINE C == ClosedSets(A, list)
           SK == superkeys(A, list)
<1>1. /\ SK \subseteq (SUBSET A) \ {{}}
      /\ \A s \in (SUBSET A) \ {{}} : s \in SK <=> Determines(s, A, C)
  BY SuperkeysExact
<1>2. /\ minimal \subseteq SK
      /\ \A s \in SK : \E k \in minimal : k \subseteq s
      /\ \A k, l \in minimal : k \subseteq l => k = l
  BY DEF LeastOf
<1> HIDE DEF C, SK
<1>3. ASSUME NEW k \in minimal PROVE k \in Keys(A, C)
  <2>1. k \in (SUBSET A) \ {{}} /\ Determines(k, A, C)
    BY <1>1, <1>2
  <2>2. ASSUME NEW J \in (SUBSET k) \ {{}, k}, Determines(J, A, C) PROVE FALSE
    <3>1. J \in (SUBSET A) \ {{}}
      BY <2>1
    <3>2. J \in SK
      BY <1>1, <2>2, <3>1
    <3>3. PICK l \in minimal : l \subseteq J
      BY <1>2, <3>2
    <3>4. J \subseteq k /\ J # k
      BY <2>2
    <3>5. l \subseteq k
      BY <3>3, <3>4
    <3>6. l = k
      BY <1>2, <3>5
    <3>7. QED BY <3>3, <3>4, <3>6
  <2>3. QED BY <2>1, <2>2 DEF Keys
<1>4. ASSUME NEW K \in Keys(A, C) PROVE K \in minimal
  <2>1. /\ K \in (SUBSET A) \ {{}} /\ Determines(K, A, C)
        /\ \A J \in (SUBSET K) \ {{}, K} : ~ Determines(J, A, C)
    BY DEF Keys
  <2>2. K \in SK
    BY <1>1, <2>1
  <2>3. PICK k \in minimal : k \subseteq K
    BY <1>2, <2>2
  <2>4. k \in (SUBSET A) \ {{}} /\ Determines(k, A, C)
    BY <1>1, <1>2
  <2>5. ASSUME k # K PROVE FALSE
    <3>1. k \in (SUBSET K) \ {{}, K}
      BY <2>3, <2>4, <2>5
    <3>2. QED BY <2>1, <2>4, <3>1
  <2>6. QED BY <2>5
<1>5. QED BY <1>3, <1>4 DEF C

\* Whatever the order, candidate_keys finds the keys.
LEMMA CandidateKeysExact ==
    ASSUME NEW A, IsFiniteSet(A), NEW list \in Seq(Dependency(A))
    PROVE  candidate_keys(A, list) = Keys(A, ClosedSets(A, list))
<1> DEFINE T == superkeys(A, list)
           X == SUBSET SUBSET A
           pick == [s \in SUBSET T |-> CHOOSE x \in s : TRUE]
           step == [p \in T \X X |-> WithKey(p[2], p[1])]
           Is(h) == h = [s \in SUBSET T |->
                           IF s = {} THEN {}
                           ELSE WithKey(h[s \ {CHOOSE x \in s : TRUE}], CHOOSE x \in s : TRUE)]
           h == CHOOSE h : Is(h)
<1>1. candidate_keys(A, list) = h[T]
  BY DEF candidate_keys, FoldSet, MapThenFoldSet
<1>2. T \subseteq SUBSET A /\ IsFiniteSet(T)
  <2>1. T \subseteq SUBSET A
    BY SuperkeysExact
  <2>2. IsFiniteSet(SUBSET A)
    BY FS_SUBSET
  <2> HIDE DEF T
  <2>3. QED BY <2>1, <2>2, FS_Subset
<1> HIDE DEF T
<1>3. \A s \in SUBSET T : s # {} => pick[s] \in s /\ pick[s] = CHOOSE x \in s : TRUE
  OBVIOUS
<1>4. \E g : Is(g)
  <2>1. step \in [T \X X -> X] /\ {} \in X
    <3>1. \A x \in T, K \in X : WithKey(K, x) \in X
      BY <1>2 DEF WithKey
    <3>2. QED BY <3>1
  <2>2. PICK g : Folds(T, X, {}, step, pick, g)
    <3> HIDE DEF X, step, pick
    <3>1. QED BY <1>2, <1>3, <2>1, Folding
  <2>3. \A s \in SUBSET T : s # {} =>
            step[<<pick[s], g[s \ {pick[s]}]>>]
              = WithKey(g[s \ {CHOOSE x \in s : TRUE}], CHOOSE x \in s : TRUE)
    <3> SUFFICES ASSUME NEW s \in SUBSET T, s # {}
                 PROVE  step[<<pick[s], g[s \ {pick[s]}]>>] = WithKey(g[s \ {pick[s]}], pick[s])
      BY <1>3
    <3>1. pick[s] \in T
      BY <1>3
    <3>2. g[s \ {pick[s]}] \in X
      <4>1. s \ {pick[s]} \in SUBSET T
        OBVIOUS
      <4> HIDE DEF X, pick
      <4>2. QED BY <2>2, <4>1 DEF Folds
    <3> HIDE DEF X, pick
    <3>3. QED BY <3>1, <3>2
  <2>4. g = [s \in SUBSET T |-> IF s = {} THEN {} ELSE step[<<pick[s], g[s \ {pick[s]}]>>]]
    BY <2>2 DEF Folds
  <2>5. Is(g)
    <3> HIDE DEF step, pick
    <3>1. QED BY <2>3, <2>4
  <2>6. QED BY <2>5
<1>5. \A s \in SUBSET T : h[s] = IF s = {} THEN {} ELSE WithKey(h[s \ {pick[s]}], pick[s])
  <2>1. Is(h)
    BY <1>4
  <2> HIDE DEF h
  <2>2. ASSUME NEW s \in SUBSET T
        PROVE  h[s] = IF s = {} THEN {} ELSE WithKey(h[s \ {pick[s]}], pick[s])
    <3>1. h[s] = IF s = {} THEN {}
                 ELSE WithKey(h[s \ {CHOOSE x \in s : TRUE}], CHOOSE x \in s : TRUE)
      BY <2>1
    <3>2. pick[s] = CHOOSE x \in s : TRUE
      OBVIOUS
    <3> HIDE DEF pick
    <3>3. QED BY <3>1, <3>2
  <2> HIDE DEF pick
  <2>3. QED BY <2>2
<1> HIDE DEF h, pick
<1>6. \A s \in SUBSET T : IsFiniteSet(s) /\ Cardinality(s) \in Nat
  BY <1>2, FS_Subset, FS_CardinalityType
<1> DEFINE Good == {n \in Nat : \A s \in SUBSET T : Cardinality(s) = n => LeastOf(h[s], s)}
<1>7. 0 \in Good
  <2> SUFFICES ASSUME NEW s \in SUBSET T, Cardinality(s) = 0 PROVE LeastOf(h[s], s)
    OBVIOUS
  <2>1. s = {}
    BY <1>6, FS_EmptySet
  <2>2. h[s] = {}
    BY <1>5, <2>1
  <2>3. QED BY <2>1, <2>2 DEF LeastOf
<1>8. ASSUME NEW n \in Nat, n \in Good PROVE n + 1 \in Good
  <2> SUFFICES ASSUME NEW s \in SUBSET T, Cardinality(s) = n + 1 PROVE LeastOf(h[s], s)
    OBVIOUS
  <2> DEFINE r == s \ {pick[s]}
  <2>1. s # {}
    <3>1. Cardinality(s) # 0
      OBVIOUS
    <3>2. QED BY <3>1, FS_EmptySet
  <2>2. pick[s] \in s /\ r \in SUBSET T /\ r \union {pick[s]} = s
    BY <1>3, <2>1
  <2>3. Cardinality(r) = n
    BY <1>6, <2>2, FS_RemoveElement
  <2>4. h[s] = WithKey(h[r], pick[s])
    BY <1>5, <2>1
  <2> HIDE DEF r
  <2>5. LeastOf(h[r], r)
    BY <1>8, <2>2, <2>3
  <2>6. LeastOf(WithKey(h[r], pick[s]), r \union {pick[s]})
    BY <2>5, WithKeyLeast
  <2>7. QED BY <2>2, <2>4, <2>6
<1> HIDE DEF Good
<1>9. LeastOf(h[T], T)
  <2>1. Cardinality(T) \in Nat /\ Nat \subseteq Good
    BY <1>6, <1>7, <1>8, Counting
  <2>2. QED BY <2>1 DEF Good
<1>10. QED BY <1>1, <1>9, LeastSuperkeysAreKeys DEF T

-----------------------------------------------------------------------------
(* The verdicts on the normal forms.                                       *)

\* What a list's closed sets and what they determine have to do with each other.
LEMMA DeterminedFacts ==
    ASSUME NEW A, NEW list \in Seq(Dependency(A)), NEW S \in SUBSET A
    PROVE  LET C == ClosedSets(A, list)
               D == Determined(S, C)
           IN /\ D \in C /\ D \subseteq A /\ S \subseteq D
              /\ \A K \in C : S \subseteq K => D \subseteq K
              /\ \A i \in DOMAIN list : list[i].lhs \subseteq D => list[i].rhs \subseteq D
<1>1. /\ closure(S, list) \in ClosedSets(A, list) /\ S \subseteq closure(S, list)
      /\ \A K \in ClosedSets(A, list) : S \subseteq K => closure(S, list) \subseteq K
  BY ClosureExact
<1>2. /\ closure(S, list) \subseteq A
      /\ \A i \in DOMAIN list :
            list[i].lhs \subseteq closure(S, list) => list[i].rhs \subseteq closure(S, list)
  BY <1>1 DEF ClosedSets
<1>3. QED BY <1>1, <1>2, DeterminedIsClosure

\* The sides of the dependencies of a list.
LEMMA SidesOf ==
    ASSUME NEW A, NEW list \in Seq(Dependency(A)), NEW i \in DOMAIN list
    PROVE  /\ list[i] \in Dependency(A)
           /\ list[i].lhs \in SUBSET A /\ list[i].rhs \in SUBSET A /\ list[i].rhs # {}
<1>1. list[i] \in Dependency(A)
  OBVIOUS
<1>2. \A fd \in Dependency(A) : fd.lhs \in SUBSET A /\ fd.rhs \in SUBSET A /\ fd.rhs # {}
  BY DEF Dependency
<1>3. QED BY <1>1, <1>2

\* What is determined beyond a set is on the right of a dependency whose left
\* side is determined too.
LEMMA DeterminedBy ==
    ASSUME NEW A, NEW list \in Seq(Dependency(A)), NEW S \in SUBSET A,
           NEW a \in Determined(S, ClosedSets(A, list)), a \notin S
    PROVE  \E i \in DOMAIN list :
              /\ list[i].lhs \subseteq Determined(S, ClosedSets(A, list)) \ {a}
              /\ a \in list[i].rhs
<1> DEFINE C == ClosedSets(A, list)
           D == Determined(S, C)
<1>1. /\ D \subseteq A /\ S \subseteq D
      /\ \A K \in C : S \subseteq K => D \subseteq K
      /\ \A i \in DOMAIN list : list[i].lhs \subseteq D => list[i].rhs \subseteq D
  BY DeterminedFacts
<1>2. a \in D
  OBVIOUS
<1>3. D \ {a} \notin C
  <2> HIDE DEF D, C
  <2>1. QED BY <1>1, <1>2
<1>4. PICK i \in DOMAIN list : list[i].lhs \subseteq D \ {a} /\ ~ list[i].rhs \subseteq D \ {a}
  <2> HIDE DEF D
  <2>1. QED BY <1>1, <1>3 DEF ClosedSets
<1>5. list[i].rhs \subseteq D
  <2> HIDE DEF D
  <2>1. QED BY <1>1, <1>4
<1>6. QED BY <1>4, <1>5

\* is_bcnf answers for all that follows from the dependencies.
LEMMA BcnfExact ==
    ASSUME NEW A, NEW list \in Seq(Dependency(A)), \A i \in DOMAIN list : list[i].lhs # {}
    PROVE  is_bcnf(A, list) <=> InBCNF(A, ClosedSets(A, list))
<1> DEFINE C == ClosedSets(A, list)
<1>1. \A S \in SUBSET A : Determined(S, C) \subseteq A /\ S \subseteq Determined(S, C)
  BY DeterminedFacts
<1>2. ASSUME is_bcnf(A, list), NEW S \in SUBSET A, ~ Determines(S, A, C)
      PROVE  Determined(S, C) \intersect A = S
  <2> SUFFICES ASSUME NEW a \in Determined(S, C), a \notin S PROVE FALSE
    BY <1>1
  <2>1. S \in C
    <3> SUFFICES ASSUME NEW i \in DOMAIN list, list[i].lhs \subseteq S, ~ list[i].rhs \subseteq S
                 PROVE  FALSE
      BY DEF ClosedSets
    <3>1. ~ is_trivial(list[i])
      BY DEF is_trivial
    <3>2. list[i].lhs \in superkeys(A, list)
      BY <1>2, <3>1 DEF is_bcnf, Violators
    <3>3. Determines(list[i].lhs, A, C)
      BY <3>2, SuperkeysExact
    <3>4. list[i].lhs \in SUBSET A
      BY SidesOf
    <3>5. Determined(list[i].lhs, C) \subseteq Determined(S, C)
      BY <3>4 DEF Determined
    <3>6. QED BY <1>2, <3>3, <3>5 DEF Determines
  <2>2. Determined(S, C) \subseteq S
    BY <2>1, DeterminedFacts
  <2>3. QED BY <2>2
<1>3. ASSUME InBCNF(A, C), NEW i \in Violators(A, list)
      PROVE  FALSE
  <2>1. /\ i \in DOMAIN list /\ ~ is_trivial(list[i])
        /\ list[i].lhs \notin superkeys(A, list)
    BY DEF Violators
  <2>2. list[i].lhs \in SUBSET A /\ list[i].lhs # {}
    BY <2>1, SidesOf
  <2>3. ~ Determines(list[i].lhs, A, C)
    BY <2>1, <2>2, SuperkeysExact
  <2>4. Determined(list[i].lhs, C) = list[i].lhs
    BY <1>1, <1>3, <2>2, <2>3 DEF InBCNF
  <2>5. list[i].rhs \subseteq Determined(list[i].lhs, C)
    BY <2>1, <2>2, DeterminedFacts
  <2>6. QED BY <2>1, <2>4, <2>5 DEF is_trivial
<1>4. QED BY <1>2, <1>3 DEF is_bcnf, InBCNF

\* So does is_3nf, if no dependency repeats an attribute.
LEMMA ThirdExact ==
    ASSUME NEW A, IsFiniteSet(A), NEW list \in Seq(Dependency(A)),
           \A i \in DOMAIN list : list[i].lhs # {} /\ list[i].lhs \intersect list[i].rhs = {}
    PROVE  is_3nf(A, list) <=> In3NF(A, ClosedSets(A, list))
<1> DEFINE C == ClosedSets(A, list)
           prime == UNION Keys(A, C)
<1>1. \A S \in SUBSET A : Determined(S, C) \subseteq A /\ S \subseteq Determined(S, C)
  BY DeterminedFacts
<1>2. prime_attrs(A, list) = prime
  BY CandidateKeysExact DEF prime_attrs
<1>3. \A i \in DOMAIN list : /\ ~ is_trivial(list[i])
                             /\ list[i].lhs \in SUBSET A /\ list[i].lhs # {}
                             /\ list[i].rhs \subseteq Determined(list[i].lhs, C)
  <2> SUFFICES ASSUME NEW i \in DOMAIN list
               PROVE  /\ ~ is_trivial(list[i])
                      /\ list[i].lhs \in SUBSET A /\ list[i].lhs # {}
                      /\ list[i].rhs \subseteq Determined(list[i].lhs, C)
    OBVIOUS
  <2>1. list[i].lhs \in SUBSET A /\ list[i].rhs # {}
    BY SidesOf
  <2>2. QED BY <2>1, DeterminedFacts DEF is_trivial
<1>4. \A i \in DOMAIN list : list[i].lhs \in superkeys(A, list) <=> Determines(list[i].lhs, A, C)
  BY <1>3, SuperkeysExact
<1> HIDE DEF prime
<1>5. ASSUME is_3nf(A, list), NEW S \in SUBSET A, ~ Determines(S, A, C)
      PROVE  (Determined(S, C) \intersect A) \ S \subseteq prime
  <2> SUFFICES ASSUME NEW a \in Determined(S, C), a \notin S PROVE a \in prime
    OBVIOUS
  <2>1. PICK i \in DOMAIN list : list[i].lhs \subseteq Determined(S, C) /\ a \in list[i].rhs
    BY DeterminedBy
  <2>2. ~ Determines(list[i].lhs, A, C)
    <3>1. Determined(S, C) \in C
      BY DeterminedFacts
    <3>2. Determined(list[i].lhs, C) \subseteq Determined(S, C)
      BY <1>3, <2>1, <3>1, DeterminedFacts
    <3>3. QED BY <1>5, <3>2 DEF Determines
  <2>3. list[i].rhs \subseteq prime
    BY <1>2, <1>3, <1>4, <1>5, <2>2 DEF is_3nf
  <2>4. QED BY <2>1, <2>3
<1>6. ASSUME In3NF(A, C), NEW i \in DOMAIN list, ~ Determines(list[i].lhs, A, C)
      PROVE  list[i].rhs \subseteq prime
  <2>1. (Determined(list[i].lhs, C) \intersect A) \ list[i].lhs \subseteq prime
    BY <1>3, <1>6 DEF In3NF, prime
  <2>2. QED BY <1>1, <1>3, <2>1
<1>7. QED BY <1>2, <1>3, <1>4, <1>5, <1>6 DEF is_3nf, In3NF, prime

\* When is_2nf says no, it is right.
LEMMA SecondSound ==
    ASSUME NEW A, A # {}, IsFiniteSet(A), NEW list \in Seq(Dependency(A)),
           ~ is_2nf(A, list)
    PROVE  ~ In2NF(A, ClosedSets(A, list))
<1> DEFINE C == ClosedSets(A, list)
<1>1. candidate_keys(A, list) = Keys(A, C) /\ prime_attrs(A, list) = UNION Keys(A, C)
  BY CandidateKeysExact DEF prime_attrs
<1>2. PICK i \in DOMAIN list, K \in Keys(A, C) :
           /\ list[i].lhs \subseteq K /\ list[i].lhs # K
           /\ ~ list[i].rhs \subseteq UNION Keys(A, C)
  BY <1>1 DEF is_2nf, is_1nf
<1>3. list[i].lhs \in SUBSET A /\ list[i].rhs \in SUBSET A
  BY SidesOf
<1>4. list[i].rhs \subseteq Determined(list[i].lhs, C)
  BY <1>3, DeterminedFacts
<1>5. ~ (Determined(list[i].lhs, C) \intersect A) \ list[i].lhs \subseteq UNION Keys(A, C)
  BY <1>2, <1>3, <1>4
<1>6. list[i].lhs \in (SUBSET K) \ {K}
  BY <1>2
<1>7. QED BY <1>5, <1>6 DEF In2NF

-----------------------------------------------------------------------------
(* What lists of dependencies mean, put together and taken apart.          *)

\* The sets that are closed under one dependency.
Obeying(A, fd) == {K \in SUBSET A : fd.lhs \subseteq K => fd.rhs \subseteq K}

\* Every set is closed under no dependency.
LEMMA ClosedEmpty == ASSUME NEW A PROVE ClosedSets(A, <<>>) = SUBSET A
BY DEF ClosedSets

\* A set is closed under a list of one if it is under that one.
LEMMA ClosedSingle ==
    ASSUME NEW A, NEW fd \in Dependency(A)
    PROVE  <<fd>> \in Seq(Dependency(A)) /\ ClosedSets(A, <<fd>>) = Obeying(A, fd)
<1>1. <<fd>> \in Seq(Dependency(A)) /\ DOMAIN <<fd>> = {1} /\ <<fd>>[1] = fd
  OBVIOUS
<1>2. QED BY <1>1 DEF ClosedSets, Obeying

\* A set is closed under two lists in a row if it is under both.
LEMMA ClosedConcat ==
    ASSUME NEW A, NEW s \in Seq(Dependency(A)), NEW t \in Seq(Dependency(A))
    PROVE  /\ s \o t \in Seq(Dependency(A))
           /\ ClosedSets(A, s \o t) = ClosedSets(A, s) \intersect ClosedSets(A, t)
<1> DEFINE m == Len(s)
           n == Len(t)
           u == s \o t
<1>1. /\ m \in Nat /\ n \in Nat /\ DOMAIN s = 1 .. m /\ DOMAIN t = 1 .. n
      /\ u \in Seq(Dependency(A)) /\ DOMAIN u = 1 .. m + n
      /\ \A i \in 1 .. m + n : u[i] = IF i <= m THEN s[i] ELSE t[i - m]
  BY ConcatProperties, LenProperties
<1> HIDE DEF m, n, u
<1>2. \A i \in 1 .. m : i \in 1 .. m + n /\ u[i] = s[i]
  BY <1>1
<1>3. \A i \in 1 .. n : m + i \in 1 .. m + n /\ u[m + i] = t[i]
  BY <1>1
<1>4. \A i \in 1 .. m + n : i \in 1 .. m \/ (i - m \in 1 .. n /\ i = m + (i - m))
  BY <1>1
<1>5. ASSUME NEW K \in SUBSET A
      PROVE  (\A i \in DOMAIN u : u[i].lhs \subseteq K => u[i].rhs \subseteq K)
                <=> /\ \A i \in DOMAIN s : s[i].lhs \subseteq K => s[i].rhs \subseteq K
                    /\ \A i \in DOMAIN t : t[i].lhs \subseteq K => t[i].rhs \subseteq K
  <2>1. ASSUME \A i \in DOMAIN u : u[i].lhs \subseteq K => u[i].rhs \subseteq K
        PROVE  /\ \A i \in DOMAIN s : s[i].lhs \subseteq K => s[i].rhs \subseteq K
               /\ \A i \in DOMAIN t : t[i].lhs \subseteq K => t[i].rhs \subseteq K
    <3>1. \A i \in DOMAIN s : s[i].lhs \subseteq K => s[i].rhs \subseteq K
      BY <1>1, <1>2, <2>1
    <3>2. ASSUME NEW i \in 1 .. n PROVE t[i].lhs \subseteq K => t[i].rhs \subseteq K
      <4>1. m + i \in DOMAIN u /\ u[m + i] = t[i]
        BY <1>1, <1>3
      <4>2. QED BY <2>1, <4>1
    <3>3. QED BY <1>1, <3>1, <3>2
  <2>2. ASSUME /\ \A i \in DOMAIN s : s[i].lhs \subseteq K => s[i].rhs \subseteq K
               /\ \A i \in DOMAIN t : t[i].lhs \subseteq K => t[i].rhs \subseteq K,
               NEW i \in 1 .. m + n
        PROVE  u[i].lhs \subseteq K => u[i].rhs \subseteq K
    <3>1. CASE i \in 1 .. m
      BY <1>1, <1>2, <2>2, <3>1
    <3>2. CASE i - m \in 1 .. n /\ i = m + (i - m)
      <4>1. u[i] = t[i - m]
        BY <1>3, <3>2
      <4>2. QED BY <1>1, <2>2, <3>2, <4>1
    <3>3. QED BY <1>4, <3>1, <3>2
  <2>3. QED BY <1>1, <2>1, <2>2
<1>6. QED BY <1>1, <1>5 DEF ClosedSets, u

\* So for one more dependency.
LEMMA ClosedAppend ==
    ASSUME NEW A, NEW s \in Seq(Dependency(A)), NEW fd \in Dependency(A)
    PROVE  /\ Append(s, fd) \in Seq(Dependency(A))
           /\ ClosedSets(A, Append(s, fd)) = ClosedSets(A, s) \intersect Obeying(A, fd)
<1> DEFINE t == <<fd>>
<1>1. Append(s, fd) = s \o t
  BY AppendIsConcat
<1>2. t \in Seq(Dependency(A)) /\ ClosedSets(A, t) = Obeying(A, fd)
  BY ClosedSingle
<1> HIDE DEF t
<1>3. QED BY <1>1, <1>2, ClosedConcat

\* The first dependency and the others.
LEMMA ClosedHead ==
    ASSUME NEW A, NEW s \in Seq(Dependency(A)), s # <<>>
    PROVE  /\ Head(s) \in Dependency(A) /\ Tail(s) \in Seq(Dependency(A))
           /\ ClosedSets(A, s) = Obeying(A, Head(s)) \intersect ClosedSets(A, Tail(s))
<1>1. Head(s) \in Dependency(A) /\ Tail(s) \in Seq(Dependency(A))
  BY HeadTailProperties
<1> DEFINE t == <<Head(s)>>
           r == Tail(s)
<1>2. s = t \o r
  BY HeadTailProperties
<1>3. t \in Seq(Dependency(A)) /\ ClosedSets(A, t) = Obeying(A, Head(s)) /\ r \in Seq(Dependency(A))
  BY <1>1, ClosedSingle
<1> HIDE DEF t
<1>4. ClosedSets(A, s) = ClosedSets(A, t) \intersect ClosedSets(A, r)
  <2> HIDE DEF r
  <2>1. QED BY <1>2, <1>3, ClosedConcat
<1>5. QED BY <1>1, <1>3, <1>4

\* Those from some position on.
LEMMA ClosedFrom ==
    ASSUME NEW A, NEW s \in Seq(Dependency(A)), NEW i \in 1 .. Len(s)
    PROVE  /\ SubSeq(s, i, Len(s)) \in Seq(Dependency(A))
           /\ SubSeq(s, i + 1, Len(s)) \in Seq(Dependency(A))
           /\ s[i] \in Dependency(A)
           /\ ClosedSets(A, SubSeq(s, i, Len(s)))
                = Obeying(A, s[i]) \intersect ClosedSets(A, SubSeq(s, i + 1, Len(s)))
<1>1. Len(s) \in Nat /\ s[i] \in Dependency(A)
  OBVIOUS
<1>2. SubSeq(s, i, Len(s)) \in Seq(Dependency(A)) /\ SubSeq(s, i + 1, Len(s)) \in Seq(Dependency(A))
  <2>1. \A j \in i .. Len(s) : s[j] \in Dependency(A)
    OBVIOUS
  <2>2. \A j \in i + 1 .. Len(s) : s[j] \in Dependency(A)
    OBVIOUS
  <2>3. QED BY <1>1, <2>1, <2>2, SubSeqProperties
<1> DEFINE t == <<s[i]>>
           r == SubSeq(s, i + 1, Len(s))
<1>3. SubSeq(s, i, Len(s)) = t \o r
  <2>1. Len(s) \in i .. Len(s)
    BY <1>1
  <2>2. QED BY <2>1, SubSeqRecursiveFirst
<1>4. t \in Seq(Dependency(A)) /\ ClosedSets(A, t) = Obeying(A, s[i]) /\ r \in Seq(Dependency(A))
  BY <1>1, <1>2, ClosedSingle
<1> HIDE DEF t
<1>5. ClosedSets(A, t \o r) = ClosedSets(A, t) \intersect ClosedSets(A, r)
  <2> HIDE DEF r
  <2>1. QED BY <1>4, ClosedConcat
<1>6. QED BY <1>1, <1>2, <1>3, <1>4, <1>5

\* One of them and all others.
LEMMA ClosedRemoved ==
    ASSUME NEW A, NEW s \in Seq(Dependency(A)), NEW i \in 1 .. Len(s)
    PROVE  /\ RemoveAt(s, i) \in Seq(Dependency(A))
           /\ ClosedSets(A, s) = ClosedSets(A, RemoveAt(s, i)) \intersect Obeying(A, s[i])
<1> DEFINE before == SubSeq(s, 1, i - 1)
           after == SubSeq(s, i + 1, Len(s))
           from == SubSeq(s, i, Len(s))
<1>1. Len(s) \in Nat /\ i - 1 \in Nat /\ (i - 1) + 1 = i
  OBVIOUS
<1>2. before \in Seq(Dependency(A))
  <2>1. \A j \in 1 .. i - 1 : s[j] \in Dependency(A)
    OBVIOUS
  <2>2. QED BY <1>1, <2>1, SubSeqProperties
<1>3. from \in Seq(Dependency(A)) /\ after \in Seq(Dependency(A))
      /\ ClosedSets(A, from) = Obeying(A, s[i]) \intersect ClosedSets(A, after)
  BY ClosedFrom
<1>4. s = before \o from
  <2>1. SubSeq(s, 1, i - 1) \o SubSeq(s, (i - 1) + 1, Len(s)) = SubSeq(s, 1, Len(s))
    <3>1. 1 \in 1 .. Len(s) + 1 /\ i - 1 \in 1 - 1 .. Len(s) /\ Len(s) \in i - 1 .. Len(s)
      BY <1>1
    <3>2. QED BY <3>1, ConcatAdjacentSubSeq
  <2>2. QED BY <1>1, <2>1, SubSeqFull
<1>5. RemoveAt(s, i) = before \o after
  BY DEF RemoveAt
<1> HIDE DEF before, after, from
<1>6. ClosedSets(A, s) = ClosedSets(A, before) \intersect ClosedSets(A, from)
  BY <1>2, <1>3, <1>4, ClosedConcat
<1>7. /\ RemoveAt(s, i) \in Seq(Dependency(A))
      /\ ClosedSets(A, RemoveAt(s, i)) = ClosedSets(A, before) \intersect ClosedSets(A, after)
  BY <1>2, <1>3, <1>5, ClosedConcat
<1>8. QED BY <1>3, <1>6, <1>7

\* All but one, and one more at the end.
LEMMA ClosedRemovedAppended ==
    ASSUME NEW A, NEW s \in Seq(Dependency(A)), NEW fd \in Dependency(A)
    PROVE  /\ \A i \in 1 .. Len(s) :
                 ClosedSets(A, RemoveAt(Append(s, fd), i))
                   = ClosedSets(A, RemoveAt(s, i)) \intersect Obeying(A, fd)
           /\ RemoveAt(Append(s, fd), Len(s) + 1) = s
<1> DEFINE u == Append(s, fd)
           n == Len(s)
<1>1. /\ n \in Nat /\ u \in Seq(Dependency(A)) /\ Len(u) = n + 1
      /\ \A j \in 1 .. n : u[j] = s[j] /\ s[j] \in Dependency(A)
      /\ u[n + 1] = fd
  BY AppendProperties
<1> HIDE DEF u
<1>2. ASSUME NEW m \in Nat, NEW k \in Nat, m >= 1, k <= n
      PROVE  SubSeq(u, m, k) = SubSeq(s, m, k) /\ SubSeq(s, m, k) \in Seq(Dependency(A))
  <2>1. \A j \in m .. k : u[j] = s[j] /\ s[j] \in Dependency(A) /\ u[j] \in Dependency(A)
    BY <1>1, <1>2
  <2> DEFINE x == SubSeq(u, m, k)
             y == SubSeq(s, m, k)
  <2>2. /\ x \in Seq(Dependency(A)) /\ Len(x) = IF m <= k THEN k - m + 1 ELSE 0
        /\ \A j \in 1 .. k - m + 1 : x[j] = u[m + j - 1]
    BY <2>1, SubSeqProperties
  <2>3. /\ y \in Seq(Dependency(A)) /\ Len(y) = IF m <= k THEN k - m + 1 ELSE 0
        /\ \A j \in 1 .. k - m + 1 : y[j] = s[m + j - 1]
    BY <2>1, SubSeqProperties
  <2> HIDE DEF x, y
  <2>4. \A j \in 1 .. Len(x) : x[j] = y[j]
    <3> SUFFICES ASSUME NEW j \in 1 .. Len(x) PROVE x[j] = y[j]
      OBVIOUS
    <3>1. m <= k /\ j \in 1 .. k - m + 1
      BY <2>2
    <3>2. m + j - 1 \in m .. k
      BY <3>1
    <3>3. QED BY <2>1, <2>2, <2>3, <3>1, <3>2
  <2>5. x = y
    BY <2>2, <2>3, <2>4, SeqEqual
  <2>6. QED BY <2>3, <2>5 DEF x, y
<1>3. ASSUME NEW i \in 1 .. n
      PROVE  ClosedSets(A, RemoveAt(u, i)) = ClosedSets(A, RemoveAt(s, i)) \intersect Obeying(A, fd)
  <2> DEFINE before == SubSeq(s, 1, i - 1)
             after == SubSeq(s, i + 1, n)
  <2>1. SubSeq(u, 1, i - 1) = before /\ before \in Seq(Dependency(A))
    BY <1>1, <1>2
  <2>2. SubSeq(u, i + 1, n + 1) = after \o <<fd>> /\ after \in Seq(Dependency(A))
    <3>1. SubSeq(u, i + 1, n) = after /\ after \in Seq(Dependency(A))
      BY <1>1, <1>2
    <3>2. i + 1 \in 1 .. Len(u) /\ n + 1 \in i + 1 .. Len(u) /\ (n + 1) - 1 = n
      BY <1>1
    <3>3. SubSeq(u, i + 1, n + 1) = SubSeq(u, i + 1, (n + 1) - 1) \o <<u[n + 1]>>
      BY <1>1, <3>2, SubSeqRecursiveSecond
    <3>4. QED BY <1>1, <3>1, <3>2, <3>3
  <2>3. RemoveAt(u, i) = before \o (after \o <<fd>>) /\ RemoveAt(s, i) = before \o after
    BY <1>1, <2>1, <2>2 DEF RemoveAt
  <2> DEFINE t == <<fd>>
             rest == after \o t
  <2>4. t \in Seq(Dependency(A)) /\ ClosedSets(A, t) = Obeying(A, fd)
    BY ClosedSingle
  <2> HIDE DEF before, after, t
  <2>5. /\ rest \in Seq(Dependency(A))
        /\ ClosedSets(A, rest) = ClosedSets(A, after) \intersect ClosedSets(A, t)
    BY <2>2, <2>4, ClosedConcat
  <2>6. RemoveAt(u, i) = before \o rest
    BY <2>3 DEF t
  <2> HIDE DEF rest
  <2>7. ClosedSets(A, before \o rest) = ClosedSets(A, before) \intersect ClosedSets(A, rest)
    BY <2>1, <2>5, ClosedConcat
  <2>8. ClosedSets(A, before \o after) = ClosedSets(A, before) \intersect ClosedSets(A, after)
    BY <2>1, <2>2, ClosedConcat
  <2>9. QED BY <2>3, <2>4, <2>5, <2>6, <2>7, <2>8
<1>4. RemoveAt(u, n + 1) = s
  <2>1. SubSeq(u, 1, (n + 1) - 1) = s
    <3>1. SubSeq(u, 1, n) = SubSeq(s, 1, n)
      BY <1>1, <1>2
    <3>2. QED BY <1>1, <3>1, SubSeqFull
  <2>2. SubSeq(u, (n + 1) + 1, n + 1) = <<>>
    BY <1>1, SubSeqEmpty
  <2>3. s \o <<>> = s
    BY ConcatEmptySeq
  <2>4. QED BY <1>1, <2>1, <2>2, <2>3 DEF RemoveAt
<1>5. QED BY <1>3, <1>4 DEF u

\* A dependency follows from others if it holds wherever they hold.
LEMMA FollowsExact ==
    ASSUME NEW A, NEW list \in Seq(Dependency(A)), NEW fd,
           fd.lhs \in SUBSET A
    PROVE  fd.rhs \subseteq closure(fd.lhs, list) <=> ClosedSets(A, list) \subseteq Obeying(A, fd)
<1>1. /\ closure(fd.lhs, list) \in ClosedSets(A, list) /\ fd.lhs \subseteq closure(fd.lhs, list)
      /\ \A K \in ClosedSets(A, list) : fd.lhs \subseteq K => closure(fd.lhs, list) \subseteq K
  BY ClosureExact
<1>2. ClosedSets(A, list) \subseteq SUBSET A
  BY DEF ClosedSets
<1>3. QED BY <1>1, <1>2 DEF Obeying

-----------------------------------------------------------------------------
(* The cover starts from the dependencies with their right sides split.    *)

\* The right side of a dependency, an attribute at a time.
Single(fd, p) == [j \in DOMAIN p |-> [lhs |-> fd.lhs, rhs |-> {p[j]}]]

\* What it is then made of.
Unit(A) == {fd \in Dependency(A) : \E x : fd.rhs = {x}}

\* A dependency means the same with its right side split, whatever the order.
LEMMA SplitOne ==
    ASSUME NEW A, IsFiniteSet(A), NEW fd \in Dependency(A), NEW p \in SetToSeqs(fd.rhs)
    PROVE  /\ Single(fd, p) \in Seq(Dependency(A)) /\ Single(fd, p) \in Seq(Unit(A))
           /\ ClosedSets(A, Single(fd, p)) = Obeying(A, fd)
<1> DEFINE R == fd.rhs
           n == Cardinality(R)
<1>1. R \in SUBSET A /\ fd.lhs \in SUBSET A
  BY DEF Dependency
<1>2. IsFiniteSet(R) /\ n \in Nat
  BY <1>1, FS_Subset, FS_CardinalityType
<1> HIDE DEF n
<1>3. p \in [1 .. n -> R] /\ \A i, j \in 1 .. n : i # j => p[i] # p[j]
  BY DEF SetToSeqs, n
<1>4. \A x \in R : \E j \in 1 .. n : p[j] = x
  <2>1. p \in Injection(1 .. n, R)
    BY <1>3 DEF Injection, IsInjective
  <2>2. Cardinality(1 .. n) = Cardinality(R)
    BY <1>2, FS_Interval DEF n
  <2>3. p \in Surjection(1 .. n, R)
    BY <1>2, <2>1, <2>2, FS_Injection
  <2>4. QED BY <2>3 DEF Surjection
<1> DEFINE s == Single(fd, p)
<1>5. /\ DOMAIN s = 1 .. n /\ \A j \in 1 .. n : /\ s[j] \in Dependency(A)
                                               /\ s[j].lhs = fd.lhs /\ s[j].rhs = {p[j]}
      /\ s = [j \in 1 .. n |-> s[j]]
  BY <1>1, <1>3 DEF Single, Dependency
<1> HIDE DEF s
<1>6. s \in Seq(Dependency(A)) /\ s \in Seq(Unit(A))
  <2>1. \A j \in 1 .. n : s[j] \in Unit(A)
    BY <1>5 DEF Unit
  <2>2. QED BY <1>2, <1>5, <2>1
<1>7. ASSUME NEW K \in SUBSET A
      PROVE  (\A j \in DOMAIN s : s[j].lhs \subseteq K => s[j].rhs \subseteq K)
                <=> (fd.lhs \subseteq K => R \subseteq K)
  BY <1>3, <1>4, <1>5
<1>8. QED BY <1>6, <1>7 DEF s, ClosedSets, Obeying

\* Lists split so far, continued with a dependency split in any order.
OneMore(done, fd) == {s \o Single(fd, p) : s \in done, p \in SetToSeqs(fd.rhs)}

\* What a list split by one more dependency is made of.
LEMMA OneMoreElements ==
    ASSUME NEW done, NEW fd, NEW u \in OneMore(done, fd)
    PROVE  \E s \in done, p \in SetToSeqs(fd.rhs) : u = s \o Single(fd, p)
<1> DEFINE P == SetToSeqs(fd.rhs)
<1>1. u \in {s \o Single(fd, p) : s \in done, p \in P}
  BY DEF OneMore
<1> HIDE DEF P
<1>2. QED BY <1>1 DEF P

\* The lists come from the dependencies one by one.
LEMMA SplitsUnfold ==
    ASSUME NEW A, IsFiniteSet(A), NEW list \in Seq(Dependency(A))
    PROVE  \E k : /\ k[0] = {<<>>}
                  /\ \A i \in 1 .. Len(list) : k[i] = OneMore(k[i - 1], list[i])
                  /\ Splits(list) = k[Len(list)]
<1> DEFINE n == Len(list)
           X == SUBSET Seq(Dependency(A))
           step == [q \in (1 .. n) \X X |-> OneMore(q[2], list[q[1]])]
           Is(h) == h = [s \in SUBSET DOMAIN list |->
                           IF s = {} THEN {<<>>}
                           ELSE OneMore(h[s \ {Max(s)}], list[Max(s)])]
           h == CHOOSE h : Is(h)
<1>1. n \in Nat /\ DOMAIN list = 1 .. n /\ \A i \in 1 .. n : list[i] \in Dependency(A)
  OBVIOUS
<1>2. Splits(list) = h[DOMAIN list]
  BY DEF Splits, FoldLeft, MapThenFoldSet, OneMore, Single
<1> HIDE DEF n
<1>3. \E g : Is(g)
  <2>1. ASSUME NEW i \in 1 .. n, NEW done \in X PROVE OneMore(done, list[i]) \in X
    <3> SUFFICES ASSUME NEW u \in OneMore(done, list[i])
                 PROVE  u \in Seq(Dependency(A))
      OBVIOUS
    <3>1. PICK s \in done, p \in SetToSeqs(list[i].rhs) : u = s \o Single(list[i], p)
      BY OneMoreElements
    <3> DEFINE t == Single(list[i], p)
    <3>2. t \in Seq(Dependency(A)) /\ s \in Seq(Dependency(A))
      BY <1>1, SplitOne
    <3> HIDE DEF t
    <3>3. s \o t \in Seq(Dependency(A))
      BY <3>2, ConcatProperties
    <3>4. QED BY <3>1, <3>3 DEF t
  <2>2. step \in [(1 .. n) \X X -> X] /\ {<<>>} \in X
    <3>1. \A q \in (1 .. n) \X X : q[1] \in 1 .. n /\ q[2] \in X
      OBVIOUS
    <3>2. {<<>>} \in X
      OBVIOUS
    <3> HIDE DEF X
    <3>3. QED BY <2>1, <3>1, <3>2
  <2>3. PICK g : FoldsUp(X, {<<>>}, step, n, g)
    <3> HIDE DEF step, X
    <3>1. QED BY <1>1, <2>2, FoldingUp
  <2>4. \A s \in SUBSET (1 .. n) : s # {} =>
            step[<<Max(s), g[s \ {Max(s)}]>>] = OneMore(g[s \ {Max(s)}], list[Max(s)])
    <3> SUFFICES ASSUME NEW s \in SUBSET (1 .. n), s # {}
                 PROVE  step[<<Max(s), g[s \ {Max(s)}]>>] = OneMore(g[s \ {Max(s)}], list[Max(s)])
      OBVIOUS
    <3>1. Max(s) \in 1 .. n
      BY <1>1, MaxOfSome
    <3>2. g[s \ {Max(s)}] \in X
      <4>1. s \ {Max(s)} \in SUBSET (1 .. n)
        OBVIOUS
      <4> HIDE DEF X
      <4>2. QED BY <2>3, <4>1 DEF FoldsUp
    <3> HIDE DEF X
    <3>3. QED BY <3>1, <3>2
  <2>5. g = [s \in SUBSET (1 .. n) |->
               IF s = {} THEN {<<>>} ELSE step[<<Max(s), g[s \ {Max(s)}]>>]]
    BY <2>3 DEF FoldsUp
  <2>6. Is(g)
    <3> HIDE DEF step
    <3>1. QED BY <1>1, <2>4, <2>5
  <2>7. QED BY <2>6
<1>4. h = [s \in SUBSET (1 .. n) |->
             IF s = {} THEN {<<>>} ELSE OneMore(h[s \ {Max(s)}], list[Max(s)])]
  <2>1. Is(h)
    BY <1>3
  <2> HIDE DEF h
  <2>2. QED BY <1>1, <2>1
<1> HIDE DEF h
<1> DEFINE k == [i \in 0 .. n |-> h[1 .. i]]
<1>5. h[1 .. 0] = {<<>>} /\ \A i \in 1 .. n : h[1 .. i] = OneMore(h[1 .. i - 1], list[i])
  <2>1. h[1 .. 0] = {<<>>}
    BY <1>1, <1>4, IntervalSteps
  <2>2. ASSUME NEW i \in 1 .. n PROVE h[1 .. i] = OneMore(h[1 .. i - 1], list[i])
    <3> DEFINE s == 1 .. i
    <3>1. s \in SUBSET (1 .. n) /\ s # {} /\ Max(s) = i /\ s \ {i} = 1 .. i - 1
      BY <1>1, IntervalSteps
    <3> HIDE DEF s
    <3>2. h[s] = OneMore(h[s \ {Max(s)}], list[Max(s)])
      BY <1>4, <3>1
    <3>3. QED BY <3>1, <3>2 DEF s
  <2>3. QED BY <2>1, <2>2
<1>6. k[0] = {<<>>} /\ k[n] = h[1 .. n]
  BY <1>1, <1>5
<1>7. \A i \in 1 .. n : k[i] = OneMore(k[i - 1], list[i])
  <2>1. \A i \in 1 .. n : k[i] = h[1 .. i] /\ k[i - 1] = h[1 .. i - 1]
    BY <1>1
  <2> HIDE DEF k
  <2>2. QED BY <1>5, <2>1
<1>8. QED BY <1>1, <1>2, <1>6, <1>7 DEF n

\* However they are split, the dependencies mean the same.
LEMMA SplitsExact ==
    ASSUME NEW A, IsFiniteSet(A), NEW list \in Seq(Dependency(A)), NEW t \in Splits(list)
    PROVE  /\ t \in Seq(Dependency(A)) /\ t \in Seq(Unit(A))
           /\ ClosedSets(A, t) = ClosedSets(A, list)
<1> DEFINE n == Len(list)
           Upto(i) == {K \in SUBSET A : \A j \in 1 .. i :
                         list[j].lhs \subseteq K => list[j].rhs \subseteq K}
<1>1. PICK k : /\ k[0] = {<<>>}
               /\ \A i \in 1 .. n : k[i] = OneMore(k[i - 1], list[i])
               /\ Splits(list) = k[n]
  BY SplitsUnfold
<1>2. n \in Nat /\ DOMAIN list = 1 .. n /\ \A i \in 1 .. n : list[i] \in Dependency(A)
  OBVIOUS
<1> HIDE DEF n
<1> DEFINE Good == {i \in Nat : i <= n => \A s \in k[i] : /\ s \in Seq(Dependency(A))
                                                         /\ s \in Seq(Unit(A))
                                                         /\ ClosedSets(A, s) = Upto(i)}
<1>3. 0 \in Good
  <2>1. /\ <<>> \in Seq(Dependency(A)) /\ <<>> \in Seq(Unit(A))
        /\ ClosedSets(A, <<>>) = SUBSET A
    BY ClosedEmpty
  <2>2. Upto(0) = SUBSET A
    OBVIOUS
  <2>3. QED BY <1>1, <2>1, <2>2
<1>4. ASSUME NEW i \in Nat, i \in Good PROVE i + 1 \in Good
  <2> SUFFICES ASSUME i + 1 <= n, NEW u \in k[i + 1]
               PROVE  /\ u \in Seq(Dependency(A)) /\ u \in Seq(Unit(A))
                      /\ ClosedSets(A, u) = Upto(i + 1)
    OBVIOUS
  <2>1. i + 1 \in 1 .. n /\ (i + 1) - 1 = i /\ i <= n
    BY <1>2
  <2>2. PICK s \in k[i], p \in SetToSeqs(list[i + 1].rhs) : u = s \o Single(list[i + 1], p)
    <3>1. u \in OneMore(k[i], list[i + 1])
      BY <1>1, <2>1
    <3>2. QED BY <3>1, OneMoreElements
  <2> DEFINE r == Single(list[i + 1], p)
  <2>3. s \in Seq(Dependency(A)) /\ s \in Seq(Unit(A)) /\ ClosedSets(A, s) = Upto(i)
    BY <1>4, <2>1
  <2>4. r \in Seq(Dependency(A)) /\ r \in Seq(Unit(A)) /\ ClosedSets(A, r) = Obeying(A, list[i + 1])
    BY <1>2, <2>1, SplitOne
  <2>5. Upto(i + 1) = Upto(i) \intersect Obeying(A, list[i + 1])
    <3>1. 1 .. i + 1 = (1 .. i) \union {i + 1}
      BY <2>1
    <3>2. QED BY <3>1 DEF Obeying
  <2> HIDE DEF r, Upto
  <2>6. s \o r \in Seq(Dependency(A)) /\ ClosedSets(A, s \o r) = ClosedSets(A, s) \intersect ClosedSets(A, r)
    BY <2>3, <2>4, ClosedConcat
  <2>7. s \o r \in Seq(Unit(A))
    BY <2>3, <2>4, ConcatProperties
  <2>8. QED BY <2>2, <2>3, <2>4, <2>5, <2>6, <2>7 DEF r
<1>5. Upto(n) = ClosedSets(A, list)
  BY <1>2 DEF ClosedSets
<1> HIDE DEF Good, Upto
<1>6. n \in Good
  BY <1>2, <1>3, <1>4, Counting
<1>7. QED BY <1>1, <1>2, <1>5, <1>6 DEF Good

-----------------------------------------------------------------------------
(* The invariant.                                                          *)

\* What the variables hold.
Typed ==
    /\ all_attrs \in (SUBSET Attr) \ {{}}
    /\ fds \in Seq(Dependency(all_attrs))
    /\ result \in Seq(Dependency(all_attrs)) /\ new \in Seq(Dependency(all_attrs))
    /\ changed \in BOOLEAN
    /\ \/ job = "judge" /\ pc \in {"judge", "done"}
       \/ job = "synthesis" /\ pc \in {"reduce", "remove", "keys", "done"}
       \/ job = "bcnf" /\ pc \in {"bcnf", "done"}

\* The right sides of the cover stay split.
Units ==
    job = "synthesis" => result \in Seq(Unit(all_attrs)) /\ new \in Seq(Unit(all_attrs))

\* The verdicts are those on the arguments.
Judged ==
    job = "judge" /\ pc = "done" =>
        /\ verdict.nf2 = is_2nf(all_attrs, fds)
        /\ verdict.nf3 = is_3nf(all_attrs, fds)
        /\ verdict.bcnf = is_bcnf(all_attrs, fds)

\* A dependency without an attribute of its left side.
Shorter(fd, a) == [fd EXCEPT !.lhs = @ \ {a}]

\* Where C are the closed sets, the left side has no attribute to spare.
LeftReduced(fd, C) ==
    Cardinality(fd.lhs) > 1 =>
        \A a \in fd.lhs : ~ C \subseteq Obeying(all_attrs, Shorter(fd, a))

\* The list means the same before the pass and in the middle of it, and a
\* pass that changed nothing has found left sides that are reduced.
Reducing ==
    pc = "reduce" =>
        /\ Len(new) <= Len(result)
        /\ Closed(result) = Closed(fds)
        /\ Closed(new \o SubSeq(result, Len(new) + 1, Len(result))) = Closed(fds)
        /\ ~ changed => \A i \in DOMAIN new : /\ new[i] = result[i]
                                              /\ LeftReduced(new[i], Closed(fds))

\* Left sides stay reduced, and what is kept does not follow from the rest,
\* kept or still to be looked at.
Removing ==
    job = "synthesis" /\ pc # "reduce" =>
        /\ Closed(new \o result) = Closed(fds)
        /\ \A i \in DOMAIN new :
              /\ LeftReduced(new[i], Closed(fds))
              /\ ~ Closed(RemoveAt(new, i) \o result) \subseteq Obeying(all_attrs, new[i])
        /\ \A i \in DOMAIN result : LeftReduced(result[i], Closed(fds))
        /\ pc # "remove" => result = <<>>

\* keys are the least of the superkeys looked at.
Searching ==
    job = "synthesis" =>
        /\ pc \in {"reduce", "remove"} => keys = {}
        /\ pc \in {"keys", "done"} =>
              /\ unseen \subseteq superkeys(all_attrs, fds)
              /\ LeastOf(keys, superkeys(all_attrs, fds) \ unseen)
        /\ pc = "done" => unseen = {}

\* The relations are the groups of the cover and, if none has a key, a key.
Grouped ==
    job = "synthesis" =>
        /\ pc = "keys" => schemas = Groups(new)
        /\ pc = "done" =>
              /\ schemas \in {Groups(new)} \union {Groups(new) \union {k} : k \in keys}
              /\ has_key

\* What every state of the three jobs has, splitting in two apart.
Inv == Typed /\ Units /\ Judged /\ Reducing /\ Removing /\ Searching /\ Grouped

\* The attributes in hand are finitely many, and some.
LEMMA FewAttributes == ASSUME Typed PROVE IsFiniteSet(all_attrs) /\ all_attrs # {}
<1>1. all_attrs \in SUBSET Attr /\ all_attrs # {} /\ IsFiniteSet(Attr)
  BY DecompositionAssumption DEF Typed
<1>2. QED BY <1>1, FS_Subset

\* A caller's arguments have the types of the state.
LEMMA TypedInit == Init => Typed
<1> SUFFICES ASSUME Init PROVE Typed
  OBVIOUS
<1>1. all_attrs \in (SUBSET Attr) \ {{}} /\ IsFiniteSet(all_attrs)
  <2>1. all_attrs \in (SUBSET Attr) \ {{}}
    BY DEF Init
  <2>2. QED BY <2>1, DecompositionAssumption, FS_Subset
<1>2. fds \in Seq(Dependency(all_attrs))
  <2>1. PICK n \in 0 .. MaxFDs : fds \in [1 .. n -> Dependency(all_attrs)]
    BY DEF Init
  <2>2. n \in Nat
    BY DecompositionAssumption
  <2>3. QED BY <2>1, <2>2, SeqDef
<1>3. <<>> \in Seq(Dependency(all_attrs))
  OBVIOUS
<1>4. result \in Seq(Dependency(all_attrs))
  <2>1. CASE result \in Splits(fds)
    BY <1>1, <1>2, <2>1, SplitsExact
  <2>2. CASE result = <<>>
    BY <1>3, <2>2
  <2>3. QED BY <2>1, <2>2 DEF Init
<1>5. new \in Seq(Dependency(all_attrs)) /\ changed \in BOOLEAN
  BY <1>3 DEF Init
<1>6. \/ job = "judge" /\ pc \in {"judge", "done"}
      \/ job = "synthesis" /\ pc \in {"reduce", "remove", "keys", "done"}
      \/ job = "bcnf" /\ pc \in {"bcnf", "done"}
  BY DEF Init
<1>7. QED BY <1>1, <1>2, <1>4, <1>5, <1>6 DEF Typed

\* A dependency that loses an attribute it has to spare.
LEMMA ShorterFacts ==
    ASSUME NEW A, NEW fd \in Dependency(A), NEW a
    PROVE  /\ Shorter(fd, a) \in Dependency(A)
           /\ Shorter(fd, a).lhs = fd.lhs \ {a} /\ Shorter(fd, a).rhs = fd.rhs
           /\ Obeying(A, Shorter(fd, a)) \subseteq Obeying(A, fd)
<1>1. Shorter(fd, a) \in Dependency(A) /\ Shorter(fd, a).lhs = fd.lhs \ {a} /\ Shorter(fd, a).rhs = fd.rhs
  BY DEF Shorter, Dependency
<1>2. QED BY <1>1 DEF Obeying

\* What Extraneous finds are the attributes that the left side can spare.
LEMMA ExtraneousExact ==
    ASSUME NEW list \in Seq(Dependency(all_attrs)), NEW fd \in Dependency(all_attrs)
    PROVE  /\ \A a \in Extraneous(fd, list) :
                 a \in fd.lhs /\ Closed(list) \subseteq Obeying(all_attrs, Shorter(fd, a))
           /\ Extraneous(fd, list) = {} => LeftReduced(fd, Closed(list))
<1>1. ASSUME NEW a \in fd.lhs
      PROVE  fd.rhs \subseteq closure(fd.lhs \ {a}, list)
                <=> Closed(list) \subseteq Obeying(all_attrs, Shorter(fd, a))
  <2>1. /\ Shorter(fd, a).lhs = fd.lhs \ {a} /\ Shorter(fd, a).rhs = fd.rhs
        /\ Shorter(fd, a).lhs \in SUBSET all_attrs
    <3>1. fd.lhs \in SUBSET all_attrs
      BY DEF Dependency
    <3>2. QED BY <3>1, ShorterFacts
  <2>2. QED BY <2>1, FollowsExact DEF Closed
<1>2. QED BY <1>1 DEF Extraneous, LeftReduced

\* No step leaves these types.
LEMMA TypedStep == Typed /\ [Next]_vars => Typed'
<1> SUFFICES ASSUME Typed, [Next]_vars PROVE Typed'
  OBVIOUS
<1>0. UNCHANGED <<job, all_attrs, fds>>
  BY DEF Next, Judge, Reduce, EndPass, RemoveRedundant, Group, VisitSuperkey, AddKey,
         Split, Keep, EndSplits, Finished, vars, coverVars
<1>1. CASE Judge
  BY <1>0, <1>1 DEF Judge, Typed, coverVars
<1>2. CASE Reduce
  <2> DEFINE fd == result[Len(new) + 1]
  <2>1. fd \in Dependency(all_attrs)
    <3>1. Len(new) + 1 \in 1 .. Len(result) /\ result \in Seq(Dependency(all_attrs))
      BY <1>2 DEF Reduce, Typed
    <3>2. QED BY <3>1, ElementOfSeq
  <2>2. \/ \E a \in Extraneous(fd, result) : new' = Append(new, Shorter(fd, a)) /\ changed' = TRUE
        \/ new' = Append(new, fd) /\ changed' = changed
    BY <1>2 DEF Reduce, Shorter
  <2> HIDE DEF fd
  <2>3. \E g \in Dependency(all_attrs) : new' = Append(new, g)
    BY <2>1, <2>2, ShorterFacts
  <2>4. new \in Seq(Dependency(all_attrs))
    BY DEF Typed
  <2>5. new' \in Seq(Dependency(all_attrs))
    BY <2>3, <2>4, AppendProperties
  <2>6. changed' \in BOOLEAN
    BY <2>2 DEF Typed
  <2>7. pc' = pc /\ result' = result
    BY <1>2 DEF Reduce
  <2>8. QED BY <1>0, <2>5, <2>6, <2>7 DEF Typed
<1>3. CASE EndPass
  <2>1. result' = new /\ new' = <<>> /\ changed' = FALSE /\ pc = "reduce" /\ pc' \in {"reduce", "remove"}
    BY <1>3 DEF EndPass
  <2>2. <<>> \in Seq(Dependency(all_attrs))
    OBVIOUS
  <2>3. QED BY <1>0, <2>1, <2>2 DEF Typed
<1>4. CASE RemoveRedundant
  <2>1. /\ result # <<>> /\ result' = Tail(result)
        /\ new' = new \/ new' = Append(new, Head(result))
        /\ UNCHANGED <<pc, changed>>
    BY <1>4 DEF RemoveRedundant
  <2>2. Head(result) \in Dependency(all_attrs) /\ Tail(result) \in Seq(Dependency(all_attrs))
    BY <2>1, HeadTailProperties DEF Typed
  <2>3. Append(new, Head(result)) \in Seq(Dependency(all_attrs))
    BY <2>2, AppendProperties DEF Typed
  <2>4. QED BY <1>0, <2>1, <2>2, <2>3 DEF Typed
<1>5. CASE Group
  BY <1>0, <1>5 DEF Group, Typed, coverVars
<1>6. CASE \E s \in SUBSET all_attrs : VisitSuperkey(s)
  BY <1>0, <1>6 DEF VisitSuperkey, Typed, coverVars
<1>7. CASE AddKey
  BY <1>0, <1>7 DEF AddKey, Typed, coverVars
<1>8. CASE Split
  BY <1>0, <1>8 DEF Split, Typed, coverVars
<1>9. CASE Keep
  BY <1>0, <1>9 DEF Keep, Typed, coverVars
<1>10. CASE EndSplits
  BY <1>0, <1>10 DEF EndSplits, Typed, coverVars
<1>11. CASE UNCHANGED vars
  BY <1>11 DEF Typed, vars, coverVars
<1>12. QED BY <1>1, <1>2, <1>3, <1>4, <1>5, <1>6, <1>7, <1>8, <1>9, <1>10, <1>11 DEF Next, Finished

\* What Typed says where compute_minimal_cover runs.
LEMMA Positions ==
    ASSUME Typed
    PROVE  /\ Len(result) \in Nat /\ DOMAIN result = 1 .. Len(result)
           /\ Len(new) \in Nat /\ DOMAIN new = 1 .. Len(new)
           /\ \A i \in DOMAIN result : result[i] \in Dependency(all_attrs)
           /\ \A i \in DOMAIN new : new[i] \in Dependency(all_attrs)
<1>1. result \in Seq(Dependency(all_attrs)) /\ new \in Seq(Dependency(all_attrs))
  BY DEF Typed
<1>2. QED BY <1>1

\* Reducing and removing keep right sides split.
LEMMA UnitsStep == Typed /\ Units /\ [Next]_vars => Units'
<1> SUFFICES ASSUME Typed, Units, [Next]_vars PROVE Units'
  OBVIOUS
<1>0. UNCHANGED <<job, all_attrs, fds>>
  BY DEF Next, Judge, Reduce, EndPass, RemoveRedundant, Group, VisitSuperkey, AddKey,
         Split, Keep, EndSplits, Finished, vars, coverVars
<1>1. CASE Reduce
  <2> DEFINE fd == result[Len(new) + 1]
  <2>1. result \in Seq(Unit(all_attrs)) /\ new \in Seq(Unit(all_attrs))
    BY <1>1 DEF Reduce, Units, Typed
  <2>2. fd \in Unit(all_attrs)
    <3>1. Len(new) + 1 \in 1 .. Len(result)
      BY <1>1, Positions DEF Reduce
    <3>2. QED BY <2>1, <3>1, ElementOfSeq
  <2>3. \/ \E a \in Extraneous(fd, result) : new' = Append(new, Shorter(fd, a))
        \/ new' = Append(new, fd)
    BY <1>1 DEF Reduce, Shorter
  <2> HIDE DEF fd
  <2>4. \A a : Shorter(fd, a) \in Unit(all_attrs)
    BY <2>2, ShorterFacts DEF Unit
  <2>5. new' \in Seq(Unit(all_attrs))
    BY <2>1, <2>2, <2>3, <2>4, AppendProperties
  <2>6. result' = result
    BY <1>1 DEF Reduce
  <2>7. QED BY <1>0, <2>1, <2>5, <2>6 DEF Units
<1>2. CASE EndPass
  <2>1. <<>> \in Seq(Unit(all_attrs))
    OBVIOUS
  <2>2. QED BY <1>0, <1>2, <2>1 DEF EndPass, Units
<1>3. CASE RemoveRedundant
  <2>1. /\ result # <<>> /\ result' = Tail(result)
        /\ new' = new \/ new' = Append(new, Head(result))
        /\ result \in Seq(Unit(all_attrs)) /\ new \in Seq(Unit(all_attrs))
    BY <1>3 DEF RemoveRedundant, Units, Typed
  <2>2. Head(result) \in Unit(all_attrs) /\ Tail(result) \in Seq(Unit(all_attrs))
    BY <2>1, HeadTailProperties
  <2>3. Append(new, Head(result)) \in Seq(Unit(all_attrs))
    BY <2>1, <2>2, AppendProperties
  <2>4. QED BY <1>0, <2>1, <2>2, <2>3 DEF Units
<1>4. CASE UNCHANGED <<result, new>>
  BY <1>0, <1>4 DEF Units
<1>5. QED
  BY <1>1, <1>2, <1>3, <1>4 DEF Next, Judge, Group, VisitSuperkey, AddKey,
        Split, Keep, EndSplits, Finished, vars, coverVars

\* Once found, the verdicts stay those on the arguments.
LEMMA JudgedStep == Typed /\ Judged /\ [Next]_vars => Judged'
<1> SUFFICES ASSUME Typed, Judged, [Next]_vars PROVE Judged'
  OBVIOUS
<1>0. UNCHANGED <<job, all_attrs, fds>>
  BY DEF Next, Judge, Reduce, EndPass, RemoveRedundant, Group, VisitSuperkey, AddKey,
         Split, Keep, EndSplits, Finished, vars, coverVars
<1>1. CASE Judge
  BY <1>0, <1>1 DEF Judge, Judged
<1>2. CASE UNCHANGED <<verdict, pc>>
  BY <1>0, <1>2 DEF Judged
<1>3. CASE job # "judge"
  BY <1>0, <1>3 DEF Judged
<1>4. QED BY <1>1, <1>2, <1>3 DEF Next, Reduce, EndPass, RemoveRedundant, Group, VisitSuperkey,
                AddKey, Split, Keep, EndSplits, Finished, vars, Typed

\* The first pass starts from a list that means what was given.
LEMMA ReducingInit == Init => Reducing
<1> SUFFICES ASSUME Init, pc = "reduce" PROVE Reducing
  BY DEF Reducing
<1>1. Typed
  BY TypedInit
<1>2. result \in Splits(fds) /\ new = <<>> /\ changed = FALSE
  BY DEF Init
<1>3. Closed(result) = Closed(fds)
  BY <1>1, <1>2, FewAttributes, SplitsExact DEF Closed, Typed
<1>4. Len(new) = 0 /\ DOMAIN new = {}
  BY <1>2
<1>5. new \o SubSeq(result, 0 + 1, Len(result)) = result
  BY <1>1, <1>2, SubSeqFull, ConcatEmptySeq DEF Typed
<1>6. Len(new) <= Len(result)
  BY <1>1, <1>4, Positions
<1>7. Closed(new \o SubSeq(result, Len(new) + 1, Len(result))) = Closed(fds)
  BY <1>3, <1>4, <1>5
<1>8. \A i \in DOMAIN new : new[i] = result[i] /\ LeftReduced(new[i], Closed(fds))
  BY <1>4
<1>9. QED BY <1>3, <1>6, <1>7, <1>8 DEF Reducing

\* Dropping an extraneous attribute, and starting another pass, loses nothing.
LEMMA ReducingStep == Typed /\ Reducing /\ [Next]_vars => Reducing'
<1> SUFFICES ASSUME Typed, Reducing, [Next]_vars PROVE Reducing'
  OBVIOUS
<1>0. UNCHANGED <<job, all_attrs, fds>>
  BY DEF Next, Judge, Reduce, EndPass, RemoveRedundant, Group, VisitSuperkey, AddKey,
         Split, Keep, EndSplits, Finished, vars, coverVars
<1> DEFINE D == Dependency(all_attrs)
<1>1. CASE Reduce
  <2> DEFINE m == Len(new)
             n == Len(result)
             fd == result[m + 1]
             rest == SubSeq(result, m + 2, n)
  <2>1. /\ pc = "reduce" /\ m < n /\ m \in Nat /\ n \in Nat /\ m + 1 \in 1 .. n
        /\ result \in Seq(D) /\ new \in Seq(D)
        /\ UNCHANGED <<pc, result>>
    BY <1>1, Positions DEF Reduce, Typed
  <2>2. /\ rest \in Seq(D) /\ fd \in D
        /\ SubSeq(result, m + 1, n) \in Seq(D)
        /\ Closed(SubSeq(result, m + 1, n)) = Obeying(all_attrs, fd) \intersect Closed(rest)
    <3>1. (m + 1) + 1 = m + 2
      BY <2>1
    <3>2. QED BY <2>1, <3>1, ClosedFrom DEF Closed
  <2>3. PICK g \in D :
            /\ new' = Append(new, g)
            /\ Obeying(all_attrs, g) \subseteq Obeying(all_attrs, fd)
            /\ Closed(result) \subseteq Obeying(all_attrs, g) \/ g = fd
            /\ ~ changed' => ~ changed /\ g = fd /\ LeftReduced(g, Closed(result))
    <3>1. CASE \E a \in Extraneous(fd, result) : new' = Append(new, Shorter(fd, a)) /\ changed' = TRUE
      <4> HIDE DEF fd
      <4>1. PICK a \in Extraneous(fd, result) : new' = Append(new, Shorter(fd, a)) /\ changed' = TRUE
        BY <3>1
      <4>2. Closed(result) \subseteq Obeying(all_attrs, Shorter(fd, a))
        BY <2>1, <2>2, <4>1, ExtraneousExact
      <4>3. Shorter(fd, a) \in D /\ Obeying(all_attrs, Shorter(fd, a)) \subseteq Obeying(all_attrs, fd)
        BY <2>2, ShorterFacts
      <4>4. QED BY <4>1, <4>2, <4>3
    <3>2. CASE Extraneous(fd, result) = {} /\ new' = Append(new, fd) /\ changed' = changed
      <4> HIDE DEF fd
      <4>1. LeftReduced(fd, Closed(result))
        BY <2>1, <2>2, <3>2, ExtraneousExact
      <4>2. QED BY <2>2, <3>2, <4>1
    <3>3. QED BY <1>1, <3>1, <3>2 DEF Reduce, Shorter
  <2>4. /\ Closed(result) = Closed(fds)
        /\ Closed(new \o SubSeq(result, m + 1, n)) = Closed(fds)
        /\ ~ changed => \A i \in DOMAIN new : new[i] = result[i] /\ LeftReduced(new[i], Closed(fds))
    BY <2>1 DEF Reducing
  <2>5. /\ new' \in Seq(D) /\ Len(new') = m + 1
        /\ \A i \in 1 .. m : new'[i] = new[i]
        /\ new'[m + 1] = g
        /\ Closed(new') = Closed(new) \intersect Obeying(all_attrs, g)
    <3>1. /\ new' \in Seq(D) /\ Len(new') = m + 1
          /\ \A i \in 1 .. m : new'[i] = new[i]
          /\ new'[m + 1] = g
      BY <2>1, <2>3, AppendProperties
    <3>2. Closed(new') = Closed(new) \intersect Obeying(all_attrs, g)
      BY <2>1, <2>3, ClosedAppend DEF Closed
    <3>3. QED BY <3>1, <3>2
  <2>6. Closed(new' \o rest) = Closed(fds)
    <3>1. Closed(new' \o rest) = Closed(new') \intersect Closed(rest)
      <4> HIDE DEF rest
      <4>1. QED BY <2>2, <2>5, ClosedConcat DEF Closed
    <3>2. Closed(fds) = Closed(new) \intersect Obeying(all_attrs, fd) \intersect Closed(rest)
      <4> DEFINE from == SubSeq(result, m + 1, n)
      <4>1. from \in Seq(D) /\ Closed(from) = Obeying(all_attrs, fd) \intersect Closed(rest)
        BY <2>2
      <4>2. Closed(new \o from) = Closed(fds)
        BY <2>4
      <4> HIDE DEF from
      <4>3. Closed(new \o from) = Closed(new) \intersect Closed(from)
        BY <2>1, <4>1, ClosedConcat DEF Closed
      <4> HIDE DEF rest, fd
      <4>4. QED BY <4>1, <4>2, <4>3
    <3> HIDE DEF rest, fd
    <3>3. QED BY <2>3, <2>4, <2>5, <3>1, <3>2
  <2>7. ASSUME ~ changed', NEW i \in DOMAIN new'
        PROVE  new'[i] = result[i] /\ LeftReduced(new'[i], Closed(fds))
    <3>1. i \in 1 .. m + 1
      BY <2>5, <2>7
    <3>2. CASE i = m + 1
      BY <2>3, <2>4, <2>5, <2>7, <3>2
    <3>3. CASE i # m + 1
      <4>1. i \in 1 .. m /\ 1 .. m = DOMAIN new
        BY <2>1, <3>1, <3>3
      <4> HIDE DEF m
      <4>2. QED BY <2>3, <2>4, <2>5, <2>7, <4>1
    <3>4. QED BY <3>2, <3>3
  <2>8. Len(new') <= Len(result') /\ SubSeq(result', Len(new') + 1, Len(result')) = rest
    <3>1. (m + 1) + 1 = m + 2 /\ m + 1 <= n
      BY <2>1
    <3>2. QED BY <2>1, <2>5, <3>1
  <2>9. (Len(new) <= Len(result))' /\ (Closed(result) = Closed(fds))'
    <3> HIDE DEF rest, fd, m, n
    <3>1. QED BY <1>0, <2>1, <2>4, <2>8 DEF Closed
  <2>10. (Closed(new \o SubSeq(result, Len(new) + 1, Len(result))) = Closed(fds))'
    <3> DEFINE r == SubSeq(result', Len(new') + 1, Len(result'))
    <3>1. r = rest
      BY <2>8
    <3>2. Closed(new' \o r) = Closed(fds)
      <4> HIDE DEF rest, r
      <4>1. QED BY <2>6, <3>1
    <3>3. ClosedSets(all_attrs', new' \o r) = ClosedSets(all_attrs', fds')
      <4> HIDE DEF r
      <4>1. QED BY <1>0, <3>2 DEF Closed
    <3>4. QED BY <3>3 DEF Closed
  <2>11. (~ changed => \A i \in DOMAIN new : /\ new[i] = result[i]
                                             /\ LeftReduced(new[i], Closed(fds)))'
    <3> HIDE DEF rest, fd, m, n
    <3>1. QED BY <1>0, <2>1, <2>7 DEF Closed, LeftReduced
  <2>12. QED BY <2>9, <2>10, <2>11 DEF Reducing
<1>2. CASE EndPass
  <2>1. /\ pc = "reduce" /\ Len(new) = Len(result) /\ result' = new /\ new' = <<>>
    BY <1>2 DEF EndPass
  <2>2. Closed(new \o SubSeq(result, Len(result) + 1, Len(result))) = Closed(fds)
    BY <2>1 DEF Reducing
  <2>3. Closed(new) = Closed(fds)
    <3>1. SubSeq(result, Len(result) + 1, Len(result)) = <<>>
      BY Positions, SubSeqEmpty
    <3>2. new \o <<>> = new
      BY ConcatEmptySeq DEF Typed
    <3>3. QED BY <2>2, <3>1, <3>2
  <2>4. <<>> \o SubSeq(new, 0 + 1, Len(new)) = new
    BY SubSeqFull, ConcatEmptySeq DEF Typed
  <2>5. Len(new') = 0 /\ DOMAIN new' = {} /\ Len(result') \in Nat
    BY <2>1, Positions
  <2>6. new' \o SubSeq(result', Len(new') + 1, Len(result')) = new
    BY <2>1, <2>4, <2>5
  <2>7. (Len(new) <= Len(result))' /\ (Closed(result) = Closed(fds))'
    BY <1>0, <2>1, <2>3, <2>5 DEF Closed
  <2>8. (Closed(new \o SubSeq(result, Len(new) + 1, Len(result))) = Closed(fds))'
    BY <1>0, <2>3, <2>6 DEF Closed
  <2>9. (\A i \in DOMAIN new : new[i] = result[i] /\ LeftReduced(new[i], Closed(fds)))'
    BY <2>5
  <2>10. QED BY <2>7, <2>8, <2>9 DEF Reducing
<1>3. CASE pc' # "reduce"
  BY <1>3 DEF Reducing
<1>4. CASE UNCHANGED <<pc, result, new, changed>>
  BY <1>0, <1>4 DEF Reducing, Closed, LeftReduced
<1>5. QED
  BY <1>1, <1>2, <1>3, <1>4 DEF Next, Judge, RemoveRedundant, Group, VisitSuperkey, AddKey,
        Split, Keep, EndSplits, Finished, vars, coverVars

\* Dropping what follows from the rest loses nothing, and leaves left sides
\* as they were.
LEMMA RemovingStep == Typed /\ Reducing /\ Removing /\ [Next]_vars => Removing'
<1> SUFFICES ASSUME Typed, Reducing, Removing, [Next]_vars PROVE Removing'
  OBVIOUS
<1>0. UNCHANGED <<job, all_attrs, fds>>
  BY DEF Next, Judge, Reduce, EndPass, RemoveRedundant, Group, VisitSuperkey, AddKey,
         Split, Keep, EndSplits, Finished, vars, coverVars
<1> DEFINE D == Dependency(all_attrs)
           Kept(s, t) == \A i \in DOMAIN s :
                 /\ LeftReduced(s[i], Closed(fds))
                 /\ ~ Closed(RemoveAt(s, i) \o t) \subseteq Obeying(all_attrs, s[i])
           Rest(t) == \A i \in DOMAIN t : LeftReduced(t[i], Closed(fds))
<1>a. ASSUME Closed(new' \o result') = Closed(fds), Kept(new', result'), Rest(result'),
             pc' # "remove" => result' = <<>>
      PROVE  Removing'
  BY <1>0, <1>a DEF Removing, Closed, LeftReduced
<1>1. CASE EndPass
  <2>1. /\ pc = "reduce" /\ Len(new) = Len(result) /\ result' = new /\ new' = <<>>
        /\ pc' = IF changed THEN "reduce" ELSE "remove"
    BY <1>1 DEF EndPass
  <2>2. CASE changed
    BY <2>1, <2>2 DEF Removing
  <2>3. CASE ~ changed
    <3>1. Closed(new \o SubSeq(result, Len(result) + 1, Len(result))) = Closed(fds)
          /\ Rest(new)
      BY <2>1, <2>3 DEF Reducing
    <3>2. SubSeq(result, Len(result) + 1, Len(result)) = <<>>
      BY Positions, SubSeqEmpty
    <3>3. new \o <<>> = new /\ <<>> \o new = new
      BY ConcatEmptySeq DEF Typed
    <3>4. Closed(new' \o result') = Closed(fds)
      BY <2>1, <3>1, <3>2, <3>3
    <3>5. Kept(new', result')
      BY <2>1
    <3> HIDE DEF Kept, Rest
    <3>6. QED BY <1>a, <2>1, <2>3, <3>1, <3>4, <3>5
  <2>4. QED BY <2>2, <2>3
<1>2. CASE RemoveRedundant
  <2> DEFINE h == Head(result)
             t == Tail(result)
  <2>1. /\ pc = "remove" /\ result # <<>> /\ result' = t /\ pc' = pc
        /\ new' = IF h.rhs \subseteq closure(h.lhs, new \o t) THEN new ELSE Append(new, h)
    BY <1>2 DEF RemoveRedundant, Redundant
  <2>2. /\ new \in Seq(D) /\ result \in Seq(D)
        /\ h \in D /\ t \in Seq(D) /\ Closed(result) = Obeying(all_attrs, h) \intersect Closed(t)
    BY <2>1, ClosedHead DEF Typed, Closed
  <2>3. new \o t \in Seq(D) /\ Closed(new \o t) = Closed(new) \intersect Closed(t)
    <3> HIDE DEF t
    <3>1. QED BY <2>2, ClosedConcat DEF Closed
  <2>4. Closed(fds) = Closed(new) \intersect Closed(result)
    <3>1. job = "synthesis"
      BY <2>1 DEF Typed
    <3>2. Closed(new \o result) = Closed(fds)
      BY <2>1, <3>1 DEF Removing
    <3>3. QED BY <2>2, <3>2, ClosedConcat DEF Closed
  <2>5. Kept(new, result) /\ Rest(result)
    <3>1. job = "synthesis"
      BY <2>1 DEF Typed
    <3>2. QED BY <2>1, <3>1 DEF Removing
  <2>6. Rest(t) /\ LeftReduced(h, Closed(fds))
    <3>1. /\ Len(t) = Len(result) - 1 /\ \A i \in 1 .. Len(t) : t[i] = result[i + 1]
          /\ h = result[1] /\ Len(result) \in Nat /\ Len(t) \in Nat
          /\ DOMAIN result = 1 .. Len(result) /\ DOMAIN t = 1 .. Len(t)
      BY <2>1, <2>2, HeadTailProperties
    <3> HIDE DEF h, t
    <3>2. \A i \in 1 .. Len(t) : i + 1 \in 1 .. Len(result)
      BY <3>1
    <3>3. 1 \in 1 .. Len(result)
      BY <3>1
    <3>4. QED BY <2>5, <3>1, <3>2, <3>3
  <2>7. h.rhs \subseteq closure(h.lhs, new \o t) <=> Closed(new \o t) \subseteq Obeying(all_attrs, h)
    <3>1. h.lhs \in SUBSET all_attrs
      BY <2>2 DEF Dependency
    <3> HIDE DEF h, t
    <3>2. QED BY <2>3, <3>1, FollowsExact DEF Closed
  \* What is kept does not follow from less than it did not follow from.
  <2>8. ASSUME NEW i \in DOMAIN new
        PROVE  /\ i \in 1 .. Len(new) /\ new[i] \in D /\ RemoveAt(new, i) \in Seq(D)
               /\ ~ Closed(RemoveAt(new, i)) \intersect Closed(result) \subseteq Obeying(all_attrs, new[i])
    <3>1. i \in 1 .. Len(new) /\ new[i] \in D
      BY Positions
    <3>2. RemoveAt(new, i) \in Seq(D)
      BY <2>2, <3>1, ClosedRemoved
    <3>3. Closed(RemoveAt(new, i) \o result) = Closed(RemoveAt(new, i)) \intersect Closed(result)
      BY <2>2, <3>2, ClosedConcat DEF Closed
    <3>4. QED BY <2>5, <3>1, <3>2, <3>3
  <2>9. CASE Closed(new \o t) \subseteq Obeying(all_attrs, h)
    <3>1. new' = new
      BY <2>1, <2>7, <2>9
    <3>2. Closed(new \o t) = Closed(fds)
      <4> HIDE DEF h, t
      <4>1. QED BY <2>2, <2>3, <2>4, <2>9
    <3>3. ASSUME NEW i \in DOMAIN new
          PROVE  /\ LeftReduced(new[i], Closed(fds))
                 /\ ~ Closed(RemoveAt(new, i) \o t) \subseteq Obeying(all_attrs, new[i])
      <4> HIDE DEF h, t
      <4>1. Closed(RemoveAt(new, i) \o t) = Closed(RemoveAt(new, i)) \intersect Closed(t)
        BY <2>2, <2>8, ClosedConcat DEF Closed
      <4>2. QED BY <2>2, <2>5, <2>8, <4>1
    <3>4. Kept(new, t)
      BY <3>3
    <3> HIDE DEF Kept, Rest, h, t
    <3>5. QED BY <1>a, <2>1, <2>6, <3>1, <3>2, <3>4
  <2>10. CASE ~ Closed(new \o t) \subseteq Obeying(all_attrs, h)
    <3> DEFINE u == Append(new, h)
    <3>1. new' = u
      BY <2>1, <2>7, <2>10
    <3>2. u \in Seq(D) /\ Closed(u) = Closed(new) \intersect Obeying(all_attrs, h)
      <4> HIDE DEF h, t
      <4>1. QED BY <2>2, ClosedAppend DEF Closed
    <3>3. Closed(u \o t) = Closed(fds)
      <4> HIDE DEF h, t, u
      <4>1. Closed(u \o t) = Closed(u) \intersect Closed(t)
        BY <2>2, <3>2, ClosedConcat DEF Closed
      <4>2. QED BY <2>2, <2>4, <3>2, <4>1
    <3>4. /\ Len(u) = Len(new) + 1 /\ u[Len(new) + 1] = h /\ \A i \in 1 .. Len(new) : u[i] = new[i]
          /\ DOMAIN u = 1 .. Len(new) + 1
      <4> HIDE DEF h
      <4>1. QED BY <2>2, AppendProperties
    <3>5. /\ \A i \in 1 .. Len(new) : Closed(RemoveAt(u, i)) = Closed(RemoveAt(new, i)) \intersect Obeying(all_attrs, h)
          /\ RemoveAt(u, Len(new) + 1) = new
      <4> HIDE DEF h
      <4>1. QED BY <2>2, ClosedRemovedAppended DEF Closed
    <3> HIDE DEF u
    <3>6. ASSUME NEW i \in DOMAIN u
          PROVE  /\ LeftReduced(u[i], Closed(fds))
                 /\ ~ Closed(RemoveAt(u, i) \o t) \subseteq Obeying(all_attrs, u[i])
      <4>1. CASE i = Len(new) + 1
        BY <2>6, <2>10, <3>4, <3>5, <4>1
      <4>2. CASE i # Len(new) + 1
        <5>1. i \in DOMAIN new /\ i \in 1 .. Len(new) /\ u[i] = new[i] /\ i \in 1 .. Len(u)
          BY <3>4, <4>2, Positions
        <5>2. RemoveAt(u, i) \in Seq(D)
          BY <3>2, <5>1, ClosedRemoved
        <5> HIDE DEF h, t
        <5>3. Closed(RemoveAt(u, i) \o t) = Closed(RemoveAt(u, i)) \intersect Closed(t)
          BY <2>2, <5>2, ClosedConcat DEF Closed
        <5>4. QED BY <2>2, <2>5, <2>8, <3>5, <5>1, <5>3
      <4>3. QED BY <4>1, <4>2
    <3>7. Kept(u, t)
      BY <3>6
    <3> HIDE DEF Kept, Rest, h, t
    <3>8. QED BY <1>a, <2>1, <2>6, <3>1, <3>3, <3>7
  <2>11. QED BY <2>9, <2>10
<1>3. CASE Group
  <2>1. pc = "remove" /\ result = <<>> /\ UNCHANGED <<result, new>> /\ job = "synthesis"
    BY <1>3 DEF Group, coverVars, Typed
  <2>2. Closed(new \o result) = Closed(fds) /\ Kept(new, result) /\ Rest(result)
    BY <2>1 DEF Removing
  <2> HIDE DEF Kept, Rest
  <2>3. QED BY <1>a, <2>1, <2>2
<1>4. CASE job # "synthesis" \/ pc' = "reduce"
  BY <1>0, <1>4 DEF Removing
<1>5. CASE job = "synthesis" /\ pc \in {"keys", "done"} /\ pc' # "remove" /\ UNCHANGED <<result, new>>
  <2>1. Closed(new \o result) = Closed(fds) /\ Kept(new, result) /\ Rest(result) /\ result = <<>>
    BY <1>5 DEF Removing
  <2> HIDE DEF Kept, Rest
  <2>2. QED BY <1>a, <1>5, <2>1
<1>6. CASE UNCHANGED vars
  BY <1>0, <1>6 DEF Removing, Closed, LeftReduced, vars, coverVars
<1>7. QED
  BY <1>1, <1>2, <1>3, <1>4, <1>5, <1>6 DEF Next, Judge, Reduce, VisitSuperkey, AddKey,
        Split, Keep, EndSplits, Finished, coverVars, Typed

\* A superkey looked at in any order leaves the least of those seen.
LEMMA SearchingStep == Typed /\ Searching /\ [Next]_vars => Searching'
<1> SUFFICES ASSUME Typed, Searching, [Next]_vars PROVE Searching'
  OBVIOUS
<1>0. UNCHANGED <<job, all_attrs, fds>>
  BY DEF Next, Judge, Reduce, EndPass, RemoveRedundant, Group, VisitSuperkey, AddKey,
         Split, Keep, EndSplits, Finished, vars, coverVars
<1> DEFINE S == superkeys(all_attrs, fds)
<1>1. CASE Group
  <2>1. pc = "remove" /\ pc' = "keys" /\ unseen' = S /\ keys' = keys /\ job = "synthesis"
    BY <1>1 DEF Group, Typed
  <2>2. keys = {}
    BY <2>1 DEF Searching
  <2>3. LeastOf({}, S \ S)
    BY DEF LeastOf
  <2> HIDE DEF S
  <2>4. LeastOf(keys', S \ unseen')
    BY <2>1, <2>2, <2>3
  <2>5. QED BY <1>0, <2>1, <2>4 DEF Searching, S
<1>2. CASE \E s \in SUBSET all_attrs : VisitSuperkey(s)
  <2>1. PICK s \in unseen : /\ pc = "keys" /\ pc' = pc /\ unseen' = unseen \ {s}
                            /\ keys' = WithKey(keys, s)
    BY <1>2 DEF VisitSuperkey
  <2>2. job = "synthesis"
    BY <2>1 DEF Typed
  <2>3. unseen \subseteq S /\ LeastOf(keys, S \ unseen)
    BY <2>1, <2>2 DEF Searching
  <2> HIDE DEF S
  <2>4. (S \ unseen) \union {s} = S \ unseen' /\ unseen' \subseteq S
    BY <2>1, <2>3
  <2>5. LeastOf(keys', S \ unseen')
    BY <2>1, <2>3, <2>4, WithKeyLeast
  <2>6. QED BY <1>0, <2>1, <2>4, <2>5 DEF Searching, S
<1>3. CASE AddKey
  <2>1. pc = "keys" /\ unseen = {} /\ pc' = "done" /\ UNCHANGED keyVars
    BY <1>3 DEF AddKey
  <2>2. QED BY <1>0, <2>1 DEF Searching, keyVars
<1>4. CASE job # "synthesis"
  BY <1>0, <1>4 DEF Searching
<1>5. CASE pc \in {"reduce", "remove"} /\ pc' \in {"reduce", "remove"} /\ keys' = keys
  BY <1>0, <1>5 DEF Searching
<1>6. CASE UNCHANGED <<pc, unseen, keys>>
  BY <1>0, <1>6 DEF Searching
<1>7. QED
  BY <1>1, <1>2, <1>3, <1>4, <1>5, <1>6 DEF Next, Judge, Reduce, EndPass, RemoveRedundant,
        Split, Keep, EndSplits, Finished, vars, keyVars, Typed

\* The groups stay those of the finished cover, with a key when none has one.
LEMMA GroupedStep == Typed /\ Grouped /\ [Next]_vars => Grouped'
<1> SUFFICES ASSUME Typed, Grouped, [Next]_vars PROVE Grouped'
  OBVIOUS
<1>0. UNCHANGED <<job, all_attrs, fds>>
  BY DEF Next, Judge, Reduce, EndPass, RemoveRedundant, Group, VisitSuperkey, AddKey,
         Split, Keep, EndSplits, Finished, vars, coverVars
<1>1. CASE Group
  BY <1>1 DEF Group, coverVars, Grouped
<1>2. CASE AddKey
  <2>1. /\ pc = "keys" /\ pc' = "done" /\ UNCHANGED <<new, keys>> /\ job = "synthesis"
        /\ \/ has_key /\ UNCHANGED schemas
           \/ ~ has_key /\ \E k \in keys : schemas' = schemas \union {k}
    BY <1>2 DEF AddKey, coverVars, keyVars, Typed
  <2>2. schemas = Groups(new)
    BY <2>1 DEF Grouped
  <2>3. CASE has_key /\ UNCHANGED schemas
    BY <1>0, <2>1, <2>2, <2>3 DEF Grouped, has_key
  <2>4. CASE \E k \in keys : schemas' = schemas \union {k}
    BY <1>0, <2>1, <2>2, <2>4 DEF Grouped, has_key
  <2>5. QED BY <2>1, <2>3, <2>4
<1>3. CASE job # "synthesis" \/ pc' \notin {"keys", "done"}
  BY <1>0, <1>3 DEF Grouped
<1>4. CASE pc = "keys" /\ pc' = "keys" /\ UNCHANGED <<new, schemas>>
  BY <1>0, <1>4 DEF Grouped
<1>5. CASE UNCHANGED vars
  BY <1>0, <1>5 DEF Grouped, has_key, vars, coverVars, keyVars
<1>6. QED
  BY <1>0, <1>1, <1>2, <1>3, <1>4, <1>5 DEF Next, Judge, Reduce, EndPass, RemoveRedundant,
        VisitSuperkey, Split, Keep, EndSplits, Finished, coverVars, Typed

\* The invariant holds of any arguments.
LEMMA InvInit == Init => Inv
<1> SUFFICES ASSUME Init PROVE Inv
  OBVIOUS
<1>1. Typed /\ Reducing
  BY TypedInit, ReducingInit
<1>a. Units
  <2>1. <<>> \in Seq(Unit(all_attrs))
    OBVIOUS
  <2>2. CASE job = "synthesis"
    <3>1. result \in Splits(fds) /\ new = <<>>
      BY <2>2 DEF Init
    <3>2. result \in Seq(Unit(all_attrs))
      BY <1>1, <3>1, FewAttributes, SplitsExact DEF Typed
    <3>3. QED BY <2>1, <3>1, <3>2 DEF Units
  <2>3. QED BY <2>2 DEF Units
<1>2. Judged /\ Removing /\ Searching /\ Grouped
  BY DEF Init, Judged, Removing, Searching, Grouped
<1>3. QED BY <1>1, <1>a, <1>2 DEF Inv

\* The inductive invariant of the three functions: what the lists mean, what
\* has been reduced, kept and looked at so far.
THEOREM InvariantHolds == Spec => []Inv
<1>1. Inv /\ [Next]_vars => Inv'
  BY TypedStep, UnitsStep, JudgedStep, ReducingStep, RemovingStep, SearchingStep, GroupedStep DEF Inv
<1>2. QED BY <1>1, InvInit, PTL DEF Spec

-----------------------------------------------------------------------------
(* What follows from it.                                                   *)

\* The verdicts are then those of the definitions.
LEMMA VerdictsFollow == Inv => VerdictsExact
<1> SUFFICES ASSUME Inv, job = "judge", pc = "done", Conditional
             PROVE  /\ verdict.bcnf <=> InBCNF(all_attrs, Closed(fds))
                    /\ Disjoint => (verdict.nf3 <=> In3NF(all_attrs, Closed(fds)))
                    /\ ~ verdict.nf2 => ~ In2NF(all_attrs, Closed(fds))
  BY DEF VerdictsExact
<1>1. /\ verdict.nf2 = is_2nf(all_attrs, fds)
      /\ verdict.nf3 = is_3nf(all_attrs, fds)
      /\ verdict.bcnf = is_bcnf(all_attrs, fds)
  BY DEF Inv, Judged
<1>2. fds \in Seq(Dependency(all_attrs)) /\ IsFiniteSet(all_attrs) /\ all_attrs # {}
  BY FewAttributes DEF Inv, Typed
<1>3. \A i \in DOMAIN fds : fds[i].lhs # {}
  BY DEF Conditional
<1>4. is_bcnf(all_attrs, fds) <=> InBCNF(all_attrs, Closed(fds))
  BY <1>2, <1>3, BcnfExact DEF Closed
<1>5. Disjoint => (is_3nf(all_attrs, fds) <=> In3NF(all_attrs, Closed(fds)))
  BY <1>2, <1>3, ThirdExact DEF Closed, Disjoint
<1>6. ~ is_2nf(all_attrs, fds) => ~ In2NF(all_attrs, Closed(fds))
  BY <1>2, SecondSound DEF Closed
<1>7. QED BY <1>1, <1>4, <1>5, <1>6

\* The keys are then the minimal ones.
LEMMA KeysFollow == Inv => KeysExact
<1> SUFFICES ASSUME Inv, pc = "done", job = "synthesis" PROVE keys = Keys(all_attrs, Closed(fds))
  BY DEF KeysExact
<1>1. LeastOf(keys, superkeys(all_attrs, fds) \ unseen) /\ unseen = {}
  BY DEF Inv, Searching
<1>2. LeastOf(keys, superkeys(all_attrs, fds))
  BY <1>1
<1>3. QED BY <1>2, LeastSuperkeysAreKeys DEF Closed, Inv, Typed

\* The cover is then minimal.
LEMMA CoverFollows == Inv => CoverMinimal
<1> SUFFICES ASSUME Inv, job = "synthesis" PROVE CoverMinimal
  BY DEF CoverMinimal
<1>1. Typed /\ Reducing /\ Removing
  BY DEF Inv
<1>2. CASE pc = "reduce"
  BY <1>1, <1>2 DEF Reducing, CoverMinimal
<1>3. CASE pc # "reduce"
  <2>1. Closed(new \o result) = Closed(fds)
    BY <1>1, <1>3 DEF Removing
  <2>2. ASSUME pc \in {"keys", "done"}, NEW i \in DOMAIN new
        PROVE  /\ Closed(RemoveAt(new, i)) # Closed(fds)
               /\ Conditional => \A a \in new[i].lhs :
                      Closed([new EXCEPT ![i].lhs = @ \ {a}]) # Closed(fds)
    <3>1. /\ result = <<>>
          /\ LeftReduced(new[i], Closed(fds))
          /\ ~ Closed(RemoveAt(new, i) \o result) \subseteq Obeying(all_attrs, new[i])
      BY <1>1, <2>2 DEF Removing
    <3>2. /\ new \in Seq(Dependency(all_attrs)) /\ i \in 1 .. Len(new)
          /\ new[i] \in Dependency(all_attrs)
      BY <1>1, Positions DEF Typed
    <3>3. /\ RemoveAt(new, i) \in Seq(Dependency(all_attrs))
          /\ Closed(new) = Closed(RemoveAt(new, i)) \intersect Obeying(all_attrs, new[i])
      BY <3>2, ClosedRemoved DEF Closed
    <3>4. new \o <<>> = new /\ RemoveAt(new, i) \o <<>> = RemoveAt(new, i)
      BY <3>2, <3>3, ConcatEmptySeq
    <3>5. Closed(new) = Closed(fds)
      BY <2>1, <3>1, <3>4
    <3>6. Closed(RemoveAt(new, i)) # Closed(fds)
      BY <3>1, <3>3, <3>4, <3>5
    <3>7. ASSUME Conditional, NEW a \in new[i].lhs
          PROVE  Closed([new EXCEPT ![i].lhs = @ \ {a}]) # Closed(fds)
      <4> DEFINE g == Shorter(new[i], a)
                 less == [new EXCEPT ![i] = g]
      <4>1. [new EXCEPT ![i].lhs = @ \ {a}] = less
        BY DEF Shorter
      <4>2. g \in Dependency(all_attrs) /\ g.lhs = new[i].lhs \ {a} /\ g.rhs = new[i].rhs
        BY <3>2, ShorterFacts
      <4>3. new[i].lhs \in SUBSET all_attrs /\ new[i].rhs # {}
        BY <3>2 DEF Dependency
      <4>4. less \in Seq(Dependency(all_attrs)) /\ less[i] = g /\ i \in DOMAIN less
        <5> HIDE DEF g
        <5>1. QED BY <3>2, <4>2, ExceptSeq
      <4>5. Closed(less) \subseteq Obeying(all_attrs, g)
        BY <4>4 DEF Closed, ClosedSets, Obeying
      <4> HIDE DEF less
      <4>6. CASE Cardinality(new[i].lhs) > 1
        BY <3>1, <4>1, <4>5, <4>6 DEF LeftReduced
      <4>7. CASE ~ Cardinality(new[i].lhs) > 1
        <5>1. IsFiniteSet(new[i].lhs) /\ Cardinality(new[i].lhs) \in Nat
          BY <1>1, <4>3, FewAttributes, FS_Subset, FS_CardinalityType
        <5>2. Cardinality(new[i].lhs \ {a}) = Cardinality(new[i].lhs) - 1
          BY <5>1, FS_RemoveElement
        <5>3. Cardinality(new[i].lhs \ {a}) = 0 /\ IsFiniteSet(new[i].lhs \ {a})
          <6>1. IsFiniteSet(new[i].lhs \ {a})
            BY <5>1, FS_Subset
          <6>2. Cardinality(new[i].lhs \ {a}) \in Nat
            BY <6>1, FS_CardinalityType
          <6>3. QED BY <4>7, <5>1, <5>2, <6>1, <6>2
        <5>4. g.lhs = {}
          BY <4>2, <5>3, FS_EmptySet
        <5>5. {} \notin Obeying(all_attrs, g)
          BY <4>2, <4>3, <5>4 DEF Obeying
        <5>6. {} \in Closed(fds)
          BY <3>7 DEF Closed, ClosedSets, Conditional
        <5>7. QED BY <4>1, <4>5, <5>5, <5>6
      <4>8. QED BY <4>6, <4>7
    <3>8. QED BY <3>6, <3>7
  <2>3. QED BY <1>3, <2>1, <2>2 DEF CoverMinimal
<1>4. QED BY <1>2, <1>3

\* What is_2nf, is_3nf and is_bcnf say of the dependencies they are given is
\* true of all that follow from them: is_bcnf of every relation, is_3nf if no
\* attribute is repeated, is_2nf when it says no.
THEOREM VerdictsAlwaysExact == Spec => []VerdictsExact
BY InvariantHolds, VerdictsFollow, PTL

\* candidate_keys ends with exactly the keys, in whatever order the superkeys
\* come out of the hash map.
THEOREM KeysAlwaysExact == Spec => []KeysExact
BY InvariantHolds, KeysFollow, PTL

\* compute_minimal_cover keeps the meaning of the dependencies at every step,
\* and what it returns has none, and no attribute on a left side, to spare.
THEOREM CoverAlwaysMinimal == Spec => []CoverMinimal
BY InvariantHolds, CoverFollows, PTL

\* All others are still there.
LEMMA Remaining ==
    ASSUME NEW S, NEW s \in Seq(S), NEW i \in 1 .. Len(s), NEW h \in 1 .. Len(s), i # h
    PROVE  \E j \in DOMAIN RemoveAt(s, i) : RemoveAt(s, i)[j] = s[h]
<1> DEFINE b == SubSeq(s, 1, i - 1)
           c == SubSeq(s, i + 1, Len(s))
           u == b \o c
<1>1. Len(s) \in Nat /\ i - 1 \in Nat
  OBVIOUS
<1>2. /\ b \in Seq(S) /\ Len(b) = i - 1
      /\ \A j \in 1 .. i - 1 : b[j] = s[j]
  <2>1. \A j \in 1 .. i - 1 : s[j] \in S
    OBVIOUS
  <2>2. /\ b \in Seq(S) /\ Len(b) = IF 1 <= i - 1 THEN (i - 1) - 1 + 1 ELSE 0
        /\ \A j \in 1 .. (i - 1) - 1 + 1 : b[j] = s[1 + j - 1]
    BY <1>1, <2>1, SubSeqProperties
  <2> HIDE DEF b
  <2>3. QED BY <1>1, <2>2
<1>3. /\ c \in Seq(S) /\ Len(c) = Len(s) - i
      /\ \A j \in 1 .. Len(s) - i : c[j] = s[i + j]
  <2>1. \A j \in i + 1 .. Len(s) : s[j] \in S
    OBVIOUS
  <2>2. /\ c \in Seq(S) /\ Len(c) = IF i + 1 <= Len(s) THEN Len(s) - (i + 1) + 1 ELSE 0
        /\ \A j \in 1 .. Len(s) - (i + 1) + 1 : c[j] = s[(i + 1) + j - 1]
    BY <1>1, <2>1, SubSeqProperties
  <2> HIDE DEF c
  <2>3. QED BY <1>1, <2>2
<1> HIDE DEF b, c
<1>4. /\ DOMAIN u = 1 .. Len(s) - 1
      /\ \A j \in 1 .. Len(s) - 1 : u[j] = IF j <= i - 1 THEN b[j] ELSE c[j - (i - 1)]
  <2>1. /\ u \in Seq(S) /\ Len(u) = Len(b) + Len(c)
        /\ \A j \in 1 .. Len(b) + Len(c) : u[j] = IF j <= Len(b) THEN b[j] ELSE c[j - Len(b)]
    BY <1>2, <1>3, ConcatProperties
  <2> HIDE DEF u
  <2>2. Len(b) + Len(c) = Len(s) - 1 /\ DOMAIN u = 1 .. Len(u)
    BY <1>1, <1>2, <1>3, <2>1
  <2>3. QED BY <1>2, <2>1, <2>2
<1> HIDE DEF u
<1>5. CASE h < i
  <2>1. h \in 1 .. Len(s) - 1 /\ h <= i - 1 /\ h \in 1 .. i - 1
    BY <1>1, <1>5
  <2>2. u[h] = s[h] /\ h \in DOMAIN u
    BY <1>2, <1>4, <2>1
  <2>3. QED BY <2>2 DEF RemoveAt, u, b, c
<1>6. CASE h > i
  <2>1. h - 1 \in 1 .. Len(s) - 1 /\ ~ h - 1 <= i - 1 /\ (h - 1) - (i - 1) = h - i
        /\ h - i \in 1 .. Len(s) - i /\ i + (h - i) = h
    BY <1>1, <1>6
  <2>2. u[h - 1] = s[h] /\ h - 1 \in DOMAIN u
    BY <1>3, <1>4, <2>1
  <2>3. QED BY <2>2 DEF RemoveAt, u, b, c
<1>7. QED BY <1>1, <1>5, <1>6

-----------------------------------------------------------------------------
(* What decompose_3nf returns.                                             *)

\* The relations that the cover is grouped into.
LEMMA GroupsAre ==
    ASSUME NEW cover
    PROVE  /\ \A R \in Groups(cover) : \E i \in DOMAIN cover :
                 \A a : a \in R <=> \/ a \in cover[i].lhs
                                    \/ \E j \in DOMAIN cover : /\ cover[j].lhs = cover[i].lhs
                                                              /\ a \in cover[j].rhs
           /\ \A i \in DOMAIN cover : \E R \in Groups(cover) :
                 cover[i].lhs \subseteq R /\ cover[i].rhs \subseteq R
<1> DEFINE G(fd) == fd.lhs \union UNION {g.rhs : g \in {h \in ToSet(cover) : h.lhs = fd.lhs}}
<1>1. Groups(cover) = {G(fd) : fd \in ToSet(cover)}
  BY DEF Groups
<1>2. \A fd : fd \in ToSet(cover) <=> \E i \in DOMAIN cover : fd = cover[i]
  BY DEF ToSet
<1>3. \A fd, a : a \in G(fd) <=> \/ a \in fd.lhs
                                 \/ \E j \in DOMAIN cover : cover[j].lhs = fd.lhs /\ a \in cover[j].rhs
  BY <1>2
<1> HIDE DEF G
<1>4. ASSUME NEW R \in Groups(cover)
      PROVE  \E i \in DOMAIN cover : R = G(cover[i])
  BY <1>1, <1>2
<1>5. ASSUME NEW i \in DOMAIN cover
      PROVE  /\ G(cover[i]) \in Groups(cover)
             /\ cover[i].lhs \subseteq G(cover[i]) /\ cover[i].rhs \subseteq G(cover[i])
  BY <1>1, <1>2, <1>3
<1>6. QED BY <1>3, <1>4, <1>5

\* What the invariant says of the cover once it is there.
LEMMA CoverFacts ==
    ASSUME Inv, job = "synthesis", pc \in {"keys", "done"}
    PROVE  /\ new \in Seq(Dependency(all_attrs)) /\ Closed(new) = Closed(fds)
           /\ \A i \in DOMAIN new :
                 /\ i \in 1 .. Len(new)
                 /\ new[i] \in Dependency(all_attrs)
                 /\ new[i].lhs \in SUBSET all_attrs /\ new[i].rhs \in SUBSET all_attrs
                 /\ \E x : new[i].rhs = {x}
                 /\ LeftReduced(new[i], Closed(fds))
                 /\ RemoveAt(new, i) \in Seq(Dependency(all_attrs))
                 /\ ~ Closed(RemoveAt(new, i)) \subseteq Obeying(all_attrs, new[i])
                 /\ Closed(new) = Closed(RemoveAt(new, i)) \intersect Obeying(all_attrs, new[i])
                 /\ Conditional => new[i].lhs # {}
<1>1. Typed /\ Units /\ Removing /\ pc # "reduce" /\ pc # "remove"
  BY DEF Inv
<1>2. /\ Closed(new \o result) = Closed(fds) /\ result = <<>>
      /\ \A i \in DOMAIN new :
            /\ LeftReduced(new[i], Closed(fds))
            /\ ~ Closed(RemoveAt(new, i) \o result) \subseteq Obeying(all_attrs, new[i])
  BY <1>1 DEF Removing
<1>3. new \in Seq(Dependency(all_attrs)) /\ new \in Seq(Unit(all_attrs)) /\ new \o <<>> = new
  BY <1>1, ConcatEmptySeq DEF Typed, Units
<1>4. Closed(new) = Closed(fds)
  BY <1>2, <1>3
<1>5. ASSUME NEW i \in DOMAIN new
      PROVE  /\ i \in 1 .. Len(new)
             /\ new[i] \in Dependency(all_attrs)
             /\ new[i].lhs \in SUBSET all_attrs /\ new[i].rhs \in SUBSET all_attrs
             /\ \E x : new[i].rhs = {x}
             /\ LeftReduced(new[i], Closed(fds))
             /\ RemoveAt(new, i) \in Seq(Dependency(all_attrs))
             /\ ~ Closed(RemoveAt(new, i)) \subseteq Obeying(all_attrs, new[i])
             /\ Closed(new) = Closed(RemoveAt(new, i)) \intersect Obeying(all_attrs, new[i])
             /\ Conditional => new[i].lhs # {}
  <2>1. i \in 1 .. Len(new) /\ new[i] \in Dependency(all_attrs)
    BY <1>1, Positions
  <2>2. new[i] \in Unit(all_attrs)
    BY <1>3, <2>1, ElementOfSeq
  <2>3. /\ RemoveAt(new, i) \in Seq(Dependency(all_attrs))
        /\ Closed(new) = Closed(RemoveAt(new, i)) \intersect Obeying(all_attrs, new[i])
    BY <1>3, <2>1, ClosedRemoved DEF Closed
  <2>4. RemoveAt(new, i) \o <<>> = RemoveAt(new, i)
    BY <2>3, ConcatEmptySeq
  <2>5. ~ Closed(RemoveAt(new, i)) \subseteq Obeying(all_attrs, new[i])
    BY <1>2, <2>4
  <2>6. new[i].lhs \in SUBSET all_attrs /\ new[i].rhs \in SUBSET all_attrs /\ new[i].rhs # {}
    BY <2>1 DEF Dependency
  <2>7. ASSUME Conditional PROVE new[i].lhs # {}
    <3>1. {} \in Closed(fds)
      BY <2>7 DEF Closed, ClosedSets, Conditional
    <3>2. QED BY <1>4, <2>3, <2>6, <3>1 DEF Obeying
  <2>8. \E x : new[i].rhs = {x}
    BY <2>2 DEF Unit
  <2>9. QED BY <1>2, <2>1, <2>3, <2>5, <2>6, <2>7, <2>8
<1>6. QED BY <1>3, <1>4, <1>5

\* A group is in third normal form: its left side is a key of it, and what a
\* set that determines less determines of it is on that side, because the
\* dependency for any other attribute would follow from the others.
LEMMA GroupsThird ==
    ASSUME Inv, job = "synthesis", pc \in {"keys", "done"}, Conditional, NEW R \in Groups(new)
    PROVE  In3NF(R, Closed(fds))
<1> DEFINE A == all_attrs
           C == Closed(fds)
           D(S) == Determined(S, C)
<1>1. PICK i \in DOMAIN new :
          \A a : a \in R <=> \/ a \in new[i].lhs
                             \/ \E j \in DOMAIN new : new[j].lhs = new[i].lhs /\ a \in new[j].rhs
  BY GroupsAre
<1> DEFINE L == new[i].lhs
<1>2. /\ L \in SUBSET A /\ L # {} /\ L \subseteq R /\ new[i].rhs \subseteq R
      /\ new[i].rhs \in SUBSET A /\ new[i] \in Dependency(A)
      /\ LeftReduced(new[i], C)
  BY <1>1, CoverFacts
<1>3. R \subseteq A
  BY <1>1, CoverFacts
\* The closed sets are those of the given dependencies and of the cover.
<1>4. ASSUME NEW S \in SUBSET A
      PROVE  /\ D(S) \in C /\ D(S) \subseteq A /\ S \subseteq D(S)
             /\ \A K \in C : S \subseteq K => D(S) \subseteq K
             /\ \A j \in DOMAIN new : new[j].lhs \subseteq D(S) => new[j].rhs \subseteq D(S)
  <2>1. new \in Seq(Dependency(A)) /\ ClosedSets(A, new) = C
    BY CoverFacts DEF Closed
  <2> HIDE DEF A, C
  <2>2. QED BY <2>1, DeterminedFacts
<1>5. Determines(L, R, C)
  <2>1. /\ L \subseteq D(L)
        /\ \A j \in DOMAIN new : new[j].lhs = L => new[j].rhs \subseteq D(L)
    <3> HIDE DEF D, C, A, L
    <3>1. QED BY <1>2, <1>4
  <2> HIDE DEF D, C
  <2>2. R \subseteq D(L)
    BY <1>1, <2>1
  <2>3. QED BY <2>2 DEF Determines, D
<1>6. ASSUME NEW J \in (SUBSET L) \ {{}, L}, Determines(J, R, C) PROVE FALSE
  <2>1. PICK b \in L : b \notin J
    OBVIOUS
  <2>2. Cardinality(L) > 1
    <3>1. PICK c \in J : TRUE
      OBVIOUS
    <3>2. {b, c} \subseteq L /\ b # c
      BY <2>1
    <3>3. IsFiniteSet(L)
      BY <1>2, FewAttributes, FS_Subset DEF Inv
    <3>4. Cardinality({b, c}) = 2
      <4>1. IsFiniteSet({c}) /\ Cardinality({c}) = 1
        BY FS_Singleton
      <4>2. Cardinality({c} \union {b}) = Cardinality({c}) + 1
        BY <3>2, <4>1, FS_AddElement
      <4>3. {c} \union {b} = {b, c}
        OBVIOUS
      <4>4. QED BY <4>1, <4>2, <4>3
    <3>5. Cardinality({b, c}) <= Cardinality(L) /\ Cardinality(L) \in Nat
      BY <3>2, <3>3, FS_Subset, FS_CardinalityType
    <3>6. QED BY <3>4, <3>5
  <2>3. ~ C \subseteq Obeying(A, Shorter(new[i], b))
    BY <1>2, <2>1, <2>2 DEF LeftReduced
  <2>4. PICK K \in C : K \notin Obeying(A, Shorter(new[i], b))
    BY <2>3
  <2>5. K \in SUBSET A /\ L \ {b} \subseteq K /\ ~ new[i].rhs \subseteq K
    <3>1. K \in SUBSET A
      BY DEF Closed, ClosedSets
    <3>2. Shorter(new[i], b).lhs = L \ {b} /\ Shorter(new[i], b).rhs = new[i].rhs
      BY <1>2, ShorterFacts
    <3>3. QED BY <2>4, <3>1, <3>2 DEF Obeying
  <2>6. J \subseteq K /\ J \in SUBSET A
    BY <1>2, <2>1, <2>5
  <2>7. D(J) \subseteq K
    <3> HIDE DEF D, C, A
    <3>1. QED BY <1>4, <2>6
  <2>8. R \subseteq K
    BY <1>6, <2>7 DEF Determines
  <2>9. QED BY <1>2, <2>5, <2>8
<1>7. L \subseteq UNION Keys(R, C)
  <2>1. L \in Keys(R, C)
    <3> HIDE DEF C
    <3>1. QED BY <1>2, <1>5, <1>6 DEF Keys
  <2>2. QED BY <2>1
<1>8. ASSUME NEW X \in SUBSET R, ~ Determines(X, R, C), NEW a \in R, a \in D(X), a \notin X, a \notin L
      PROVE  FALSE
  <2>1. PICK g \in DOMAIN new : new[g].lhs = L /\ a \in new[g].rhs
    BY <1>1, <1>8
  <2> DEFINE rest == RemoveAt(new, g)
             E == Closed(rest)
             F(S) == Determined(S, E)
  <2>2. /\ new[g].rhs = {a} /\ rest \in Seq(Dependency(A))
        /\ ~ E \subseteq Obeying(A, new[g])
        /\ C = E \intersect Obeying(A, new[g])
    <3>1. \E x : new[g].rhs = {x}
      BY CoverFacts
    <3>2. new[g].rhs = {a}
      BY <2>1, <3>1
    <3>3. QED BY <3>2, CoverFacts
  <2>3. X \in SUBSET A
    BY <1>3
  <2>4. ASSUME NEW S \in SUBSET A
        PROVE  /\ F(S) \in E /\ F(S) \subseteq A /\ S \subseteq F(S)
               /\ \A K \in E : S \subseteq K => F(S) \subseteq K
    <3>1. E = ClosedSets(A, rest)
      BY DEF Closed
    <3> HIDE DEF A, E, rest
    <3>2. QED BY <2>2, <3>1, DeterminedFacts
  <2>5. ~ L \subseteq D(X)
    <3>1. ASSUME L \subseteq D(X) PROVE FALSE
      <4>1. D(X) \in C /\ \A j \in DOMAIN new : new[j].lhs \subseteq D(X) => new[j].rhs \subseteq D(X)
        <5> HIDE DEF A, C, D
        <5>1. QED BY <1>4, <2>3
      <4> HIDE DEF C, D
      <4>2. R \subseteq D(X)
        BY <1>1, <3>1, <4>1
      <4>3. QED BY <1>8, <4>2 DEF Determines, D
    <3>2. QED BY <3>1
  \* Without the dependency X determines as much.
  <2>6. D(X) \subseteq F(X)
    <3>1. F(X) \in E /\ F(X) \subseteq A /\ X \subseteq F(X)
      <4> HIDE DEF A, E, F
      <4>1. QED BY <2>3, <2>4
    <3>2. F(X) \subseteq D(X)
      <4>1. D(X) \in C /\ X \subseteq D(X)
        <5> HIDE DEF A, C, D
        <5>1. QED BY <1>4, <2>3
      <4>2. D(X) \in E
        <5> HIDE DEF C, E, D
        <5>1. QED BY <2>2, <4>1
      <4> HIDE DEF A, C, D, E, F
      <4>3. QED BY <2>3, <2>4, <4>1, <4>2
    <3>3. F(X) \in Obeying(A, new[g])
      <4> HIDE DEF F, D
      <4>1. QED BY <2>1, <2>5, <3>1, <3>2 DEF Obeying
    <3>4. F(X) \in C
      <4> HIDE DEF F, D, C, E
      <4>1. QED BY <2>2, <3>1, <3>3
    <3> HIDE DEF A, C, D, E, F
    <3>5. QED BY <1>4, <2>3, <3>1, <3>4
  \* And the left side determines all of X without it.
  <2>7. X \subseteq F(L)
    <3>1. F(L) \in E /\ L \subseteq F(L)
      <4> HIDE DEF A, E, F, L
      <4>1. QED BY <1>2, <2>4
    <3>2. ASSUME NEW x \in X, x \notin L PROVE x \in F(L)
      <4>1. PICK h \in DOMAIN new : new[h].lhs = L /\ x \in new[h].rhs
        BY <1>1, <3>2
      <4>2. new[h] # new[g]
        BY <1>8, <2>2, <4>1
      <4>3. E \subseteq Obeying(A, new[h])
        <5> DEFINE t == RemoveAt(new, h)
        <5>1. g \in 1 .. Len(new) /\ h \in 1 .. Len(new) /\ g # h /\ new \in Seq(Dependency(A))
          BY <4>2, CoverFacts
        <5>2. \E j \in DOMAIN rest : rest[j] = new[h]
          BY <5>1, Remaining
        <5> HIDE DEF rest
        <5>3. QED BY <5>2 DEF Closed, ClosedSets, Obeying
      <4>4. new[h].rhs \subseteq F(L)
        <5>1. F(L) \in Obeying(A, new[h])
          <6> HIDE DEF F, E
          <6>1. QED BY <3>1, <4>3
        <5> HIDE DEF F, E
        <5>2. QED BY <3>1, <4>1, <5>1 DEF Obeying
      <4>5. QED BY <4>1, <4>4
    <3>3. QED BY <3>1, <3>2
  <2>8. a \in F(L)
    <3>1. F(L) \in E /\ F(L) \subseteq A
      <4> HIDE DEF A, E, F, L
      <4>1. QED BY <1>2, <2>4
    <3>2. F(X) \subseteq F(L)
      <4> HIDE DEF A, E, F, L
      <4>1. QED BY <2>3, <2>4, <2>7, <3>1
    <3> HIDE DEF F, D
    <3>3. QED BY <1>8, <2>6, <3>2
  <2>9. E \subseteq Obeying(A, new[g])
    <3>1. ASSUME NEW K \in E, L \subseteq K PROVE a \in K
      <4>1. F(L) \subseteq K
        <5> HIDE DEF A, E, F, L
        <5>1. QED BY <1>2, <2>4, <3>1
      <4> HIDE DEF F
      <4>2. QED BY <2>8, <4>1
    <3>2. E \subseteq SUBSET A
      BY DEF Closed, ClosedSets
    <3> HIDE DEF E
    <3>3. QED BY <2>1, <2>2, <3>1, <3>2 DEF Obeying
  <2>10. QED BY <2>2, <2>9
<1> HIDE DEF L
<1>9. QED BY <1>7, <1>8 DEF In3NF, L

\* A key is in third normal form on its own.
LEMMA KeyThird ==
    ASSUME NEW A, NEW C, NEW k \in Keys(A, C)
    PROVE  In3NF(k, C)
<1>1. /\ k \in (SUBSET A) \ {{}} /\ Determines(k, A, C)
      /\ \A J \in (SUBSET k) \ {{}, k} : ~ Determines(J, A, C)
  BY DEF Keys
<1>2. Determines(k, k, C)
  BY <1>1 DEF Determines
<1>3. ASSUME NEW J \in (SUBSET k) \ {{}, k}, Determines(J, k, C) PROVE FALSE
  <2>1. A \subseteq Determined(k, C) /\ k \subseteq Determined(J, C)
    BY <1>1, <1>3 DEF Determines
  <2>2. Determined(k, C) \subseteq Determined(J, C)
    BY <2>1 DEF Determined
  <2>3. QED BY <1>1, <2>1, <2>2 DEF Determines
<1>4. k \in Keys(k, C)
  BY <1>1, <1>2, <1>3 DEF Keys
<1>5. QED BY <1>4 DEF In3NF

\* Every relation returned is in third normal form.
LEMMA SchemasThird ==
    ASSUME Inv, job = "synthesis", pc = "done", Conditional, NEW R \in schemas
    PROVE  In3NF(R, Closed(fds))
<1>1. schemas \in {Groups(new)} \union {Groups(new) \union {k} : k \in keys}
  BY DEF Inv, Grouped
<1>2. KeysExact
  BY KeysFollow
<1>3. CASE R \in Groups(new)
  BY <1>3, GroupsThird
<1>4. CASE R \in keys
  <2>1. R \in Keys(all_attrs, Closed(fds))
    BY <1>2, <1>4 DEF KeysExact
  <2>2. QED BY <2>1, KeyThird
<1>5. QED BY <1>1, <1>3, <1>4

\* Each dependency of the cover is within a relation.
LEMMA SchemasCover ==
    ASSUME Inv, job = "synthesis", pc = "done", NEW i \in DOMAIN new
    PROVE  \E R \in schemas : new[i].lhs \subseteq R /\ new[i].rhs \subseteq R
<1>1. schemas \in {Groups(new)} \union {Groups(new) \union {k} : k \in keys}
  BY DEF Inv, Grouped
<1>2. Groups(new) \subseteq schemas
  BY <1>1
<1>3. QED BY <1>2, GroupsAre

\* No dependency is lost: each can be checked in the relation it is within.
LEMMA SchemasPreserve ==
    ASSUME Inv, job = "synthesis", pc = "done"
    PROVE  Preserving(schemas, all_attrs, Closed(fds))
<1> DEFINE A == all_attrs
           C == Closed(fds)
<1>1. new \in Seq(Dependency(A)) /\ ClosedSets(A, new) = C
  BY CoverFacts DEF Closed
<1>2. ASSUME NEW S \in SUBSET A
      PROVE  /\ S \subseteq Determined(S, C)
             /\ \A K \in C : S \subseteq K => Determined(S, C) \subseteq K
             /\ \A i \in DOMAIN new : new[i].lhs \subseteq Determined(S, C)
                                        => new[i].rhs \subseteq Determined(S, C)
  <2> HIDE DEF A, C
  <2>1. QED BY <1>1, DeterminedFacts
<1> HIDE DEF C
<1>3. ASSUME NEW S \in C
      PROVE  S \in SUBSET A /\ \A R \in schemas : Determined(S \intersect R, C) \intersect R \subseteq S
  <2>1. S \in SUBSET A
    BY <1>1 DEF ClosedSets
  <2>2. ASSUME NEW R \in schemas PROVE Determined(S \intersect R, C) \subseteq S
    <3>1. S \intersect R \in SUBSET A /\ S \intersect R \subseteq S
      BY <2>1
    <3>2. QED BY <1>2, <3>1
  <2>3. QED BY <2>1, <2>2
<1>4. ASSUME NEW S \in SUBSET A, \A R \in schemas : Determined(S \intersect R, C) \intersect R \subseteq S
      PROVE  S \in C
  <2>1. ASSUME NEW i \in DOMAIN new, new[i].lhs \subseteq S PROVE new[i].rhs \subseteq S
    <3>1. PICK R \in schemas : new[i].lhs \subseteq R /\ new[i].rhs \subseteq R
      BY SchemasCover
    <3> DEFINE Z == S \intersect R
    <3>2. Z \in SUBSET A /\ new[i].lhs \subseteq Z
      BY <2>1, <3>1
    <3> HIDE DEF Z
    <3>3. new[i].lhs \subseteq Determined(Z, C)
      BY <1>2, <3>2
    <3>4. new[i].rhs \subseteq Determined(Z, C)
      BY <1>2, <3>2, <3>3
    <3>5. QED BY <1>4, <3>1, <3>4 DEF Z
  <2>2. QED BY <1>1, <2>1 DEF ClosedSets
<1>5. C = {S \in SUBSET A : \A R \in schemas : Determined(S \intersect R, C) \intersect R \subseteq S}
  BY <1>3, <1>4
<1>6. QED BY <1>5 DEF Preserving, C

-----------------------------------------------------------------------------
(* The chase.                                                              *)

\* The attributes in which two rows agree.
Agreement(V, A, R, S) == {a \in A : V[R][a] = V[S][a]}

\* The rows satisfy the dependencies whose closed sets are C.
Obeys(V, rels, A, C) == \A R, S \in rels : Agreement(V, A, R, S) \in C

\* Each row holds the joined tuple's values where its relation has them.
Witnesses(V, rels, A) == \A R \in rels : \A a \in A : a \in R => V[R][a] = A

\* Some row then holds the joined tuple.
Joins(rels, A, C) ==
    \A V : Obeys(V, rels, A, C) /\ Witnesses(V, rels, A) =>
               \E R \in rels : \A a \in A : V[R][a] = A

\* The tableaux with given values.
Tableaux(rels, A, V) == [rels -> [A -> V]]

\* The values in the columns of a tableau.
Cells(T, rels, A, V) == {p \in A \X V : \E R \in rels : T[R][p[1]] = p[2]}

\* One step of the chase keeps the joined tuple's values and leaves a column
\* with a value less, unless nothing is forced.
LEMMA EquatedFacts ==
    ASSUME NEW A, NEW rels, NEW V, A \in V, NEW list \in Seq(Dependency(A)),
           NEW T \in Tableaux(rels, A, V)
    PROVE  /\ Equated(T, A, list) \in Tableaux(rels, A, V)
           /\ \A R \in rels, a \in A : T[R][a] = A => Equated(T, A, list)[R][a] = A
           /\ Forced(T, list) # {} =>
                 /\ Cells(Equated(T, A, list), rels, A, V) \subseteq Cells(T, rels, A, V)
                 /\ Cells(Equated(T, A, list), rels, A, V) # Cells(T, rels, A, V)
<1>0. T \in [rels -> [A -> V]]
  BY DEF Tableaux
<1>1. CASE Forced(T, list) = {}
  BY <1>1 DEF Equated
<1>2. CASE Forced(T, list) # {}
  <2> DEFINE f == CHOOSE f \in Forced(T, list) : T[f[2]][f[3]] # A
             same == T[f[1]][f[3]]
             gone == T[f[2]][f[3]]
             U == [R \in DOMAIN T |-> [T[R] EXCEPT ![f[3]] = IF @ = gone THEN same ELSE @]]
  <2>1. Equated(T, A, list) = U
    BY <1>2 DEF Equated
  <2>2. \A g \in Forced(T, list) : /\ g[1] \in rels /\ g[2] \in rels /\ g[3] \in A
                                   /\ T[g[1]][g[3]] # T[g[2]][g[3]]
                                   /\ <<g[2], g[1], g[3]>> \in Forced(T, list)
    <3> SUFFICES ASSUME NEW g \in Forced(T, list)
                 PROVE  /\ g[1] \in rels /\ g[2] \in rels /\ g[3] \in A
                        /\ T[g[1]][g[3]] # T[g[2]][g[3]]
                        /\ <<g[2], g[1], g[3]>> \in Forced(T, list)
      OBVIOUS
    <3> DEFINE B == UNION {fd.rhs : fd \in ToSet(list)}
    <3>1. /\ g \in rels \X rels \X B
          /\ T[g[1]][g[3]] # T[g[2]][g[3]]
          /\ \E i \in DOMAIN list : /\ g[3] \in list[i].rhs
                                    /\ \A b \in list[i].lhs : T[g[1]][b] = T[g[2]][b]
      BY <1>0 DEF Forced
    <3> HIDE DEF B
    <3>2. g[1] \in rels /\ g[2] \in rels /\ g[3] \in B
      BY <3>1
    <3>3. g[3] \in A
      <4>1. PICK i \in DOMAIN list : g[3] \in list[i].rhs
        BY <3>1
      <4>2. list[i].rhs \in SUBSET A
        BY SidesOf
      <4>3. QED BY <4>1, <4>2
    <3> DEFINE h == <<g[2], g[1], g[3]>>
    <3>4. h \in rels \X rels \X B /\ h[1] = g[2] /\ h[2] = g[1] /\ h[3] = g[3]
      BY <3>2
    <3> HIDE DEF h
    <3>5. /\ T[h[1]][h[3]] # T[h[2]][h[3]]
          /\ \E i \in DOMAIN list : /\ h[3] \in list[i].rhs
                                    /\ \A b \in list[i].lhs : T[h[1]][b] = T[h[2]][b]
      BY <3>1, <3>4
    <3>6. DOMAIN T = rels
      BY <1>0
    <3>7. h \in Forced(T, list)
      BY <3>4, <3>5, <3>6 DEF Forced, B
    <3>8. QED BY <3>1, <3>2, <3>3, <3>7 DEF h
  <2>3. \E g \in Forced(T, list) : T[g[2]][g[3]] # A
    <3>1. PICK g \in Forced(T, list) : TRUE
      BY <1>2
    <3> DEFINE h == <<g[2], g[1], g[3]>>
    <3>2. T[g[1]][g[3]] # T[g[2]][g[3]] /\ h \in Forced(T, list)
      BY <2>2
    <3>3. h[2] = g[1] /\ h[3] = g[3]
      OBVIOUS
    <3> HIDE DEF h
    <3>4. QED BY <3>2, <3>3
  <2>4. f \in Forced(T, list) /\ gone # A
    <3> DEFINE S == Forced(T, list)
               P(g) == T[g[2]][g[3]] # A
    <3>1. f = CHOOSE g \in S : P(g)
      OBVIOUS
    <3>2. \E g \in S : P(g)
      BY <2>3
    <3> HIDE DEF f, S, P
    <3>3. f \in S /\ P(f)
      BY <3>1, <3>2
    <3>4. QED BY <3>3 DEF S, P
  <2>5. f[1] \in rels /\ f[2] \in rels /\ f[3] \in A /\ same # gone
    <3> HIDE DEF f
    <3>1. QED BY <2>2, <2>4
  <2> HIDE DEF f
  <2>6. \A R \in rels, a \in A :
            U[R][a] = IF a = f[3] /\ T[R][a] = gone THEN same ELSE T[R][a]
    BY <1>0
  <2>7. same \in V /\ gone \in V
    BY <1>0, <2>5
  <2>8. U \in Tableaux(rels, A, V)
    BY <1>0, <2>5, <2>7 DEF Tableaux
  <2> HIDE DEF U, same, gone
  <2>9. \A R \in rels, a \in A : T[R][a] = A => U[R][a] = A
    BY <2>4, <2>6
  <2>10. Cells(U, rels, A, V) \subseteq Cells(T, rels, A, V)
    <3> SUFFICES ASSUME NEW p \in A \X V, NEW R \in rels, U[R][p[1]] = p[2]
                 PROVE  \E S \in rels : T[S][p[1]] = p[2]
      BY DEF Cells
    <3>1. p[1] \in A
      OBVIOUS
    <3>2. CASE p[1] = f[3] /\ T[R][p[1]] = gone
      BY <2>5, <2>6, <3>1, <3>2 DEF same
    <3>3. CASE ~ (p[1] = f[3] /\ T[R][p[1]] = gone)
      BY <2>6, <3>1, <3>3
    <3>4. QED BY <3>2, <3>3
  <2>11. /\ <<f[3], gone>> \in Cells(T, rels, A, V)
         /\ <<f[3], gone>> \notin Cells(U, rels, A, V)
    <3> DEFINE p == <<f[3], gone>>
    <3>1. p \in A \X V /\ p[1] = f[3] /\ p[2] = gone
      BY <2>5, <2>7
    <3> HIDE DEF p
    <3>2. T[f[2]][p[1]] = p[2]
      BY <3>1 DEF gone
    <3>3. \A R \in rels : U[R][p[1]] # p[2]
      BY <2>5, <2>6, <3>1
    <3>4. p \in Cells(T, rels, A, V)
      BY <2>5, <3>1, <3>2 DEF Cells
    <3>5. p \notin Cells(U, rels, A, V)
      BY <3>3 DEF Cells
    <3>6. QED BY <3>4, <3>5 DEF p
  <2>12. Cells(U, rels, A, V) # Cells(T, rels, A, V)
    BY <2>11
  <2>13. QED
    <3> HIDE DEF f
    <3>1. QED BY <2>1, <2>8, <2>9, <2>10, <2>12
<1>3. QED BY <1>1, <1>2

\* There are no more values than cells.
LEMMA CellsFew ==
    ASSUME NEW A, IsFiniteSet(A), NEW rels, IsFiniteSet(rels), NEW V,
           NEW T \in [rels -> [A -> V]]
    PROVE  /\ IsFiniteSet(Cells(T, rels, A, V))
           /\ Cardinality(Cells(T, rels, A, V)) <= Cardinality(rels) * Cardinality(A)
<1> DEFINE P == rels \X A
           Q == Cells(T, rels, A, V)
           g == [q \in P |-> <<q[2], T[q[1]][q[2]]>>]
<1>1. IsFiniteSet(P) /\ Cardinality(P) = Cardinality(rels) * Cardinality(A)
  BY FS_Product
<1>2. \A q \in P : q[1] \in rels /\ q[2] \in A /\ g[q] = <<q[2], T[q[1]][q[2]]>>
  OBVIOUS
<1>3. ASSUME NEW q \in P PROVE g[q] \in Q
  <2> DEFINE p == <<q[2], T[q[1]][q[2]]>>
  <2>1. p \in A \X V /\ p[1] = q[2] /\ p[2] = T[q[1]][q[2]]
    BY <1>2
  <2> HIDE DEF p
  <2>2. p \in Q
    BY <1>2, <2>1 DEF Cells
  <2>3. QED BY <1>2, <2>2 DEF p
<1>4. ASSUME NEW p \in Q PROVE \E q \in P : g[q] = p
  <2>1. p \in A \X V /\ \E R \in rels : T[R][p[1]] = p[2]
    BY DEF Cells
  <2>2. PICK R \in rels : T[R][p[1]] = p[2]
    BY <2>1
  <2> DEFINE q == <<R, p[1]>>
  <2>3. q \in P /\ q[1] = R /\ q[2] = p[1] /\ p = <<p[1], p[2]>>
    BY <2>1
  <2>4. g[q] = p
    <3> HIDE DEF q, P
    <3>1. g[q] = <<q[2], T[q[1]][q[2]]>>
      BY <2>3
    <3> HIDE DEF g
    <3>2. QED BY <2>2, <2>3, <3>1
  <2>5. QED BY <2>3, <2>4
<1>5. g \in [P -> Q]
  <2>1. g = [q \in P |-> g[q]]
    OBVIOUS
  <2> HIDE DEF P, Q, g
  <2>2. QED BY <1>3, <2>1
<1> HIDE DEF P, Q, g
<1>6. g \in Surjection(P, Q)
  BY <1>4, <1>5 DEF Surjection
<1>7. IsFiniteSet(Q) /\ Cardinality(Q) <= Cardinality(P)
  BY <1>1, <1>6, FS_Surjection
<1>8. QED BY <1>1, <1>7 DEF Q

\* The chase ends with rows that satisfy the dependencies and still hold the
\* joined tuple's values where they had them.
LEMMA ChaseEnds ==
    ASSUME NEW A, IsFiniteSet(A), NEW rels, IsFiniteSet(rels), NEW list \in Seq(Dependency(A))
    PROVE  LET T == Chase(Tableau(rels, A), A, list)
           IN Obeys(T, rels, A, ClosedSets(A, list)) /\ Witnesses(T, rels, A)
<1> DEFINE V == {A} \union rels
           X == Tableaux(rels, A, V)
           T0 == Tableau(rels, A)
           N == Cardinality(DOMAIN T0) * Cardinality(A)
           step == [T \in X |-> Equated(T, A, list)]
           Is(h) == h = [n \in 0 .. N |-> IF n = 0 THEN T0 ELSE Equated(h[n - 1], A, list)]
           h == CHOOSE h : Is(h)
           Size(T) == Cardinality(Cells(T, rels, A, V))
<1>1. Chase(T0, A, list) = h[N]
  BY DEF Chase
<1>2. DOMAIN T0 = rels /\ T0 \in X /\ \A R \in rels, a \in A : a \in R => T0[R][a] = A
  BY DEF Tableau, Tableaux
<1>3. N \in Nat /\ N = Cardinality(rels) * Cardinality(A)
  BY <1>2, FS_CardinalityType
<1> HIDE DEF N, T0
<1>4. A \in V
  OBVIOUS
<1> HIDE DEF V
<1>e. ASSUME NEW T \in X
      PROVE  /\ Equated(T, A, list) \in X
             /\ \A R \in rels, a \in A : T[R][a] = A => Equated(T, A, list)[R][a] = A
             /\ Forced(T, list) # {} =>
                   /\ Cells(Equated(T, A, list), rels, A, V) \subseteq Cells(T, rels, A, V)
                   /\ Cells(Equated(T, A, list), rels, A, V) # Cells(T, rels, A, V)
  BY <1>4, EquatedFacts
<1>5. \A T \in X : Equated(T, A, list) \in X
  BY <1>e
<1>6. \E g : Is(g)
  <2>1. step \in [X -> X]
    <3> HIDE DEF X
    <3>1. QED BY <1>5
  <2>2. PICK g : Iterates(X, T0, step, N, g)
    <3> HIDE DEF step, X
    <3>1. QED BY <1>2, <1>3, <2>1, Iteration
  <2>3. \A n \in 0 .. N : g[n] \in X
    <3> HIDE DEF step, X
    <3>1. QED BY <1>3, <2>2, IterationUnfolds
  <2>4. \A n \in 0 .. N : n # 0 => step[g[n - 1]] = Equated(g[n - 1], A, list)
    <3>1. \A n \in 0 .. N : n # 0 => n - 1 \in 0 .. N
      BY <1>3
    <3> HIDE DEF X
    <3>2. QED BY <2>3, <3>1
  <2>5. g = [n \in 0 .. N |-> IF n = 0 THEN T0 ELSE step[g[n - 1]]]
    BY <2>2 DEF Iterates
  <2>6. Is(g)
    <3> HIDE DEF step
    <3>1. QED BY <2>4, <2>5
  <2>7. QED BY <2>6
<1>7. h[0] = T0 /\ \A n \in Nat : n + 1 <= N => h[n + 1] = Equated(h[n], A, list)
  <2>1. h = [n \in 0 .. N |-> IF n = 0 THEN T0 ELSE Equated(h[n - 1], A, list)]
    BY <1>6
  <2> HIDE DEF h
  <2>2. h[0] = T0
    BY <1>3, <2>1
  <2>3. ASSUME NEW n \in Nat, n + 1 <= N PROVE h[n + 1] = Equated(h[n], A, list)
    <3>1. n + 1 \in 0 .. N /\ n + 1 # 0 /\ (n + 1) - 1 = n
      BY <1>3, <2>3
    <3>2. QED BY <2>1, <3>1
  <2>4. QED BY <2>2, <2>3
<1> HIDE DEF h
<1>8. \A T \in X : Size(T) \in Nat /\ Size(T) <= N /\ IsFiniteSet(Cells(T, rels, A, V))
  <2> SUFFICES ASSUME NEW T \in X
               PROVE  Size(T) \in Nat /\ Size(T) <= N /\ IsFiniteSet(Cells(T, rels, A, V))
    OBVIOUS
  <2>1. IsFiniteSet(Cells(T, rels, A, V)) /\ Cardinality(Cells(T, rels, A, V)) <= N
    BY <1>3, CellsFew DEF Tableaux
  <2>2. QED BY <2>1, FS_CardinalityType
\* Either nothing is forced any more or each step took a value away.
<1> DEFINE Good == {n \in Nat : n <= N =>
                      /\ h[n] \in X
                      /\ \A R \in rels, a \in A : a \in R => h[n][R][a] = A
                      /\ Forced(h[n], list) = {} \/ Size(h[n]) <= N - n}
<1>9. 0 \in Good
  <2> HIDE DEF X, Size
  <2>1. QED BY <1>2, <1>3, <1>7, <1>8
<1>10. ASSUME NEW n \in Nat, n \in Good PROVE n + 1 \in Good
  <2> SUFFICES ASSUME n + 1 <= N
               PROVE  /\ h[n + 1] \in X
                      /\ \A R \in rels, a \in A : a \in R => h[n + 1][R][a] = A
                      /\ Forced(h[n + 1], list) = {} \/ Size(h[n + 1]) <= N - (n + 1)
    OBVIOUS
  <2> DEFINE T == h[n]
             U == h[n + 1]
  <2>1. U = Equated(T, A, list) /\ n <= N
    BY <1>3, <1>7
  <2>2. /\ T \in X /\ \A R \in rels, a \in A : a \in R => T[R][a] = A
        /\ Forced(T, list) = {} \/ Size(T) <= N - n
    BY <1>10, <2>1
  <2> HIDE DEF T, U
  <2>3. /\ U \in X /\ \A R \in rels, a \in A : T[R][a] = A => U[R][a] = A
        /\ Forced(T, list) # {} => /\ Cells(U, rels, A, V) \subseteq Cells(T, rels, A, V)
                                   /\ Cells(U, rels, A, V) # Cells(T, rels, A, V)
    <3> HIDE DEF X
    <3>1. QED BY <1>e, <2>1, <2>2
  <2>4. CASE Forced(T, list) = {}
    <3>1. U = T
      BY <2>1, <2>4 DEF Equated
    <3> HIDE DEF X
    <3>2. QED BY <2>2, <2>4, <3>1 DEF T, U
  <2>5. CASE Forced(T, list) # {}
    <3>1. Size(U) < Size(T)
      <4>1. IsFiniteSet(Cells(T, rels, A, V))
        BY <1>8, <2>2
      <4>2. Cells(U, rels, A, V) \in SUBSET Cells(T, rels, A, V) /\ Cells(U, rels, A, V) # Cells(T, rels, A, V)
        BY <2>3, <2>5
      <4>3. Size(U) <= Size(T) /\ Size(U) # Size(T)
        BY <4>1, <4>2, FS_Subset
      <4>4. Size(T) \in Nat /\ Size(U) \in Nat
        <5> HIDE DEF X, Size
        <5>1. QED BY <1>8, <2>2, <2>3
      <4> HIDE DEF Size
      <4>5. QED BY <4>3, <4>4
    <3>2. Size(T) <= N - n /\ Size(T) \in Nat /\ Size(U) \in Nat
      <4> HIDE DEF X, Size
      <4>1. QED BY <1>8, <2>2, <2>3, <2>5
    <3>3. Size(U) <= N - (n + 1)
      <4> HIDE DEF Size
      <4>1. QED BY <1>3, <3>1, <3>2
    <3> HIDE DEF X, Size
    <3>4. QED BY <2>2, <2>3, <3>3 DEF T, U
  <2>6. QED BY <2>4, <2>5
<1> HIDE DEF Good
<1>11. N \in Good
  BY <1>3, <1>9, <1>10, Counting
<1> DEFINE T == h[N]
<1>12. /\ T \in X
       /\ \A R \in rels, a \in A : a \in R => T[R][a] = A
       /\ Forced(T, list) = {} \/ Size(T) <= N - N
  BY <1>3, <1>11 DEF Good
<1> HIDE DEF T
<1>13. Forced(T, list) = {}
  <2> SUFFICES ASSUME NEW g \in Forced(T, list) PROVE FALSE
    OBVIOUS
  <2>1. DOMAIN T = rels
    BY <1>12 DEF Tableaux
  <2> DEFINE B == UNION {fd.rhs : fd \in ToSet(list)}
  <2>2. /\ g \in rels \X rels \X B
        /\ \E i \in DOMAIN list : g[3] \in list[i].rhs
    BY <2>1 DEF Forced
  <2> HIDE DEF B
  <2>3. g[1] \in rels /\ g[3] \in A
    <3>1. PICK i \in DOMAIN list : g[3] \in list[i].rhs
      BY <2>2
    <3>2. list[i].rhs \in SUBSET A
      BY SidesOf
    <3>3. QED BY <2>2, <3>1, <3>2
  <2> DEFINE p == <<g[3], T[g[1]][g[3]]>>
  <2>4. p \in Cells(T, rels, A, V)
    <3>1. p \in A \X V /\ p[1] = g[3] /\ p[2] = T[g[1]][g[3]]
      BY <1>12, <2>3 DEF Tableaux
    <3> HIDE DEF p
    <3>2. QED BY <2>3, <3>1 DEF Cells
  <2>5. Size(T) = 0
    <3>1. Size(T) \in Nat
      <4> HIDE DEF X, Size
      <4>1. QED BY <1>8, <1>12
    <3>2. Size(T) <= 0
      <4> HIDE DEF Size
      <4>1. QED BY <1>3, <1>12
    <3> HIDE DEF Size
    <3>3. QED BY <3>1, <3>2
  <2>6. Cells(T, rels, A, V) = {}
    <3>1. IsFiniteSet(Cells(T, rels, A, V))
      BY <1>8, <1>12
    <3>2. QED BY <2>5, <3>1, FS_EmptySet
  <2>7. QED BY <2>4, <2>6
<1>14. ASSUME NEW R \in rels, NEW S \in rels
       PROVE  Agreement(T, A, R, S) \in ClosedSets(A, list)
  <2> SUFFICES ASSUME NEW i \in DOMAIN list, list[i].lhs \subseteq Agreement(T, A, R, S),
                      NEW a \in list[i].rhs
               PROVE  a \in Agreement(T, A, R, S)
    BY DEF ClosedSets, Agreement
  <2>1. list[i].rhs \in SUBSET A
    BY SidesOf
  <2> DEFINE g == <<R, S, a>>
             B == UNION {fd.rhs : fd \in ToSet(list)}
  <2>2. a \in B
    BY DEF ToSet
  <2>3. g \in (DOMAIN T) \X (DOMAIN T) \X B /\ g[1] = R /\ g[2] = S /\ g[3] = a
    <3>1. DOMAIN T = rels
      BY <1>12 DEF Tableaux
    <3> HIDE DEF B
    <3>2. QED BY <2>2, <3>1
  <2> HIDE DEF g
  <2>4. \A b \in list[i].lhs : T[R][b] = T[S][b]
    BY DEF Agreement
  <2>5. T[R][a] = T[S][a]
    <3>1. ASSUME T[R][a] # T[S][a] PROVE FALSE
      <4>1. g \in Forced(T, list)
        BY <2>3, <2>4, <3>1 DEF Forced
      <4>2. QED BY <1>13, <4>1
    <3>2. QED BY <3>1
  <2>6. QED BY <2>1, <2>5 DEF Agreement
<1>15. QED BY <1>1, <1>12, <1>14 DEF Obeys, Witnesses, T, T0

\* So the chase answers for all rows there could be.
LEMMA ChaseExact ==
    ASSUME NEW A, IsFiniteSet(A), NEW rels, IsFiniteSet(rels), NEW list \in Seq(Dependency(A)),
           Joins(rels, A, ClosedSets(A, list))
    PROVE  Lossless(rels, A, list)
<1> DEFINE T == Chase(Tableau(rels, A), A, list)
<1>1. Obeys(T, rels, A, ClosedSets(A, list)) /\ Witnesses(T, rels, A)
  BY ChaseEnds
<1> HIDE DEF T
<1>2. \E R \in rels : \A a \in A : T[R][a] = A
  BY <1>1 DEF Joins
<1>3. QED BY <1>2 DEF Lossless, T

\* What decompose_3nf returns joins to what it was given: a relation with a
\* key grows, by the dependencies that the others hold, to a whole tuple.
LEMMA SchemasLossless ==
    ASSUME Inv, job = "synthesis", pc = "done"
    PROVE  Lossless(schemas, all_attrs, fds)
<1> DEFINE A == all_attrs
           C == Closed(fds)
<1>1. new \in Seq(Dependency(A)) /\ ClosedSets(A, new) = C
  BY CoverFacts DEF Closed
<1>2. PICK Z \in schemas, k \in keys : k \subseteq Z
  BY DEF Inv, Grouped, has_key
<1>3. k \in SUBSET A /\ Determines(k, A, C)
  BY KeysFollow DEF KeysExact, Keys
<1>4. ASSUME NEW V, Obeys(V, schemas, A, C), Witnesses(V, schemas, A)
      PROVE  \E R \in schemas : \A a \in A : V[R][a] = A
  <2> DEFINE D == {a \in A : V[Z][a] = A}
  <2>1. k \subseteq D
    BY <1>2, <1>3, <1>4 DEF Witnesses
  <2>2. ASSUME NEW i \in DOMAIN new, new[i].lhs \subseteq D PROVE new[i].rhs \subseteq D
    <3>1. PICK R \in schemas : new[i].lhs \subseteq R /\ new[i].rhs \subseteq R
      BY SchemasCover
    <3>2. new[i].lhs \in SUBSET A /\ new[i].rhs \in SUBSET A
      BY <1>1, SidesOf
    <3>3. \A a \in A : a \in R => V[R][a] = A
      BY <1>4 DEF Witnesses
    <3> DEFINE G == Agreement(V, A, Z, R)
    <3>4. G \in C
      BY <1>4 DEF Obeys
    <3>5. new[i].lhs \subseteq G
      BY <2>2, <3>1, <3>2, <3>3 DEF Agreement
    <3>6. new[i].rhs \subseteq G
      <4> HIDE DEF G
      <4>1. QED BY <1>1, <3>4, <3>5 DEF ClosedSets
    <3>7. QED BY <3>1, <3>2, <3>3, <3>6 DEF Agreement
  <2>3. D \in C
    <3>1. D \in SUBSET A
      OBVIOUS
    <3> HIDE DEF D, C
    <3>2. QED BY <1>1, <2>2, <3>1 DEF ClosedSets
  <2>4. A \subseteq D
    <3> HIDE DEF D, C
    <3>1. QED BY <1>3, <2>1, <2>3 DEF Determines, Determined
  <2>5. QED BY <2>4
<1>5. Joins(schemas, A, C)
  BY <1>4 DEF Joins
<1>6. IsFiniteSet(schemas)
  <2>1. schemas \subseteq SUBSET A
    <3>1. schemas \in {Groups(new)} \union {Groups(new) \union {h} : h \in keys}
      BY DEF Inv, Grouped
    <3>2. \A h \in keys : h \in SUBSET A
      BY KeysFollow DEF KeysExact, Keys
    <3>3. \A R \in Groups(new) : R \subseteq A
      <4> SUFFICES ASSUME NEW R \in Groups(new), NEW a \in R PROVE a \in A
        OBVIOUS
      <4>1. PICK i \in DOMAIN new :
              \/ a \in new[i].lhs
              \/ \E j \in DOMAIN new : new[j].lhs = new[i].lhs /\ a \in new[j].rhs
        BY GroupsAre
      <4>2. \A j \in DOMAIN new : new[j].lhs \in SUBSET A /\ new[j].rhs \in SUBSET A
        BY <1>1, SidesOf
      <4>3. QED BY <4>1, <4>2
    <3>4. QED BY <3>1, <3>2, <3>3
  <2>2. IsFiniteSet(A)
    BY FewAttributes DEF Inv
  <2> HIDE DEF A
  <2>3. IsFiniteSet(SUBSET A)
    BY <2>2, FS_SUBSET
  <2>4. QED BY <2>1, <2>3, FS_Subset
<1>7. fds \in Seq(Dependency(A)) /\ IsFiniteSet(A)
  BY FewAttributes DEF Inv, Typed
<1>8. C = ClosedSets(A, fds)
  BY DEF Closed
<1> HIDE DEF A, C
<1>9. Lossless(schemas, A, fds)
  BY <1>5, <1>6, <1>7, <1>8, ChaseExact
<1>10. QED BY <1>9 DEF A

\* The relations are then what a synthesis promises.
LEMMA SynthesisFollows == Inv => SynthesisSound
<1> SUFFICES ASSUME Inv, pc = "done", job = "synthesis", Conditional
             PROVE  /\ \A R \in schemas : In3NF(R, Closed(fds))
                    /\ Lossless(schemas, all_attrs, fds)
                    /\ Preserving(schemas, all_attrs, Closed(fds))
  BY DEF SynthesisSound
<1>1. QED BY SchemasThird, SchemasLossless, SchemasPreserve

\* decompose_3nf returns relations in third normal form that join to the
\* given one and keep its dependencies.
THEOREM SynthesisAlwaysSound == Spec => []SynthesisSound
BY InvariantHolds, SynthesisFollows, PTL

-----------------------------------------------------------------------------
(* decompose_bcnf.                                                         *)

\* A dependency kept if it lies within a relation.
KeptWithin(kept, fd, attrs) ==
    IF fd.lhs \subseteq attrs /\ fd.rhs \subseteq attrs THEN Append(kept, fd) ELSE kept

\* What Within finds are dependencies of the list that lie within.
LEMMA WithinExact ==
    ASSUME NEW S, NEW list \in Seq(S), NEW attrs
    PROVE  Within(list, attrs) \in
               Seq({fd \in S : /\ fd.lhs \subseteq attrs /\ fd.rhs \subseteq attrs
                               /\ \E j \in DOMAIN list : fd = list[j]})
<1> DEFINE n == Len(list)
           E == {fd \in S : /\ fd.lhs \subseteq attrs /\ fd.rhs \subseteq attrs
                            /\ \E j \in DOMAIN list : fd = list[j]}
           X == Seq(E)
           step == [p \in (1 .. n) \X X |-> KeptWithin(p[2], list[p[1]], attrs)]
           Is(h) == h = [s \in SUBSET DOMAIN list |->
                           IF s = {} THEN <<>>
                           ELSE KeptWithin(h[s \ {Max(s)}], list[Max(s)], attrs)]
           h == CHOOSE h : Is(h)
<1>1. n \in Nat /\ DOMAIN list = 1 .. n /\ \A i \in 1 .. n : list[i] \in S
  OBVIOUS
<1>2. Within(list, attrs) = h[DOMAIN list]
  BY DEF Within, FoldLeft, MapThenFoldSet, KeptWithin
<1> HIDE DEF n
<1>3. ASSUME NEW i \in 1 .. n, NEW kept \in X PROVE KeptWithin(kept, list[i], attrs) \in X
  <2>1. CASE list[i].lhs \subseteq attrs /\ list[i].rhs \subseteq attrs
    <3>1. list[i] \in E
      BY <1>1, <2>1
    <3> HIDE DEF E
    <3>2. Append(kept, list[i]) \in X
      BY <3>1, AppendProperties
    <3>3. QED BY <2>1, <3>2 DEF KeptWithin
  <2>2. CASE ~ (list[i].lhs \subseteq attrs /\ list[i].rhs \subseteq attrs)
    BY <2>2 DEF KeptWithin
  <2>3. QED BY <2>1, <2>2
<1>4. <<>> \in X
  OBVIOUS
<1> HIDE DEF E, X
<1>5. \E g : Is(g)
  <2>1. step \in [(1 .. n) \X X -> X]
    BY <1>3
  <2>2. PICK g : FoldsUp(X, <<>>, step, n, g)
    <3> HIDE DEF step
    <3>1. QED BY <1>1, <1>4, <2>1, FoldingUp
  <2>3. \A s \in SUBSET (1 .. n) : s # {} =>
            step[<<Max(s), g[s \ {Max(s)}]>>] = KeptWithin(g[s \ {Max(s)}], list[Max(s)], attrs)
    <3> SUFFICES ASSUME NEW s \in SUBSET (1 .. n), s # {}
                 PROVE  step[<<Max(s), g[s \ {Max(s)}]>>]
                          = KeptWithin(g[s \ {Max(s)}], list[Max(s)], attrs)
      OBVIOUS
    <3>1. Max(s) \in 1 .. n
      BY <1>1, MaxOfSome
    <3>2. g[s \ {Max(s)}] \in X
      <4>1. s \ {Max(s)} \in SUBSET (1 .. n)
        OBVIOUS
      <4>2. QED BY <2>2, <4>1 DEF FoldsUp
    <3>3. QED BY <3>1, <3>2
  <2>4. g = [s \in SUBSET (1 .. n) |->
               IF s = {} THEN <<>> ELSE step[<<Max(s), g[s \ {Max(s)}]>>]]
    BY <2>2 DEF FoldsUp
  <2>5. Is(g)
    <3> HIDE DEF step
    <3>1. QED BY <1>1, <2>3, <2>4
  <2>6. QED BY <2>5
<1>6. h = [s \in SUBSET (1 .. n) |->
             IF s = {} THEN <<>> ELSE KeptWithin(h[s \ {Max(s)}], list[Max(s)], attrs)]
  <2>1. Is(h)
    BY <1>5
  <2> HIDE DEF h
  <2>2. QED BY <1>1, <2>1
<1> HIDE DEF h
<1> DEFINE Good == {i \in Nat : i <= n => h[1 .. i] \in X}
<1>7. 0 \in Good
  BY <1>1, <1>4, <1>6, IntervalSteps
<1>8. ASSUME NEW i \in Nat, i \in Good PROVE i + 1 \in Good
  <2> SUFFICES ASSUME i + 1 <= n PROVE h[1 .. i + 1] \in X
    OBVIOUS
  <2>1. i + 1 \in 1 .. n /\ (i + 1) - 1 = i /\ i <= n
    BY <1>1
  <2> DEFINE s == 1 .. i + 1
             r == 1 .. i
  <2>2. s \in SUBSET (1 .. n) /\ s # {} /\ Max(s) = i + 1 /\ s \ {i + 1} = r
    BY <1>1, <2>1, IntervalSteps
  <2>3. h[r] \in X
    BY <1>8, <2>1
  <2> HIDE DEF s, r
  <2>4. h[s] = KeptWithin(h[r], list[i + 1], attrs)
    BY <1>6, <2>2
  <2>5. QED BY <1>3, <2>1, <2>3, <2>4 DEF s
<1> HIDE DEF Good
<1>9. n \in Good
  BY <1>1, <1>7, <1>8, Counting
<1>10. QED BY <1>1, <1>2, <1>9 DEF Good, X, E

\* A set of positions that is not empty has a first.
LEMMA FirstOfSome ==
    ASSUME NEW n \in Nat, NEW s \in SUBSET (1 .. n), s # {}
    PROVE  \E i \in s : \A j \in s : i <= j
<1> DEFINE Topped == {m \in Nat : \A t \in SUBSET (1 .. m) :
                        t # {} => \E x \in t : \A y \in t : x <= y}
<1>1. 0 \in Topped
  <2>1. 1 .. 0 = {}
    OBVIOUS
  <2>2. QED BY <2>1
<1>2. ASSUME NEW m \in Nat, m \in Topped PROVE m + 1 \in Topped
  <2> SUFFICES ASSUME NEW t \in SUBSET (1 .. m + 1), t # {}
               PROVE  \E x \in t : \A y \in t : x <= y
    OBVIOUS
  <2>1. CASE t = {m + 1}
    BY <2>1
  <2>2. CASE t # {m + 1}
    <3> DEFINE u == t \ {m + 1}
    <3>1. u \in SUBSET (1 .. m) /\ u # {}
      BY <2>2
    <3>2. PICK x \in u : \A y \in u : x <= y
      BY <1>2, <3>1
    <3>3. x <= m + 1 /\ x \in t
      BY <3>1
    <3>4. QED BY <3>2, <3>3
  <2>3. QED BY <2>1, <2>2
<1>3. n \in Topped
  <2> HIDE DEF Topped
  <2>1. QED BY <1>1, <1>2, Counting
<1>4. QED BY <1>3

\* The last element of a sequence and the others.
LEMMA FrontAndLast ==
    ASSUME NEW S, NEW s \in Seq(S), s # <<>>
    PROVE  /\ Front(s) \in Seq(S) /\ Last(s) \in S
           /\ ToSet(s) = ToSet(Front(s)) \union {Last(s)}
<1> DEFINE n == Len(s)
           f == SubSeq(s, 1, n - 1)
<1>1. n \in Nat /\ n >= 1 /\ DOMAIN s = 1 .. n /\ \A i \in 1 .. n : s[i] \in S
  <2>1. n \in Nat \ {0}
    BY EmptySeq
  <2>2. QED BY <2>1
<1>2. /\ f \in Seq(S) /\ Len(f) = n - 1
      /\ \A i \in 1 .. n - 1 : f[i] = s[i]
  <2>1. \A i \in 1 .. n - 1 : s[i] \in S
    BY <1>1
  <2>2. /\ f \in Seq(S) /\ Len(f) = IF 1 <= n - 1 THEN (n - 1) - 1 + 1 ELSE 0
        /\ \A i \in 1 .. (n - 1) - 1 + 1 : f[i] = s[1 + i - 1]
    BY <1>1, <2>1, SubSeqProperties
  <2> HIDE DEF f, n
  <2>3. QED BY <1>1, <2>2
<1> HIDE DEF f, n
<1>3. DOMAIN f = 1 .. n - 1 /\ 1 .. n = (1 .. n - 1) \union {n}
  BY <1>1, <1>2
<1>4. ToSet(s) = ToSet(f) \union {s[n]}
  BY <1>1, <1>2, <1>3 DEF ToSet
<1>5. QED BY <1>1, <1>2, <1>4 DEF Front, Last, f, n

\* P is split by a dependency that holds where the closed sets are C.
SplitBy(P, r1, r2, lhs, rhs, A, C) ==
    /\ lhs \in SUBSET A /\ rhs \in SUBSET A
    /\ \A K \in C : lhs \subseteq K => rhs \subseteq K
    /\ lhs \subseteq r1 /\ rhs \subseteq r1 /\ lhs \subseteq r2 /\ P \subseteq r2 \union rhs

\* A relation split by a dependency that holds joins from its two parts.
LEMMA JoinsSplit ==
    ASSUME NEW A, NEW C, NEW before, NEW after, NEW P, NEW r1 \in after, NEW r2 \in after,
           NEW lhs, NEW rhs, SplitBy(P, r1, r2, lhs, rhs, A, C),
           Joins(before, A, C), before \subseteq after \union {P}
    PROVE  Joins(after, A, C)
<1>0. /\ lhs \in SUBSET A /\ rhs \in SUBSET A
      /\ \A K \in C : lhs \subseteq K => rhs \subseteq K
      /\ lhs \subseteq r1 /\ rhs \subseteq r1 /\ lhs \subseteq r2 /\ P \subseteq r2 \union rhs
  BY DEF SplitBy
<1> SUFFICES ASSUME NEW W, Obeys(W, after, A, C), Witnesses(W, after, A)
             PROVE  \E R \in after : \A a \in A : W[R][a] = A
  BY DEF Joins
<1> DEFINE row(R) == IF R \in after THEN R ELSE r2
           V == [R \in before |-> W[row(R)]]
<1>1. \A R : row(R) \in after
  OBVIOUS
<1>2. \A R \in before : V[R] = W[row(R)]
  OBVIOUS
<1>3. ASSUME NEW R \in before, NEW S \in before PROVE Agreement(V, A, R, S) \in C
  <2>1. Agreement(V, A, R, S) = Agreement(W, A, row(R), row(S))
    <3> HIDE DEF V, row
    <3>1. QED BY <1>2 DEF Agreement
  <2> HIDE DEF row
  <2>2. QED BY <1>1, <2>1 DEF Obeys
<1>4. ASSUME NEW a \in A, a \in P PROVE W[r2][a] = A
  <2> DEFINE G == Agreement(W, A, r1, r2)
  <2>1. G \in C
    BY DEF Obeys
  <2>2. \A b \in lhs : W[r1][b] = A /\ W[r2][b] = A
    BY <1>0 DEF Witnesses
  <2>3. lhs \subseteq G
    BY <1>0, <2>2 DEF Agreement
  <2>4. rhs \subseteq G
    <3> HIDE DEF G
    <3>1. QED BY <1>0, <2>1, <2>3
  <2>5. CASE a \in r2
    BY <2>5 DEF Witnesses
  <2>6. CASE a \in rhs
    <3>1. W[r1][a] = A
      BY <1>0, <2>6 DEF Witnesses
    <3>2. W[r1][a] = W[r2][a]
      BY <1>0, <2>4, <2>6 DEF Agreement
    <3>3. QED BY <3>1, <3>2
  <2>7. QED BY <1>0, <1>4, <2>5, <2>6
<1>5. ASSUME NEW R \in before, NEW a \in A, a \in R PROVE V[R][a] = A
  <2>1. CASE R \in after
    BY <1>2, <1>5, <2>1 DEF Witnesses
  <2>2. CASE R \notin after
    <3>1. R = P /\ row(R) = r2
      BY <2>2
    <3> HIDE DEF row, V
    <3>2. QED BY <1>2, <1>4, <1>5, <3>1
  <2>3. QED BY <2>1, <2>2
<1> HIDE DEF V, row
<1>6. PICK R \in before : \A a \in A : V[R][a] = A
  BY <1>3, <1>5 DEF Joins, Obeys, Witnesses
<1>7. QED BY <1>1, <1>2, <1>6

\* A relation of decompose_bcnf, with dependencies of the given ones within it.
Part == {part \in [attrs : SUBSET all_attrs, fds : Seq(Dependency(all_attrs))] :
           \A i \in DOMAIN part.fds : /\ part.fds[i].lhs \subseteq part.attrs
                                      /\ part.fds[i].rhs \subseteq part.attrs
                                      /\ \E j \in DOMAIN fds : part.fds[i] = fds[j]}

\* The relations still to be split and those done join to the given one.
Splitting ==
    job = "bcnf" =>
        /\ queue \in Seq(Part) /\ relations \subseteq Part
        /\ Disjoint => Joins(Parts, all_attrs, Closed(fds))

\* The one relation given is split into itself.
LEMMA SplittingInit == Init => Splitting
<1> SUFFICES ASSUME Init, job = "bcnf" PROVE Splitting
  BY DEF Splitting
<1> DEFINE part == [attrs |-> all_attrs, fds |-> fds]
<1>1. relations = {} /\ queue = <<part>>
  BY DEF Init
<1>2. fds \in Seq(Dependency(all_attrs))
  BY TypedInit DEF Typed
<1>3. part \in Part
  BY <1>2, SidesOf DEF Part
<1>4. queue \in Seq(Part) /\ ToSet(queue) = {part}
  <2> HIDE DEF part
  <2>1. queue \in Seq(Part) /\ DOMAIN queue = {1} /\ queue[1] = part
    BY <1>1, <1>3
  <2>2. QED BY <2>1 DEF ToSet
<1>5. Parts = {all_attrs}
  BY <1>1, <1>4 DEF Parts
<1>6. Joins(Parts, all_attrs, Closed(fds))
  BY <1>5 DEF Joins, Witnesses
<1>7. QED BY <1>1, <1>4, <1>6 DEF Splitting

\* What the first dependency in violation is.
LEMMA ViolatorFacts ==
    ASSUME NEW part \in Part, ~ is_bcnf(part.attrs, part.fds)
    PROVE  \E i \in DOMAIN part.fds : Violator(part) = part.fds[i]
<1> DEFINE W == Violators(part.attrs, part.fds)
<1>1. W # {} /\ W \subseteq DOMAIN part.fds
  BY DEF is_bcnf, Violators
<1>2. part.fds \in Seq(Dependency(all_attrs))
  BY DEF Part
<1>3. Len(part.fds) \in Nat /\ DOMAIN part.fds = 1 .. Len(part.fds)
  BY <1>2, LenProperties
<1> HIDE DEF W
<1>4. \E i \in W : \A j \in W : i <= j
  BY <1>1, <1>3, FirstOfSome
<1>5. QED BY <1>1, <1>4 DEF Violator, W

\* The part of a relation within some of its attributes.
LEMMA PartWithin ==
    ASSUME NEW part \in Part, NEW r \in SUBSET all_attrs
    PROVE  [attrs |-> r, fds |-> Within(part.fds, r)] \in Part
<1> DEFINE D == Dependency(all_attrs)
           E == {fd \in D : /\ fd.lhs \subseteq r /\ fd.rhs \subseteq r
                            /\ \E j \in DOMAIN part.fds : fd = part.fds[j]}
           w == Within(part.fds, r)
<1>1. part.fds \in Seq(D)
  BY DEF Part
<1>2. w \in Seq(E)
  <2> HIDE DEF D
  <2>1. QED BY <1>1, WithinExact
<1>3. w \in Seq(D)
  <2>1. E \subseteq D
    OBVIOUS
  <2> HIDE DEF D, E, w
  <2>2. QED BY <1>2, <2>1, SeqMonotonic
<1>4. ASSUME NEW i \in DOMAIN w
      PROVE  w[i].lhs \subseteq r /\ w[i].rhs \subseteq r /\ \E j \in DOMAIN fds : w[i] = fds[j]
  <2>1. w[i] \in E
    <3> HIDE DEF E, w
    <3>1. QED BY <1>2
  <2>2. PICK j \in DOMAIN part.fds : w[i] = part.fds[j]
    BY <2>1
  <2>3. \E k \in DOMAIN fds : part.fds[j] = fds[k]
    BY DEF Part
  <2>4. QED BY <2>1, <2>2, <2>3
<1> HIDE DEF w
<1>5. QED BY <1>3, <1>4 DEF Part, w

\* Splitting a relation, or keeping it, keeps what was split joinable.
LEMMA SplittingStep == Typed /\ Splitting /\ [Next]_vars => Splitting'
<1> SUFFICES ASSUME Typed, Splitting, [Next]_vars, job = "bcnf" PROVE Splitting'
  BY DEF Next, Judge, Reduce, EndPass, RemoveRedundant, Group, VisitSuperkey, AddKey,
         Split, Keep, EndSplits, Finished, vars, coverVars, Splitting
<1>0. UNCHANGED <<job, all_attrs, fds>>
  BY DEF Next, Judge, Reduce, EndPass, RemoveRedundant, Group, VisitSuperkey, AddKey,
         Split, Keep, EndSplits, Finished, vars, coverVars
<1>1. queue \in Seq(Part) /\ relations \subseteq Part /\ Part' = Part
  BY <1>0 DEF Splitting, Part
<1>2. Disjoint => Joins(Parts, all_attrs, Closed(fds))
  BY DEF Splitting
<1>3. Disjoint' = Disjoint /\ Closed(fds)' = Closed(fds)
  BY <1>0 DEF Disjoint, Closed
<1>4. CASE Split
  <2> DEFINE part == Last(queue)
             front == Front(queue)
             fd == Violator(part)
             r1 == R1(fd)
             r2 == R2(part.attrs, fd)
             p1 == [attrs |-> r1, fds |-> Within(part.fds, r1)]
             p2 == [attrs |-> r2, fds |-> Within(part.fds, r2)]
             two == <<p1, p2>>
  <2>1. /\ queue # <<>> /\ ~ is_bcnf(part.attrs, part.fds)
        /\ queue' = front \o two /\ relations' = relations
    BY <1>4 DEF Split
  <2>2. part \in Part /\ front \in Seq(Part) /\ ToSet(queue) = ToSet(front) \union {part}
    BY <1>1, <2>1, FrontAndLast
  <2>3. PICK i \in DOMAIN part.fds : fd = part.fds[i]
    <3> HIDE DEF part
    <3>1. QED BY <2>1, <2>2, ViolatorFacts
  <2>4. /\ fd.lhs \subseteq part.attrs /\ fd.rhs \subseteq part.attrs /\ part.attrs \in SUBSET all_attrs
        /\ \E j \in DOMAIN fds : fd = fds[j]
    BY <2>2, <2>3 DEF Part
  <2> HIDE DEF part, fd, front
  <2>5. r1 \in SUBSET all_attrs /\ r2 \in SUBSET all_attrs
    BY <2>4 DEF R1, R2
  <2>6. p1 \in Part /\ p2 \in Part /\ p1.attrs = r1 /\ p2.attrs = r2
    <3>1. p1.attrs = r1 /\ p2.attrs = r2
      OBVIOUS
    <3> HIDE DEF r1, r2
    <3>2. QED BY <2>2, <2>5, <3>1, PartWithin
  <2> HIDE DEF p1, p2
  <2>7. two \in Seq(Part) /\ ToSet(two) = {p1, p2}
    <3>1. two \in Seq(Part) /\ DOMAIN two = {1, 2} /\ two[1] = p1 /\ two[2] = p2
      BY <2>6
    <3> HIDE DEF two
    <3>2. QED BY <3>1 DEF ToSet
  <2> HIDE DEF two
  <2>8. queue' \in Seq(Part)
    BY <2>1, <2>2, <2>7, ConcatProperties
  <2>9. ToSet(queue') = ToSet(front) \union {p1, p2}
    BY <2>1, <2>2, <2>7, ElementsConcat
  <2>10. ASSUME Disjoint PROVE Joins(Parts', all_attrs, Closed(fds))
    <3>1. Parts = {q.attrs : q \in relations \union ToSet(front) \union {part}}
      BY <2>2 DEF Parts
    <3>2. Parts' = {q.attrs : q \in relations \union ToSet(front) \union {p1, p2}}
      BY <2>1, <2>9 DEF Parts
    <3>3. r1 \in Parts' /\ r2 \in Parts' /\ Parts \subseteq Parts' \union {part.attrs}
      <4> HIDE DEF r1, r2
      <4>1. QED BY <2>6, <3>1, <3>2
    <3>4. fd.lhs \intersect fd.rhs = {}
      BY <2>4, <2>10 DEF Disjoint
    <3>5. /\ fd.lhs \subseteq r1 /\ fd.rhs \subseteq r1 /\ fd.lhs \subseteq r2
          /\ part.attrs \subseteq r2 \union fd.rhs
      BY <2>4, <3>4 DEF R1, R2
    <3>6. \A K \in Closed(fds) : fd.lhs \subseteq K => fd.rhs \subseteq K
      BY <2>4 DEF Closed, ClosedSets
    <3>7. fd.lhs \in SUBSET all_attrs /\ fd.rhs \in SUBSET all_attrs
      BY <2>4
    <3>8. Joins(Parts, all_attrs, Closed(fds))
      BY <1>2, <2>10
    <3> DEFINE before == Parts
               after == Parts'
               C == Closed(fds)
               P == part.attrs
               lhs == fd.lhs
               rhs == fd.rhs
    <3> HIDE DEF before, after, C, P, r1, r2, lhs, rhs
    <3>9. Joins(after, all_attrs, C)
      <4>1. /\ r1 \in after /\ r2 \in after /\ before \subseteq after \union {P}
            /\ Joins(before, all_attrs, C)
        BY <3>3, <3>8 DEF before, after, C, P
      <4>2. SplitBy(P, r1, r2, lhs, rhs, all_attrs, C)
        BY <3>5, <3>6, <3>7 DEF SplitBy, C, P, lhs, rhs
      <4>3. QED BY <4>1, <4>2, JoinsSplit
    <3>10. QED BY <3>9 DEF after, C
  <2>11. QED BY <1>0, <1>1, <1>3, <2>1, <2>8, <2>10 DEF Splitting
<1>5. CASE Keep
  <2> DEFINE part == Last(queue)
             front == Front(queue)
  <2>1. queue # <<>> /\ queue' = front /\ relations' = relations \union {part}
    BY <1>5 DEF Keep
  <2>2. part \in Part /\ front \in Seq(Part) /\ ToSet(queue) = ToSet(front) \union {part}
    BY <1>1, <2>1, FrontAndLast
  <2> HIDE DEF part, front
  <2>3. Parts' = Parts
    <3>1. relations' \union ToSet(queue') = relations \union ToSet(queue)
      BY <2>1, <2>2
    <3>2. QED BY <3>1 DEF Parts
  <2>4. QED BY <1>0, <1>1, <1>2, <1>3, <2>1, <2>2, <2>3 DEF Splitting
<1>6. CASE UNCHANGED bcnfVars
  <2>1. queue' = queue /\ relations' = relations
    BY <1>6 DEF bcnfVars
  <2>2. Parts' = Parts
    BY <2>1 DEF Parts
  <2>3. QED BY <1>0, <1>1, <1>2, <1>3, <2>1, <2>2 DEF Splitting
<1>7. QED
  BY <1>4, <1>5, <1>6 DEF Next, Judge, Reduce, EndPass, RemoveRedundant, Group, VisitSuperkey,
        AddKey, EndSplits, Finished, vars

\* What is left when nothing is to be split joins to the relation given.
LEMMA SplitsFollow == Typed /\ Splitting => SplitsLossless
<1> SUFFICES ASSUME Typed, Splitting, job = "bcnf", Disjoint
             PROVE  Lossless(Parts, all_attrs, fds)
  BY DEF SplitsLossless
<1>1. Joins(Parts, all_attrs, Closed(fds))
  BY DEF Splitting
<1>2. Parts \subseteq SUBSET all_attrs
  <2>1. queue \in Seq(Part) /\ relations \subseteq Part
    BY DEF Splitting
  <2>2. ToSet(queue) \subseteq Part
    BY <2>1 DEF ToSet
  <2>3. \A part \in Part : part.attrs \in SUBSET all_attrs
    BY DEF Part
  <2>4. QED BY <2>1, <2>2, <2>3 DEF Parts
<1>3. fds \in Seq(Dependency(all_attrs)) /\ IsFiniteSet(all_attrs)
  BY FewAttributes DEF Typed
<1>4. IsFiniteSet(Parts)
  <2>1. IsFiniteSet(SUBSET all_attrs)
    BY <1>3, FS_SUBSET
  <2>2. QED BY <1>2, <2>1, FS_Subset
<1>5. QED BY <1>1, <1>3, <1>4, ChaseExact DEF Closed

\* What decompose_bcnf has split and still has to split always joins to the
\* relation it was given, if no dependency repeats an attribute.
THEOREM SplitsAlwaysLossless == Spec => []SplitsLossless
<1>1. Inv => Typed
  BY DEF Inv
<1>2. QED BY <1>1, InvariantHolds, SplittingInit, SplittingStep, SplitsFollow, PTL DEF Spec
=============================================================================
