----------------------- MODULE ChainedHashTableProofs -----------------------
(***************************************************************************)
(* TLAPS proofs about the chained hash table, for any word width, number   *)
(* of buckets, keys and values: types, the exactness of its counter, and   *)
(* that it implements a dictionary.                                        *)
(***************************************************************************)
EXTENDS ChainedHashTable, FiniteSetTheorems, SequenceTheorems, TLAPS

\* A power of two counts the subsets of a finite set.
LEMMA PowerPositive == 2^Width \in Nat \ {0}
<1>1. Width \in Nat /\ 1 \in Int
  BY ChainedAssumption
<1>2. IsFiniteSet(1 .. Width) /\ Cardinality(1 .. Width) = Width
  BY <1>1, FS_Interval
<1>3. IsFiniteSet(SUBSET (1 .. Width)) /\ Cardinality(SUBSET (1 .. Width)) = 2^Width
  BY <1>2, FS_SUBSET
<1>4. Cardinality(SUBSET (1 .. Width)) \in Nat
  BY <1>3, FS_CardinalityType
<1>5. Cardinality(SUBSET (1 .. Width)) # 0
  BY <1>3, FS_EmptySet
<1>6. QED BY <1>3, <1>4, <1>5

\* Negative keys fall into a bucket like all others.
LEMMA HashInRange == \A k \in Key : hash(k) \in Slots
<1> SUFFICES ASSUME NEW k \in Key PROVE hash(k) \in Slots
  OBVIOUS
<1> DEFINE w == 2^Width
<1>1. w \in Nat \ {0}
  BY PowerPositive
<1>2. Capacity \in Nat \ {0}
  BY <1>1, ChainedAssumption
<1>3. k \in Int
  BY <1>1, ChainedAssumption
<1>4. k % w \in Int
  <2> HIDE DEF w
  <2>1. QED BY <1>1, <1>3
<1>5. (k % w) % Capacity \in 0 .. Capacity - 1
  <2> DEFINE u == k % w
  <2>1. u \in Int
    BY <1>4
  <2> HIDE DEF u
  <2>2. u % Capacity \in 0 .. Capacity - 1
    BY <1>2, <2>1
  <2>3. QED BY <2>2 DEF u
<1>6. QED BY <1>5 DEF hash, Slots

\* What is left when one element of a list is removed.
LEMMA RemoveAtProperties ==
    ASSUME NEW S, NEW s \in Seq(S), NEW i \in DOMAIN s
    PROVE  /\ RemoveAt(s, i) \in Seq(S)
           /\ DOMAIN RemoveAt(s, i) = 1 .. Len(s) - 1
           /\ \A j \in 1 .. Len(s) - 1 :
                RemoveAt(s, i)[j] = IF j < i THEN s[j] ELSE s[j + 1]
<1> DEFINE a == SubSeq(s, 1, i - 1)
           b == SubSeq(s, i + 1, Len(s))
<1>1. /\ Len(s) \in Nat /\ i \in 1 .. Len(s)
      /\ \A j \in 1 .. Len(s) : s[j] \in S
  BY LenProperties, ElementOfSeq
<1>2. /\ a \in Seq(S) /\ Len(a) = i - 1
      /\ \A j \in 1 .. i - 1 : a[j] = s[j]
  <2>1. 1 \in Int /\ i - 1 \in Int /\ \A j \in 1 .. i - 1 : s[j] \in S
    BY <1>1
  <2>2. /\ a \in Seq(S) /\ Len(a) = IF 1 <= i - 1 THEN (i - 1) - 1 + 1 ELSE 0
        /\ \A j \in 1 .. (i - 1) - 1 + 1 : a[j] = s[1 + j - 1]
    BY <2>1, SubSeqProperties
  <2>3. \A j \in 1 .. i - 1 : j \in 1 .. (i - 1) - 1 + 1 /\ 1 + j - 1 = j
    BY <1>1
  <2> HIDE DEF a
  <2>4. QED BY <1>1, <2>2, <2>3
<1>3. /\ b \in Seq(S) /\ Len(b) = Len(s) - i
      /\ \A j \in 1 .. Len(s) - i : b[j] = s[i + j]
  <2>1. i + 1 \in Int /\ Len(s) \in Int /\ \A j \in i + 1 .. Len(s) : s[j] \in S
    BY <1>1
  <2>2. /\ b \in Seq(S) /\ Len(b) = IF i + 1 <= Len(s) THEN Len(s) - (i + 1) + 1 ELSE 0
        /\ \A j \in 1 .. Len(s) - (i + 1) + 1 : b[j] = s[i + 1 + j - 1]
    BY <2>1, SubSeqProperties
  <2>3. \A j \in 1 .. Len(s) - i : j \in 1 .. Len(s) - (i + 1) + 1 /\ i + 1 + j - 1 = i + j
    BY <1>1
  <2> HIDE DEF b
  <2>4. QED BY <1>1, <2>2, <2>3
<1> HIDE DEF a, b
<1>4. /\ a \o b \in Seq(S) /\ Len(a \o b) = Len(s) - 1
      /\ \A j \in 1 .. Len(s) - 1 :
           (a \o b)[j] = IF j <= i - 1 THEN a[j] ELSE b[j - (i - 1)]
  <2>1. /\ a \o b \in Seq(S) /\ Len(a \o b) = Len(a) + Len(b)
        /\ \A j \in 1 .. Len(a) + Len(b) :
             (a \o b)[j] = IF j <= Len(a) THEN a[j] ELSE b[j - Len(a)]
    BY <1>2, <1>3, ConcatProperties
  <2>2. Len(a) + Len(b) = Len(s) - 1
    BY <1>1, <1>2, <1>3
  <2>3. QED BY <1>2, <2>1, <2>2
<1>5. ASSUME NEW j \in 1 .. Len(s) - 1
      PROVE  (a \o b)[j] = IF j < i THEN s[j] ELSE s[j + 1]
  <2>1. CASE j < i
    <3>1. j <= i - 1 /\ j \in 1 .. i - 1
      BY <1>1, <2>1
    <3>2. QED BY <1>2, <1>4, <2>1, <3>1
  <2>2. CASE ~ (j < i)
    <3>1. ~ (j <= i - 1) /\ j - (i - 1) \in 1 .. Len(s) - i /\ i + (j - (i - 1)) = j + 1
      BY <1>1, <2>2
    <3>2. QED BY <1>3, <1>4, <2>2, <3>1
  <2>3. QED BY <2>1, <2>2
<1>6. RemoveAt(s, i) = a \o b
  BY DEF RemoveAt, a, b
<1>7. DOMAIN (a \o b) = 1 .. Len(s) - 1
  BY <1>4, LenProperties
<1>8. QED BY <1>4, <1>5, <1>6, <1>7

-----------------------------------------------------------------------------
(* The inductive invariant.                                                *)

\* The entries of bucket h are of keys that belong there, no two of one key.
SoundBucket(h, t) ==
    \A i \in DOMAIN t :
        /\ hash(t[i][1]) = h
        /\ \A j \in DOMAIN t : t[i][1] = t[j][1] => i = j

\* Every entry lies in the bucket of its key, and no key is held twice.
ChainsSound == \A i \in Slots : SoundBucket(i, buckets[i])

\* Does the bucket of the key hold this entry?
Bound(k, v) ==
    \E i \in DOMAIN buckets[hash(k)] : buckets[hash(k)][i] = <<k, v>>

Found == {k \in Key : get(k) # {}}

Entries == UNION {{i} \X DOMAIN buckets[i] : i \in Slots}

CountsExact ==
    /\ IsFiniteSet(Found) /\ size = Cardinality(Found)
    /\ IsFiniteSet(Entries) /\ size = Cardinality(Entries)

ChainsInv == TypeOK /\ ChainsSound

ChainedInv == ChainsInv /\ CountsExact

\* The elements of the buckets, by their types.
LEMMA BucketTypes ==
    ASSUME TypeOK
    PROVE  \A i \in Slots :
             /\ buckets[i] \in Seq(Key \X Value)
             /\ Len(buckets[i]) \in Nat
             /\ DOMAIN buckets[i] = 1 .. Len(buckets[i])
             /\ \A j \in DOMAIN buckets[i] :
                  /\ buckets[i][j] \in Key \X Value
                  /\ buckets[i][j] = <<buckets[i][j][1], buckets[i][j][2]>>
                  /\ buckets[i][j][1] \in Key /\ buckets[i][j][2] \in Value
<1> SUFFICES ASSUME NEW i \in Slots
             PROVE  /\ buckets[i] \in Seq(Key \X Value)
                    /\ Len(buckets[i]) \in Nat
                    /\ DOMAIN buckets[i] = 1 .. Len(buckets[i])
                    /\ \A j \in DOMAIN buckets[i] :
                         /\ buckets[i][j] \in Key \X Value
                         /\ buckets[i][j] = <<buckets[i][j][1], buckets[i][j][2]>>
                         /\ buckets[i][j][1] \in Key /\ buckets[i][j][2] \in Value
  OBVIOUS
<1>1. buckets[i] \in Seq(Key \X Value)
  BY DEF TypeOK
<1>2. /\ Len(buckets[i]) \in Nat
      /\ DOMAIN buckets[i] = 1 .. Len(buckets[i])
      /\ \A j \in DOMAIN buckets[i] : buckets[i][j] \in Key \X Value
  BY <1>1, LenProperties, ElementOfSeq
<1>3. QED BY <1>1, <1>2

\* The search of a bucket stops at the only entry of the key.
LEMMA FirstPosition ==
    ASSUME ChainsInv, NEW k \in Key, Positions(k) # {}
    PROVE  /\ First(Positions(k)) \in DOMAIN buckets[hash(k)]
           /\ buckets[hash(k)][First(Positions(k))][1] = k
           /\ Positions(k) = {First(Positions(k))}
<1>1. PICK p \in DOMAIN buckets[hash(k)] : buckets[hash(k)][p][1] = k
  BY DEF Positions
<1>2. hash(k) \in Slots
  BY HashInRange
<1>3. Positions(k) = {p}
  BY <1>1, <1>2 DEF Positions, ChainsInv, ChainsSound, SoundBucket
<1>4. p \in Nat
  BY <1>1, <1>2, BucketTypes DEF ChainsInv
<1>5. First({p}) = p
  BY <1>4 DEF First
<1>6. QED BY <1>1, <1>3, <1>5

\* What get finds is what the key is bound to, and no more than one value.
GetExact ==
    \A k \in Key :
        /\ get(k) = {v \in Value : Bound(k, v)}
        /\ get(k) # {} <=> Positions(k) # {}
        /\ \A v \in Value : Bound(k, v) => get(k) = {v}

LEMMA GetIsBound == ChainsInv => GetExact
<1> SUFFICES ASSUME ChainsInv, NEW k \in Key
             PROVE  /\ get(k) = {v \in Value : Bound(k, v)}
                    /\ get(k) # {} <=> Positions(k) # {}
                    /\ \A v \in Value : Bound(k, v) => get(k) = {v}
  BY DEF GetExact
<1>1. hash(k) \in Slots
  BY HashInRange
<1>2. CASE Positions(k) = {}
  <2>1. \A v \in Value : ~ Bound(k, v)
    <3>1. \A v \in Value : <<k, v>>[1] = k
      OBVIOUS
    <3>2. QED BY <1>2, <3>1 DEF Bound, Positions
  <2>2. QED BY <1>2, <2>1 DEF get
<1>3. CASE Positions(k) # {}
  <2> DEFINE p == First(Positions(k))
             e == buckets[hash(k)][p]
  <2>1. p \in DOMAIN buckets[hash(k)] /\ e[1] = k /\ Positions(k) = {p}
    BY <1>3, FirstPosition
  <2>2. e = <<k, e[2]>> /\ e[2] \in Value
    BY <1>1, <2>1, BucketTypes DEF ChainsInv
  <2>3. get(k) = {e[2]}
    BY <1>3 DEF get
  <2>4. ASSUME NEW v \in Value
        PROVE  Bound(k, v) <=> v = e[2]
    <3>1. ASSUME NEW i \in DOMAIN buckets[hash(k)], buckets[hash(k)][i] = <<k, v>>
          PROVE  i = p
      <4>1. buckets[hash(k)][i][1] = k
        BY <3>1
      <4>2. i \in Positions(k)
        BY <4>1 DEF Positions
      <4> HIDE DEF p
      <4>3. QED BY <2>1, <4>2
    <3> HIDE DEF p
    <3>2. QED BY <2>1, <2>2, <3>1 DEF Bound
  <2> HIDE DEF p, e
  <2>5. QED BY <1>3, <2>2, <2>3, <2>4
<1>4. QED BY <1>2, <1>3

-----------------------------------------------------------------------------
(* What the calls do to the buckets.                                       *)

\* A call replaces one bucket: the other keys' entries are as they were.
LEMMA BucketReplaced ==
    ASSUME ChainsInv, NEW h \in Slots, NEW t \in Seq(Key \X Value),
           buckets' = [buckets EXCEPT ![h] = t],
           SoundBucket(h, t)
    PROVE  /\ buckets' \in [Slots -> Seq(Key \X Value)]
           /\ \A i \in Slots : buckets'[i] = IF i = h THEN t ELSE buckets[i]
           /\ ChainsSound'
           /\ \A k \in Key, v \in Value :
                Bound(k, v)' <=> IF hash(k) = h THEN \E i \in DOMAIN t : t[i] = <<k, v>>
                                 ELSE Bound(k, v)
<1>1. buckets \in [Slots -> Seq(Key \X Value)]
  BY DEF ChainsInv, TypeOK
<1>2. buckets' \in [Slots -> Seq(Key \X Value)]
  BY <1>1
<1>3. \A i \in Slots : buckets'[i] = IF i = h THEN t ELSE buckets[i]
  BY <1>1
<1>4. ChainsSound'
  <2>1. \A i \in Slots : SoundBucket(i, buckets'[i])
    BY <1>3 DEF ChainsInv, ChainsSound
  <2>2. QED BY <2>1 DEF ChainsSound, SoundBucket, hash, Slots
<1>5. ASSUME NEW k \in Key, NEW v \in Value
      PROVE  Bound(k, v)' <=> IF hash(k) = h THEN \E i \in DOMAIN t : t[i] = <<k, v>>
                              ELSE Bound(k, v)
  <2>1. hash(k) \in Slots
    BY HashInRange
  <2>2. Bound(k, v)' <=> \E i \in DOMAIN buckets'[hash(k)] : buckets'[hash(k)][i] = <<k, v>>
    BY DEF Bound, hash
  <2>3. QED BY <1>3, <2>1, <2>2 DEF Bound
<1>6. QED BY <1>2, <1>3, <1>4, <1>5

\* A key that is found gets its value in its place.
LEMMA UpdateStep ==
    ASSUME ChainsInv, NEW k \in Key, NEW v \in Value, Update(k, v)
    PROVE  /\ ChainsInv'
           /\ \A i \in Slots : DOMAIN buckets'[i] = DOMAIN buckets[i]
           /\ \A j \in Key, w \in Value :
                Bound(j, w)' <=> IF j = k THEN w = v ELSE Bound(j, w)
<1> DEFINE h == hash(k)
           p == First(Positions(k))
           s == buckets[h]
           t == [s EXCEPT ![p] = <<k, v>>]
<1>1. /\ h \in Slots
      /\ p \in DOMAIN s
      /\ s[p][1] = k
      /\ s \in Seq(Key \X Value)
  BY HashInRange, FirstPosition, BucketTypes DEF Update, ChainsInv
<1>2. t \in Seq(Key \X Value) /\ DOMAIN t = DOMAIN s
  BY <1>1, LenProperties, ExceptSeq
<1>3. buckets' = [buckets EXCEPT ![h] = t] /\ size' = size
  BY DEF Update
<1>4. \A i \in DOMAIN s : t[i] = IF i = p THEN <<k, v>> ELSE s[i]
  OBVIOUS
<1>5. \A i \in DOMAIN s : t[i][1] = s[i][1]
  <2>1. <<k, v>>[1] = k
    OBVIOUS
  <2> HIDE DEF h, p, s, t
  <2>2. QED BY <1>1, <1>4, <2>1
<1>6. SoundBucket(h, s)
  BY <1>1 DEF ChainsInv, ChainsSound
<1> HIDE DEF h, p, s, t
<1>7. SoundBucket(h, t)
  BY <1>2, <1>5, <1>6 DEF SoundBucket
<1>8. /\ buckets' \in [Slots -> Seq(Key \X Value)]
      /\ \A i \in Slots : buckets'[i] = IF i = h THEN t ELSE buckets[i]
      /\ ChainsSound'
      /\ \A j \in Key, w \in Value :
           Bound(j, w)' <=> IF hash(j) = h THEN \E i \in DOMAIN t : t[i] = <<j, w>>
                            ELSE Bound(j, w)
  BY <1>1, <1>2, <1>3, <1>7, BucketReplaced
<1>9. ChainsInv'
  BY <1>3, <1>8 DEF ChainsInv, TypeOK, Slots
<1>10. \A i \in Slots : DOMAIN buckets'[i] = DOMAIN buckets[i]
  BY <1>2, <1>8 DEF s
<1>11. ASSUME NEW j \in Key, NEW w \in Value
       PROVE  Bound(j, w)' <=> IF j = k THEN w = v ELSE Bound(j, w)
  <2>1. CASE hash(j) # h
    <3>1. j # k
      BY <2>1 DEF h
    <3>2. QED BY <1>8, <2>1, <3>1
  <2>2. CASE hash(j) = h /\ j = k
    <3>1. \A i \in DOMAIN t : t[i] = <<k, w>> => t[i][1] = k
      OBVIOUS
    <3>2. \A i \in DOMAIN t : t[i] = <<k, w>> => i = p
      BY <1>1, <1>2, <1>5, <1>6, <3>1 DEF SoundBucket
    <3>3. p \in DOMAIN t /\ t[p] = <<k, v>>
      BY <1>1, <1>2, <1>4
    <3>4. (\E i \in DOMAIN t : t[i] = <<k, w>>) <=> w = v
      BY <3>2, <3>3
    <3>5. QED BY <1>8, <2>2, <3>4
  <2>3. CASE hash(j) = h /\ j # k
    <3>1. \A i \in DOMAIN s : t[i] = <<j, w>> <=> s[i] = <<j, w>>
      <4> SUFFICES ASSUME NEW i \in DOMAIN s
                   PROVE  t[i] = <<j, w>> <=> s[i] = <<j, w>>
        OBVIOUS
      <4>1. t[i] = <<j, w>> => t[i][1] = j
        OBVIOUS
      <4>2. s[i] = <<j, w>> => s[i][1] = j
        OBVIOUS
      <4>3. QED BY <1>1, <1>4, <1>5, <2>3, <4>1, <4>2
    <3>2. Bound(j, w) <=> \E i \in DOMAIN s : s[i] = <<j, w>>
      BY <2>3 DEF Bound, s
    <3>3. QED BY <1>2, <1>8, <2>3, <3>1, <3>2
  <2>4. QED BY <2>1, <2>2, <2>3
<1>12. QED BY <1>9, <1>10, <1>11

\* A key that is not found is appended to its bucket.
LEMMA PushStep ==
    ASSUME ChainsInv, NEW k \in Key, NEW v \in Value, Push(k, v)
    PROVE  /\ ChainsInv' /\ size' = size + 1
           /\ Entries' = Entries \union {<<hash(k), Len(buckets[hash(k)]) + 1>>}
           /\ \A j \in Key, w \in Value :
                Bound(j, w)' <=> IF j = k THEN w = v ELSE Bound(j, w)
<1> DEFINE h == hash(k)
           s == buckets[h]
           n == Len(s) + 1
           t == Append(s, <<k, v>>)
<1>1. /\ h \in Slots /\ s \in Seq(Key \X Value)
      /\ Len(s) \in Nat /\ DOMAIN s = 1 .. Len(s)
      /\ \A i \in DOMAIN s : s[i][1] \in Key
  BY HashInRange, BucketTypes DEF ChainsInv
<1>2. \A i \in DOMAIN s : s[i][1] # k
  BY DEF Push, Positions
<1>3. SoundBucket(h, s)
  BY <1>1 DEF ChainsInv, ChainsSound
<1>4. buckets' = [buckets EXCEPT ![h] = t] /\ size' = size + 1
  BY DEF Push
<1>5. <<k, v>> \in Key \X Value /\ <<k, v>>[1] = k
  OBVIOUS
<1> HIDE DEF h, s
<1>6. /\ t \in Seq(Key \X Value) /\ Len(t) = n
      /\ \A i \in 1 .. Len(s) : t[i] = s[i]
      /\ t[n] = <<k, v>>
  BY <1>1, <1>5, AppendProperties
<1>7. DOMAIN t = DOMAIN s \union {n} /\ n \notin DOMAIN s
  BY <1>1, <1>6, LenProperties
<1> HIDE DEF t
<1>8. hash(t[n][1]) = h /\ t[n][1] = k
  BY <1>5, <1>6 DEF h
<1>9. SoundBucket(h, t)
  BY <1>1, <1>2, <1>3, <1>6, <1>7, <1>8 DEF SoundBucket
<1>10. /\ buckets' \in [Slots -> Seq(Key \X Value)]
       /\ \A i \in Slots : buckets'[i] = IF i = h THEN t ELSE buckets[i]
       /\ ChainsSound'
       /\ \A j \in Key, w \in Value :
            Bound(j, w)' <=> IF hash(j) = h THEN \E i \in DOMAIN t : t[i] = <<j, w>>
                             ELSE Bound(j, w)
  BY <1>1, <1>4, <1>6, <1>9, BucketReplaced
<1>11. ChainsInv'
  BY <1>4, <1>10 DEF ChainsInv, TypeOK, Slots
<1>12. Entries' = Entries \union {<<h, n>>}
  <2>1. \A i \in Slots : {i} \X DOMAIN buckets'[i]
          = ({i} \X DOMAIN buckets[i]) \union (IF i = h THEN {<<h, n>>} ELSE {})
    BY <1>7, <1>10 DEF s
  <2>2. Entries' = UNION {{i} \X DOMAIN buckets'[i] : i \in Slots}
    BY DEF Entries, Slots
  <2>3. QED BY <1>1, <2>1, <2>2 DEF Entries
<1>13. ASSUME NEW j \in Key, NEW w \in Value
       PROVE  Bound(j, w)' <=> IF j = k THEN w = v ELSE Bound(j, w)
  <2>1. CASE hash(j) # h
    <3>1. j # k
      BY <2>1 DEF h
    <3>2. QED BY <1>10, <2>1, <3>1
  <2>2. CASE hash(j) = h
    <3>1. Bound(j, w) <=> \E i \in DOMAIN s : s[i] = <<j, w>>
      BY <2>2 DEF Bound, s
    <3>2. \A i \in DOMAIN s : s[i] = <<k, w>> => s[i][1] = k
      OBVIOUS
    <3>3. (\E i \in DOMAIN t : t[i] = <<j, w>>)
            <=> ((\E i \in DOMAIN s : s[i] = <<j, w>>) \/ <<k, v>> = <<j, w>>)
      BY <1>1, <1>6, <1>7
    <3>4. j = k => ~ \E i \in DOMAIN s : s[i] = <<j, w>>
      BY <1>2, <3>2
    <3>5. <<k, v>> = <<j, w>> <=> (j = k /\ w = v)
      OBVIOUS
    <3>6. Bound(j, w)' <=> \E i \in DOMAIN t : t[i] = <<j, w>>
      BY <1>10, <2>2
    <3>7. QED BY <3>1, <3>3, <3>4, <3>5, <3>6
  <2>3. QED BY <2>1, <2>2
<1>14. QED BY <1>4, <1>11, <1>12, <1>13 DEF h, s

\* The entry of a key that is found goes, and the later ones move up.
LEMMA RemoveStep ==
    ASSUME ChainsInv, CountsExact, NEW k \in Key, remove(k)
    PROVE  /\ ChainsInv' /\ size' = size - 1
           /\ <<hash(k), Len(buckets[hash(k)])>> \in Entries
           /\ Entries' = Entries \ {<<hash(k), Len(buckets[hash(k)])>>}
           /\ \A j \in Key, w \in Value :
                Bound(j, w)' <=> (j # k /\ Bound(j, w))
<1> DEFINE h == hash(k)
           p == First(Positions(k))
           s == buckets[h]
           n == Len(s)
           t == RemoveAt(s, p)
<1>1. /\ h \in Slots /\ s \in Seq(Key \X Value)
      /\ n \in Nat /\ DOMAIN s = 1 .. n
      /\ p \in DOMAIN s /\ s[p][1] = k
  BY HashInRange, BucketTypes, FirstPosition DEF remove, ChainsInv
<1>2. SoundBucket(h, s)
  BY <1>1 DEF ChainsInv, ChainsSound
<1>3. buckets' = [buckets EXCEPT ![h] = t] /\ size' = size - 1
  BY DEF remove
<1> HIDE DEF h, p, s
<1>4. /\ t \in Seq(Key \X Value) /\ DOMAIN t = 1 .. n - 1
      /\ \A j \in 1 .. n - 1 : t[j] = IF j < p THEN s[j] ELSE s[j + 1]
  BY <1>1, RemoveAtProperties
<1> HIDE DEF t, n
\* Where an entry of the shorter list was.
<1> DEFINE was(j) == IF j < p THEN j ELSE j + 1
<1>5. \A j \in DOMAIN t : was(j) \in DOMAIN s \ {p} /\ t[j] = s[was(j)]
  BY <1>1, <1>4
<1>6. \A i, j \in DOMAIN t : was(i) = was(j) => i = j
  BY <1>1, <1>4
<1>7. \A i \in DOMAIN s \ {p} : \E j \in DOMAIN t : was(j) = i
  <2> SUFFICES ASSUME NEW i \in DOMAIN s \ {p}
               PROVE  \E j \in DOMAIN t : was(j) = i
    OBVIOUS
  <2>1. CASE i < p
    <3>1. i \in DOMAIN t /\ was(i) = i
      BY <1>1, <1>4, <2>1
    <3>2. QED BY <3>1
  <2>2. CASE ~ (i < p)
    <3>1. i - 1 \in DOMAIN t /\ was(i - 1) = i
      BY <1>1, <1>4, <2>2
    <3>2. QED BY <3>1
  <2>3. QED BY <2>1, <2>2
<1> HIDE DEF was
<1>8. SoundBucket(h, t)
  BY <1>2, <1>5, <1>6 DEF SoundBucket
<1>9. /\ buckets' \in [Slots -> Seq(Key \X Value)]
      /\ \A i \in Slots : buckets'[i] = IF i = h THEN t ELSE buckets[i]
      /\ ChainsSound'
      /\ \A j \in Key, w \in Value :
           Bound(j, w)' <=> IF hash(j) = h THEN \E i \in DOMAIN t : t[i] = <<j, w>>
                            ELSE Bound(j, w)
  BY <1>1, <1>3, <1>4, <1>8, BucketReplaced
<1>10. Entries' = Entries \ {<<h, n>>} /\ <<h, n>> \in Entries
  <2>1. n \in DOMAIN s /\ DOMAIN t = DOMAIN s \ {n}
    BY <1>1, <1>4
  <2>2. \A i \in Slots : {i} \X DOMAIN buckets'[i]
          = ({i} \X DOMAIN buckets[i]) \ (IF i = h THEN {<<h, n>>} ELSE {})
    BY <1>9, <2>1 DEF s
  <2>3. Entries' = UNION {{i} \X DOMAIN buckets'[i] : i \in Slots}
    BY DEF Entries, Slots
  <2>4. <<h, n>> \in {h} \X DOMAIN buckets[h]
    BY <2>1 DEF s
  <2>5. QED BY <1>1, <2>2, <2>3, <2>4 DEF Entries
<1>11. ASSUME NEW j \in Key, NEW w \in Value
       PROVE  Bound(j, w)' <=> (j # k /\ Bound(j, w))
  <2>1. CASE hash(j) # h
    <3>1. j # k
      BY <2>1 DEF h
    <3>2. QED BY <1>9, <2>1, <3>1
  <2>2. CASE hash(j) = h /\ j = k
    <3>1. \A i \in DOMAIN s : s[i] = <<k, w>> => s[i][1] = k
      OBVIOUS
    <3>2. \A i \in DOMAIN s : s[i] = <<k, w>> => i = p
      BY <1>1, <1>2, <3>1 DEF SoundBucket
    <3>3. QED BY <1>5, <1>9, <2>2, <3>2
  <2>3. CASE hash(j) = h /\ j # k
    <3>1. Bound(j, w) <=> \E i \in DOMAIN s : s[i] = <<j, w>>
      BY <2>3 DEF Bound, s
    <3>2. s[p] # <<j, w>>
      BY <1>1, <2>3
    <3>3. QED BY <1>5, <1>7, <1>9, <2>3, <3>1, <3>2
  <2>4. QED BY <2>1, <2>2, <2>3
<1>12. size \in Nat \ {0}
  BY <1>10, FS_EmptySet DEF CountsExact, ChainsInv, TypeOK
<1>13. ChainsInv'
  BY <1>3, <1>9, <1>12 DEF ChainsInv, TypeOK, Slots
<1>14. QED BY <1>3, <1>10, <1>11, <1>13 DEF h, n, s

-----------------------------------------------------------------------------
(* The theorems.                                                           *)

LEMMA ChainsStart == Init => ChainedInv
<1> SUFFICES ASSUME Init PROVE ChainedInv
  OBVIOUS
<1>1. \A i \in Slots : buckets[i] = <<>>
  BY DEF Init
<1>2. ChainsInv
  BY <1>1 DEF Init, ChainsInv, TypeOK, ChainsSound, SoundBucket
<1>3. Found = {}
  <2>1. ASSUME NEW k \in Key PROVE get(k) = {}
    <3>1. buckets[hash(k)] = <<>>
      BY <1>1, HashInRange
    <3>2. Positions(k) = {}
      BY <3>1 DEF Positions
    <3>3. QED BY <3>2 DEF get
  <2>2. QED BY <2>1 DEF Found
<1>4. Entries = {}
  BY <1>1 DEF Entries
<1>5. QED BY <1>2, <1>3, <1>4, FS_EmptySet DEF Init, ChainedInv, CountsExact

\* The keys that are found are those bound to some value.
FoundExact == Found = {k \in Key : \E v \in Value : Bound(k, v)}

LEMMA FoundIsBound == ChainsInv => FoundExact
<1> SUFFICES ASSUME ChainsInv PROVE FoundExact
  OBVIOUS
<1>1. \A k \in Key : get(k) = {v \in Value : Bound(k, v)}
  BY GetIsBound DEF GetExact
<1>2. QED BY <1>1 DEF Found, FoundExact

\* The same after a step.
LEMMA FoundAfter == ChainsInv' => FoundExact' /\ GetExact'
  BY FoundIsBound, GetIsBound, PTL

\* A replacement leaves the set of the keys as it is.
LEMMA UpdateCounts ==
    ASSUME ChainedInv, NEW k \in Key, NEW v \in Value, Update(k, v)
    PROVE  ChainedInv'
<1>1. /\ ChainsInv'
      /\ \A i \in Slots : DOMAIN buckets'[i] = DOMAIN buckets[i]
      /\ \A j \in Key, w \in Value : Bound(j, w)' <=> IF j = k THEN w = v ELSE Bound(j, w)
  BY UpdateStep DEF ChainedInv
<1>2. FoundExact /\ FoundExact' /\ GetExact
  BY <1>1, FoundIsBound, GetIsBound, FoundAfter DEF ChainedInv
<1>3. k \in Found
  BY <1>2 DEF Update, Found, GetExact
<1>4. Found' = Found
  BY <1>1, <1>2, <1>3 DEF FoundExact
<1>5. Entries' = Entries
  BY <1>1 DEF Entries, Slots
<1>6. QED BY <1>1, <1>4, <1>5 DEF ChainedInv, CountsExact, Update

\* A new key is one more key and one more entry.
LEMMA PushCounts ==
    ASSUME ChainedInv, NEW k \in Key, NEW v \in Value, Push(k, v)
    PROVE  ChainedInv'
<1>1. /\ ChainsInv' /\ size' = size + 1
      /\ Entries' = Entries \union {<<hash(k), Len(buckets[hash(k)]) + 1>>}
      /\ \A j \in Key, w \in Value : Bound(j, w)' <=> IF j = k THEN w = v ELSE Bound(j, w)
  BY PushStep DEF ChainedInv
<1>2. FoundExact /\ FoundExact' /\ GetExact
  BY <1>1, FoundIsBound, GetIsBound, FoundAfter DEF ChainedInv
<1>3. k \notin Found
  BY <1>2 DEF Push, Found, GetExact
<1>4. Found' = Found \union {k}
  BY <1>1, <1>2, <1>3 DEF FoundExact
<1>5. <<hash(k), Len(buckets[hash(k)]) + 1>> \notin Entries
  <2>1. Len(buckets[hash(k)]) \in Nat /\ DOMAIN buckets[hash(k)] = 1 .. Len(buckets[hash(k)])
    BY HashInRange, BucketTypes DEF ChainedInv, ChainsInv
  <2>2. Len(buckets[hash(k)]) + 1 \notin DOMAIN buckets[hash(k)]
    BY <2>1
  <2>3. QED BY <2>2 DEF Entries
<1>6. IsFiniteSet(Found') /\ Cardinality(Found') = Cardinality(Found) + 1
  BY <1>3, <1>4, FS_AddElement DEF ChainedInv, CountsExact
<1>7. IsFiniteSet(Entries') /\ Cardinality(Entries') = Cardinality(Entries) + 1
  BY <1>1, <1>5, FS_AddElement DEF ChainedInv, CountsExact
<1>8. QED BY <1>1, <1>6, <1>7 DEF ChainedInv, CountsExact

\* A removed key is one key and one entry less.
LEMMA RemoveCounts ==
    ASSUME ChainedInv, NEW k \in Key, remove(k)
    PROVE  ChainedInv'
<1>1. /\ ChainsInv' /\ size' = size - 1
      /\ <<hash(k), Len(buckets[hash(k)])>> \in Entries
      /\ Entries' = Entries \ {<<hash(k), Len(buckets[hash(k)])>>}
      /\ \A j \in Key, w \in Value : Bound(j, w)' <=> (j # k /\ Bound(j, w))
  BY RemoveStep DEF ChainedInv
<1>2. FoundExact /\ FoundExact' /\ GetExact
  BY <1>1, FoundIsBound, GetIsBound, FoundAfter DEF ChainedInv
<1>3. k \in Found
  BY <1>2 DEF remove, Found, GetExact
<1>4. Found' = Found \ {k}
  BY <1>1, <1>2 DEF FoundExact
<1>5. IsFiniteSet(Found') /\ Cardinality(Found') = Cardinality(Found) - 1
  BY <1>3, <1>4, FS_RemoveElement DEF ChainedInv, CountsExact
<1>6. IsFiniteSet(Entries') /\ Cardinality(Entries') = Cardinality(Entries) - 1
  BY <1>1, FS_RemoveElement DEF ChainedInv, CountsExact
<1>7. QED BY <1>1, <1>5, <1>6 DEF ChainedInv, CountsExact

LEMMA ChainsStep == ChainedInv /\ [Next]_vars => ChainedInv'
<1> SUFFICES ASSUME ChainedInv, [Next]_vars PROVE ChainedInv'
  OBVIOUS
<1>1. CASE UNCHANGED vars
  <2>1. buckets' = buckets /\ size' = size
    BY <1>1 DEF vars
  <2>2. TypeOK'
    BY <2>1 DEF ChainedInv, ChainsInv, TypeOK, Slots
  <2>3. ChainsSound'
    BY <2>1 DEF ChainedInv, ChainsInv, ChainsSound, SoundBucket, hash, Slots
  <2>4. Found' = Found
    BY <2>1 DEF Found, get, Positions, hash
  <2>5. Entries' = Entries
    BY <2>1 DEF Entries, Slots
  <2>6. QED BY <2>1, <2>2, <2>3, <2>4, <2>5 DEF ChainedInv, ChainsInv, CountsExact
<1>2. ASSUME NEW k \in Key, remove(k) PROVE ChainedInv'
  BY <1>2, RemoveCounts
<1>3. ASSUME NEW k \in Key, removeMissing(k) PROVE ChainedInv'
  BY <1>1, <1>3 DEF removeMissing
<1>4. ASSUME NEW k \in Key, NEW v \in Value, insert(k, v) PROVE ChainedInv'
  BY <1>4, UpdateCounts, PushCounts DEF insert
<1>5. QED BY <1>1, <1>2, <1>3, <1>4 DEF Next

LEMMA ChainedInvariant == Spec => []ChainedInv
  BY ChainsStart, ChainsStep, PTL DEF Spec

\* The variables keep their types, whatever is inserted and removed.
THEOREM ChainedTypes == Spec => []TypeOK
<1>1. ChainedInv => TypeOK
  BY DEF ChainedInv, ChainsInv
<1>2. QED BY <1>1, ChainedInvariant, PTL

\* The counter is the number of the keys that are found and the number of
\* the entries held, for any number of buckets and any keys.
THEOREM SizeAlwaysExact == Spec => []SizeExact
<1>1. ChainedInv => SizeExact
  BY DEF ChainedInv, CountsExact, SizeExact, Found, Entries
<1>2. QED BY <1>1, ChainedInvariant, PTL

-----------------------------------------------------------------------------
(* The refinement.                                                         *)

\* What an insertion or a replacement does to what is found.
LEMMA InsertRefines ==
    ASSUME ChainsInv, ChainsInv', NEW k \in Key, NEW v \in Value,
           \A j \in Key, w \in Value : Bound(j, w)' <=> IF j = k THEN w = v ELSE Bound(j, w)
    PROVE  Dict!Put(k, v)
<1>1. GetExact /\ GetExact'
  BY GetIsBound, FoundAfter
<1>2. \A j \in Key : get(j)' = IF j = k THEN {v} ELSE get(j)
  <2>1. \A j \in Key : get(j)' = {w \in Value : Bound(j, w)'}
    BY <1>1 DEF GetExact
  <2>2. QED BY <1>1, <2>1 DEF GetExact
<1>3. Contents' = [j \in {i \in Key : get(i)' # {}} |-> CHOOSE w \in get(j)' : TRUE]
  BY DEF Contents
<1>4. {i \in Key : get(i)' # {}} = DOMAIN Contents \union {k}
  BY <1>2 DEF Contents
<1>5. \A j \in DOMAIN Contents \union {k} :
        (CHOOSE w \in get(j)' : TRUE) = IF j = k THEN v ELSE Contents[j]
  <2> SUFFICES ASSUME NEW j \in DOMAIN Contents \union {k}
               PROVE  (CHOOSE w \in get(j)' : TRUE) = IF j = k THEN v ELSE Contents[j]
    OBVIOUS
  <2>1. CASE j = k
    BY <1>2, <2>1
  <2>2. CASE j # k
    <3>1. j \in Key /\ get(j)' = get(j) /\ j \in DOMAIN Contents
      BY <1>2, <2>2 DEF Contents
    <3>2. Contents[j] = CHOOSE w \in get(j) : TRUE
      BY <3>1 DEF Contents
    <3>3. QED BY <2>2, <3>1, <3>2
  <2>3. QED BY <2>1, <2>2
<1>6. Contents' = [j \in DOMAIN Contents \union {k} |-> IF j = k THEN v ELSE Contents[j]]
  BY <1>3, <1>4, <1>5
<1>7. QED BY <1>6 DEF Dict!Put

\* What a removal does to what is found.
LEMMA RemoveRefines ==
    ASSUME ChainsInv, ChainsInv', NEW k \in Key,
           \A j \in Key, w \in Value : Bound(j, w)' <=> (j # k /\ Bound(j, w))
    PROVE  Dict!Remove(k)
<1>1. GetExact /\ GetExact'
  BY GetIsBound, FoundAfter
<1>2. \A j \in Key : get(j)' = IF j = k THEN {} ELSE get(j)
  <2>1. \A j \in Key : get(j)' = {w \in Value : Bound(j, w)'}
    BY <1>1 DEF GetExact
  <2>2. QED BY <1>1, <2>1 DEF GetExact
<1>3. Contents' = [j \in {i \in Key : get(i)' # {}} |-> CHOOSE w \in get(j)' : TRUE]
  BY DEF Contents
<1>4. {i \in Key : get(i)' # {}} = DOMAIN Contents \ {k}
  BY <1>2 DEF Contents
<1>5. \A j \in DOMAIN Contents \ {k} : (CHOOSE w \in get(j)' : TRUE) = Contents[j]
  <2> SUFFICES ASSUME NEW j \in DOMAIN Contents \ {k}
               PROVE  (CHOOSE w \in get(j)' : TRUE) = Contents[j]
    OBVIOUS
  <2>1. j \in Key /\ get(j)' = get(j)
    BY <1>2 DEF Contents
  <2>2. Contents[j] = CHOOSE w \in get(j) : TRUE
    BY DEF Contents
  <2>3. QED BY <2>1, <2>2
<1>6. Contents' = [j \in DOMAIN Contents \ {k} |-> Contents[j]]
  BY <1>3, <1>4, <1>5
<1>7. QED BY <1>6 DEF Dict!Remove

\* An empty table is an empty dictionary.
LEMMA StartRefines == Init => Dict!DictInit
<1> SUFFICES ASSUME Init PROVE Contents = [k \in {} |-> 0]
  BY DEF Dict!DictInit, Dict!Empty
<1>1. {j \in Key : get(j) # {}} = {}
  <2>1. Found = {}
    BY ChainsStart, FS_EmptySet DEF ChainedInv, CountsExact, Init
  <2>2. QED BY <2>1 DEF Found
<1>2. QED BY <1>1 DEF Contents

\* An insertion is seen at its own key, and at no other.
LEMMA InsertIsPut ==
    ASSUME ChainedInv, NEW k \in Key, NEW v \in Value, insert(k, v)
    PROVE  Dict!Put(k, v)
<1>1. ChainsInv'
  BY UpdateCounts, PushCounts DEF insert, ChainedInv
<1>2. \A j \in Key, w \in Value : Bound(j, w)' <=> IF j = k THEN w = v ELSE Bound(j, w)
  BY UpdateStep, PushStep DEF insert, ChainedInv
<1>3. QED BY <1>1, <1>2, InsertRefines DEF ChainedInv

LEMMA RemoveIsRemove ==
    ASSUME ChainedInv, NEW k \in Key, remove(k)
    PROVE  Dict!Remove(k)
<1>1. ChainsInv'
  BY RemoveCounts DEF ChainedInv
<1>2. \A j \in Key, w \in Value : Bound(j, w)' <=> (j # k /\ Bound(j, w))
  BY RemoveStep DEF ChainedInv
<1>3. QED BY <1>1, <1>2, RemoveRefines DEF ChainedInv

\* Call by call, the table does what a dictionary does.
CallsRefine ==
    \A k \in Key :
        /\ remove(k) => Dict!Remove(k)
        /\ \A v \in Value : insert(k, v) => Dict!Put(k, v)

LEMMA StepRefines ==
    ASSUME ChainedInv, [Next]_vars
    PROVE  [Dict!DictNext]_Contents /\ [CallsRefine]_vars
<1>1. CallsRefine
  BY InsertIsPut, RemoveIsRemove DEF CallsRefine
<1>2. CASE UNCHANGED vars
  <2>1. Contents' = Contents
    BY <1>2 DEF vars, Contents, get, Positions, hash
  <2>2. QED BY <1>1, <2>1
<1>3. ASSUME NEW k \in Key, remove(k) PROVE Dict!DictNext
  BY <1>3, RemoveIsRemove DEF Dict!DictNext
<1>4. ASSUME NEW k \in Key, removeMissing(k) PROVE UNCHANGED vars
  BY <1>4 DEF removeMissing
<1>5. ASSUME NEW k \in Key, NEW v \in Value, insert(k, v) PROVE Dict!DictNext
  BY <1>5, InsertIsPut DEF Dict!DictNext
<1>6. QED BY <1>1, <1>2, <1>3, <1>4, <1>5 DEF Next

\* The table implements a dictionary: every behaviour of it is one of a
\* dictionary, in which each call changes what is found at its own key and
\* nowhere else, also when keys share a bucket.
THEOREM ChainedImplementsDictionary == Spec => ImplementsDictionary
<1>1. Init => Dict!DictInit
  BY StartRefines
<1>2. ChainedInv /\ [Next]_vars => [Dict!DictNext]_Contents /\ [CallsRefine]_vars
  BY StepRefines
<1>3. QED BY <1>1, <1>2, ChainedInvariant, PTL
         DEF Spec, ImplementsDictionary, Dict!DictSpec, CallsRefine
=============================================================================
