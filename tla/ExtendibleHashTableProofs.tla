---------------------- MODULE ExtendibleHashTableProofs ----------------------
(***************************************************************************)
(* TLAPS proofs about the extendible hash table, for any word width,       *)
(* bucket capacity, keys and values: its directory is exact and no longer  *)
(* than needed, no split overfills a bucket or outgrows the word, and it   *)
(* implements a dictionary.                                                *)
(***************************************************************************)
EXTENDS ExtendibleHashTable, FiniteSetTheorems, SequenceTheorems,
        WellFoundedInduction, TLAPS

-----------------------------------------------------------------------------
(* Arithmetic.                                                             *)

\* A set of natural numbers that is not empty has a least element.
LEMMA LeastNatural ==
    ASSUME NEW R, R \subseteq Nat, R # {}
    PROVE  \E m \in R : \A n \in R : m <= n
<1> DEFINE Below == {p \in Nat \X Nat : p[1] < p[2]}
<1>1. IsWellFoundedOn(Below, Nat)
  BY NatLessThanWellFounded DEF OpToRel
<1> HIDE DEF Below
<1>2. PICK m \in R : \A n \in R : <<n, m>> \notin Below
  BY <1>1, WFMin
<1>3. \A n \in R : ~ (n < m)
  BY <1>2 DEF Below
<1>4. QED BY <1>3

\* A power of two counts the subsets of a finite set.
LEMMA PowerIsNat == ASSUME NEW n \in Nat PROVE 2^n \in Nat \ {0}
<1>1. IsFiniteSet(1 .. n) /\ Cardinality(1 .. n) = n
  BY FS_Interval
<1>2. IsFiniteSet(SUBSET (1 .. n)) /\ Cardinality(SUBSET (1 .. n)) = 2^n
  BY <1>1, FS_SUBSET
<1>3. Cardinality(SUBSET (1 .. n)) \in Nat /\ Cardinality(SUBSET (1 .. n)) # 0
  BY <1>2, FS_CardinalityType, FS_EmptySet
<1>4. QED BY <1>2, <1>3

\* The empty set has one subset.
LEMMA PowerOfZero == 2^0 = 1
<1>1. IsFiniteSet({}) /\ Cardinality({}) = 0
  BY FS_EmptySet
<1>2. Cardinality(SUBSET {}) = 2^0
  BY <1>1, FS_SUBSET
<1>3. SUBSET {} = {{}}
  OBVIOUS
<1>4. Cardinality({{}}) = 1
  BY FS_Singleton
<1>5. QED BY <1>2, <1>3, <1>4

\* One element more doubles the subsets: those without it and those with it.
LEMMA PowerStep == ASSUME NEW n \in Nat PROVE 2^(n + 1) = 2 * 2^n
<1> DEFINE S == SUBSET (1 .. n)
           T == {s \union {n + 1} : s \in S}
           f == [s \in S |-> s \union {n + 1}]
<1>1. IsFiniteSet(1 .. n) /\ Cardinality(1 .. n) = n
  BY FS_Interval
<1>2. IsFiniteSet(S) /\ Cardinality(S) = 2^n
  BY <1>1, FS_SUBSET
<1>3. IsFiniteSet(1 .. n + 1) /\ Cardinality(1 .. n + 1) = n + 1
  BY FS_Interval
<1>4. IsFiniteSet(SUBSET (1 .. n + 1)) /\ Cardinality(SUBSET (1 .. n + 1)) = 2^(n + 1)
  BY <1>3, FS_SUBSET
<1>5. SUBSET (1 .. n + 1) = S \union T
  <2>1. ASSUME NEW u \in SUBSET (1 .. n + 1), u \notin S PROVE u \in T
    <3>1. n + 1 \in u /\ u \ {n + 1} \in S
      BY <2>1
    <3>2. u = (u \ {n + 1}) \union {n + 1}
      BY <3>1
    <3>3. QED BY <3>1, <3>2
  <2>2. ASSUME NEW u \in S PROVE u \in SUBSET (1 .. n + 1) /\ u \union {n + 1} \in SUBSET (1 .. n + 1)
    OBVIOUS
  <2>3. T \subseteq SUBSET (1 .. n + 1)
    BY <2>2
  <2>4. S \subseteq SUBSET (1 .. n + 1)
    BY <2>2
  <2>5. QED
    <3> HIDE DEF S, T
    <3> QED BY <2>1, <2>3, <2>4
<1>6. S \intersect T = {}
  OBVIOUS
<1>7. ExistsBijection(S, T)
  <2>1. f \in Bijection(S, T)
    <3>1. f \in [S -> T] /\ \A t \in T : \E s \in S : f[s] = t
      OBVIOUS
    <3>2. ASSUME NEW s \in S, NEW u \in S, f[s] = f[u] PROVE s = u
      <4>1. n + 1 \notin s /\ n + 1 \notin u /\ s \union {n + 1} = u \union {n + 1}
        BY <3>2
      <4>2. QED BY <4>1
    <3>3. QED BY <3>1, <3>2 DEF Bijection, Injection, Surjection, IsInjective
  <2>2. QED BY <2>1 DEF ExistsBijection
<1>8. IsFiniteSet(T) /\ Cardinality(T) = 2^n
  BY <1>2, <1>7, FS_Bijection
<1>9. Cardinality(S \union T) = Cardinality(S) + Cardinality(T)
  <2> HIDE DEF S, T
  <2>1. Cardinality(S \union T) = Cardinality(S) + Cardinality(T) - Cardinality(S \intersect T)
    BY <1>2, <1>8, FS_Union
  <2>2. Cardinality(S \intersect T) = 0
    BY <1>6, FS_EmptySet
  <2>3. Cardinality(S) \in Nat /\ Cardinality(T) \in Nat
    BY <1>2, <1>8, PowerIsNat
  <2>4. QED BY <2>1, <2>2, <2>3
<1>10. 2^(n + 1) = 2^n + 2^n
  <2> HIDE DEF S, T
  <2> QED BY <1>2, <1>4, <1>5, <1>8, <1>9
<1>11. QED BY <1>10, PowerIsNat

\* Division with remainder is unique.
LEMMA ModUnique ==
    ASSUME NEW m \in Nat \ {0}, NEW q \in Int, NEW r \in 0 .. m - 1, NEW a \in Int, a = m * q + r
    PROVE  a % m = r /\ a \div m = q
  OBVIOUS

\* Quotient and remainder make up the number.
LEMMA ModDivides ==
    ASSUME NEW m \in Nat \ {0}, NEW a \in Int
    PROVE  a = m * (a \div m) + (a % m) /\ a % m \in 0 .. m - 1 /\ a \div m \in Int
  OBVIOUS

\* The remainder of a remainder by a multiple.
LEMMA ModNest ==
    ASSUME NEW m \in Nat \ {0}, NEW c \in Nat \ {0}, NEW a \in Int
    PROVE  (a % (c * m)) % m = a % m
<1> DEFINE k == c * m
           r == a % k
           q == a \div k
           s == r \div m
           u == r % m
<1>1. k \in Nat \ {0}
  OBVIOUS
<1>2. a = k * q + r /\ r \in Int /\ q \in Int
  <2> HIDE DEF k
  <2> QED BY <1>1, ModDivides
<1>3. r = m * s + u /\ u \in 0 .. m - 1 /\ s \in Int
  <2> HIDE DEF r
  <2> QED BY <1>2, ModDivides
<1>4. a = m * (c * q + s) + u /\ c * q + s \in Int
  <2> HIDE DEF r, q, s, u
  <2> QED BY <1>2, <1>3
<1>5. a % m = u
  <2> HIDE DEF r, q, s, u
  <2> QED BY <1>3, <1>4, ModUnique
<1>6. QED BY <1>5

\* A power of two divides the higher ones.
LEMMA PowerDivides ==
    ASSUME NEW d \in Nat, NEW e \in Nat
    PROVE  \E c \in Nat \ {0} : 2^(d + e) = c * 2^d
<1> DEFINE Bad == {n \in Nat : ~ \E c \in Nat \ {0} : 2^(d + n) = c * 2^d}
<1>1. Bad = {}
  <2> SUFFICES ASSUME Bad # {} PROVE FALSE
    OBVIOUS
  <2>1. PICK n \in Bad : \A k \in Bad : n <= k
    <3>1. Bad \subseteq Nat
      OBVIOUS
    <3> HIDE DEF Bad
    <3>2. QED BY <3>1, LeastNatural
  <2>2. CASE n = 0
    <3>1. 2^(d + n) = 1 * 2^d
      BY <2>2, PowerIsNat
    <3>2. QED BY <3>1
  <2>3. CASE n # 0
    <3>1. n - 1 \in Nat /\ n - 1 \notin Bad
      <4>1. n \in Nat
        OBVIOUS
      <4> HIDE DEF Bad
      <4>2. QED BY <2>1, <2>3, <4>1
    <3>2. PICK c \in Nat \ {0} : 2^(d + (n - 1)) = c * 2^d
      BY <3>1
    <3>3. d + (n - 1) \in Nat /\ (d + (n - 1)) + 1 = d + n
      BY <3>1
    <3>4. 2^(d + n) = 2 * (c * 2^d)
      BY <3>2, <3>3, PowerStep
    <3>5. 2 * (c * 2^d) = (2 * c) * 2^d /\ 2 * c \in Nat \ {0}
      BY PowerIsNat
    <3>6. QED BY <3>4, <3>5
  <2>4. QED BY <2>2, <2>3
<1>2. QED BY <1>1

\* The low d bits of the low g bits.
LEMMA LowBits ==
    ASSUME NEW a \in Int, NEW d \in Nat, NEW g \in Nat, d <= g
    PROVE  (a % 2^g) % 2^d = a % 2^d
<1>1. g - d \in Nat /\ d + (g - d) = g
  OBVIOUS
<1>2. PICK c \in Nat \ {0} : 2^g = c * 2^d
  BY <1>1, PowerDivides
<1>3. 2^d \in Nat \ {0}
  BY PowerIsNat
<1>4. (a % (c * 2^d)) % 2^d = a % 2^d
  BY <1>3, ModNest
<1>5. QED BY <1>2, <1>4

\* One bit more: the bit that Bit looks at.
LEMMA NextBit ==
    ASSUME NEW a \in Int, NEW n \in Nat
    PROVE  a % 2^(n + 1) = IF Bit(a, n) THEN (a % 2^n) + 2^n ELSE a % 2^n
<1> DEFINE m == 2^n
           r == a % m
           q == a \div m
           b == q % 2
           p == q \div 2
<1>1. m \in Nat \ {0} /\ 2^(n + 1) = 2 * m
  BY PowerIsNat, PowerStep
<1> HIDE DEF m
<1>2. a = m * q + r /\ r \in 0 .. m - 1 /\ q \in Int
  BY <1>1, ModDivides
<1> HIDE DEF q, r
<1>3. q = 2 * p + b /\ b \in 0 .. 1 /\ p \in Int
  BY <1>2, ModDivides
<1>4. Bit(a, n) <=> b = 1
  BY DEF Bit, q, m
<1> HIDE DEF p, b
<1>5. CASE b = 0
  <2>1. a = (2 * m) * p + r
    BY <1>1, <1>2, <1>3, <1>5
  <2>2. 2 * m \in Nat \ {0} /\ r \in 0 .. 2 * m - 1
    BY <1>1, <1>2
  <2>3. a % (2 * m) = r
    BY <1>3, <2>1, <2>2, ModUnique
  <2>4. QED BY <1>1, <1>4, <1>5, <2>3 DEF r, m
<1>6. CASE b = 1
  <2>1. a = (2 * m) * p + (r + m)
    BY <1>1, <1>2, <1>3, <1>6
  <2>2. 2 * m \in Nat \ {0} /\ r + m \in 0 .. 2 * m - 1
    BY <1>1, <1>2
  <2>3. a % (2 * m) = r + m
    BY <1>3, <2>1, <2>2, ModUnique
  <2>4. QED BY <1>1, <1>4, <1>6, <2>3 DEF r, m
<1>7. QED BY <1>3, <1>5, <1>6

\* An odd factor loses no low bits.
LEMMA OddFactor ==
    ASSUME NEW M \in Int, M % 2 = 1, NEW w \in Nat, NEW d \in Int, (d * M) % 2^w = 0
    PROVE  d % 2^w = 0
<1> DEFINE Bad == {n \in Nat : \E x \in Int : (x * M) % 2^n = 0 /\ x % 2^n # 0}
<1>1. Bad = {}
  <2> SUFFICES ASSUME Bad # {} PROVE FALSE
    OBVIOUS
  <2>1. PICK n \in Bad : \A k \in Bad : n <= k
    <3>1. Bad \subseteq Nat
      OBVIOUS
    <3> HIDE DEF Bad
    <3>2. QED BY <3>1, LeastNatural
  <2>2. PICK x \in Int : (x * M) % 2^n = 0 /\ x % 2^n # 0
    OBVIOUS
  <2>3. CASE n = 0
    <3>1. 2^n = 1
      BY <2>3, PowerOfZero
    <3>2. QED BY <2>2, <3>1
  <2>4. CASE n # 0
    <3> DEFINE m == 2^(n - 1)
    <3>1. n - 1 \in Nat /\ n - 1 \notin Bad /\ (n - 1) + 1 = n
      <4>1. n \in Nat
        OBVIOUS
      <4> HIDE DEF Bad
      <4>2. QED BY <2>1, <2>4, <4>1
    <3>2. m \in Nat \ {0} /\ 2^n = 2 * m
      BY <3>1, PowerIsNat, PowerStep
    <3>3. \A y \in Int : (y * M) % m = 0 => y % m = 0
      BY <3>1
    <3> HIDE DEF m, Bad
    <3>4. PICK e \in Int : x * M = (2 * m) * e
      <4>1. x * M \in Int /\ 2 * m \in Nat \ {0}
        BY <3>2
      <4>2. x * M = (2 * m) * ((x * M) \div (2 * m)) + 0 /\ (x * M) \div (2 * m) \in Int
        BY <2>2, <3>2, <4>1, ModDivides
      <4>3. QED BY <4>2, <3>2
    <3>5. PICK j \in Int : M = 2 * j + 1
      BY ModDivides
    <3>6. x = 2 * (m * e - j * x)
      <4>1. x * M = 2 * (j * x) + x
        BY <3>5
      <4>2. (2 * m) * e = 2 * (m * e)
        BY <3>2
      <4>3. m * e \in Int /\ j * x \in Int
        BY <3>2
      <4>4. QED BY <3>4, <4>1, <4>2, <4>3
    <3> DEFINE f == m * e - j * x
    <3>7. f \in Int /\ x = 2 * f
      BY <3>2, <3>6
    <3> HIDE DEF f
    <3>8. f * M = m * e
      <4>1. x * M = 2 * (f * M)
        BY <3>7
      <4>2. (2 * m) * e = 2 * (m * e) /\ m * e \in Int /\ f * M \in Int
        BY <3>2, <3>7
      <4>3. QED BY <3>4, <4>1, <4>2
    <3>9. (f * M) % m = 0
      <4> DEFINE h == f * M
      <4>1. h = m * e + 0 /\ 0 \in 0 .. m - 1 /\ h \in Int
        BY <3>2, <3>7, <3>8
      <4>4. m \in Nat \ {0}
        BY <3>2
      <4> HIDE DEF h
      <4>2. h % m = 0
        BY ONLY <4>1, <4>4, e \in Int, ModUnique
      <4>3. QED BY <4>2 DEF h
    <3>10. f = m * (f \div m) + 0 /\ f \div m \in Int
      <4>1. f % m = 0
        BY <3>3, <3>7, <3>9
      <4>2. f = m * (f \div m) + (f % m) /\ f \div m \in Int
        BY <3>2, <3>7, ModDivides
      <4>3. QED BY <4>1, <4>2
    <3>11. x = (2 * m) * (f \div m) + 0
      BY <3>2, <3>7, <3>10
    <3>12. x % (2 * m) = 0
      <4>1. 2 * m \in Nat \ {0} /\ 0 \in 0 .. 2 * m - 1
        BY <3>2
      <4>2. QED BY <3>10, <3>11, <4>1, ModUnique
    <3>13. QED BY <2>2, <3>2, <3>12
  <2>5. QED BY <2>3, <2>4
<1>2. QED BY <1>1

\* Counting to n.
LEMMA IntervalSize ==
    ASSUME NEW n \in Nat
    PROVE  /\ IsFiniteSet(1 .. n) /\ Cardinality(1 .. n) = n
           /\ 1 .. n + 1 = (1 .. n) \union {n + 1}
  BY FS_Interval

-----------------------------------------------------------------------------
(* The hash.                                                               *)

\* The low bits of a hash are a slot, and have low bits of their own.
LEMMA LowType ==
    ASSUME HashAssumption, NEW k \in Key, NEW d \in Nat
    PROVE  /\ Low(k, d) \in Slots(d)
           /\ \A e \in 0 .. d : Low(k, d) % 2^e = Low(k, e)
<1> DEFINE w == 2^Width
           x == ((k % w) * Multiplier) % w
<1>1. w \in Nat \ {0} /\ k \in Int /\ Multiplier \in Nat
  BY PowerIsNat DEF HashAssumption
<1>2. x \in Int
  <2> HIDE DEF w
  <2>1. k % w \in Int
    BY <1>1
  <2> DEFINE y == (k % w) * Multiplier
  <2>2. y \in Int
    BY <1>1, <2>1
  <2> HIDE DEF y
  <2>3. y % w \in Int
    BY <1>1, <2>2
  <2>4. QED BY <2>3 DEF y
<1>3. \A e \in Nat : Low(k, e) = x % 2^e
  BY DEF Low
<1> HIDE DEF x
<1>4. Low(k, d) \in Slots(d)
  BY <1>2, <1>3, PowerIsNat, ModDivides DEF Slots
<1>5. ASSUME NEW e \in 0 .. d PROVE Low(k, d) % 2^e = Low(k, e)
  <2>1. e \in Nat /\ e <= d
    OBVIOUS
  <2>2. (x % 2^d) % 2^e = x % 2^e
    BY <1>2, <2>1, LowBits
  <2>3. QED BY <1>3, <2>1, <2>2
<1>6. QED BY <1>4, <1>5

\* At full width no two keys have one hash.
LEMMA LowInjective ==
    ASSUME HashAssumption, NEW a \in Key, NEW b \in Key, Low(a, Width) = Low(b, Width)
    PROVE  a = b
<1> DEFINE w == 2^Width
           h == 2^(Width - 1)
           x == a % w
           y == b % w
           M == Multiplier
<1>1. /\ w \in Nat \ {0} /\ h \in Nat \ {0} /\ w = 2 * h
      /\ a \in -h .. h - 1 /\ b \in -h .. h - 1 /\ M \in Nat /\ M % 2 = 1
      /\ Width \in Nat
  <2>1. Width \in Nat /\ Width - 1 \in Nat /\ (Width - 1) + 1 = Width
    BY DEF HashAssumption
  <2>2. 2^((Width - 1) + 1) = 2 * 2^(Width - 1)
    BY <2>1, PowerStep
  <2>3. w \in Nat \ {0} /\ h \in Nat \ {0}
    BY <2>1, PowerIsNat
  <2>4. Key \subseteq -h .. h - 1 /\ M \in 1 .. w - 1 /\ M % 2 = 1
    BY DEF HashAssumption
  <2>5. QED BY <2>1, <2>2, <2>3, <2>4
<1>2. ((x * M) % w) % w = ((y * M) % w) % w
  BY DEF Low
<1> HIDE DEF w, h, M
<1>3. x \in 0 .. w - 1 /\ y \in 0 .. w - 1 /\ a \in Int /\ b \in Int
  BY <1>1, ModDivides
<1>4. a = w * (a \div w) + x /\ b = w * (b \div w) + y /\ a \div w \in Int /\ b \div w \in Int
  BY <1>1, <1>3, ModDivides
<1> HIDE DEF x, y
<1>5. (x * M) % w = (y * M) % w
  <2> DEFINE p == x * M
             q == y * M
  <2>1. p \in Int /\ q \in Int
    BY <1>1, <1>3
  <2> HIDE DEF p, q
  <2>2. (p % w) % w = p % w /\ (q % w) % w = q % w
    BY <1>1, <2>1
  <2>3. p % w = q % w
    BY <1>2, <2>2 DEF p, q
  <2>4. QED BY <2>3 DEF p, q
<1>6. ((x - y) * M) % w = 0
  <2> DEFINE p == x * M
             q == y * M
             u == p \div w
             v == q \div w
             s == (x - y) * M
  <2>1. p \in Int /\ q \in Int /\ s = p - q
    BY <1>1, <1>3
  <2>2. p % w = q % w
    BY <1>5
  <2> HIDE DEF p, q, s
  <2>3. p = w * u + (p % w) /\ q = w * v + (q % w) /\ u \in Int /\ v \in Int
    BY <1>1, <2>1, ModDivides
  <2>4. p % w \in Int
    BY <1>1, <2>1
  <2> HIDE DEF u, v
  <2>5. s = w * (u - v) + 0 /\ u - v \in Int /\ 0 \in 0 .. w - 1 /\ s \in Int
    BY <1>1, <2>1, <2>2, <2>3, <2>4
  <2>6. s % w = 0
    BY ONLY <1>1, <2>5, ModUnique
  <2>7. QED BY <2>6 DEF s
<1>7. (x - y) % w = 0
  <2> DEFINE d == x - y
  <2>1. d \in Int /\ M \in Int /\ M % 2 = 1 /\ Width \in Nat
    BY <1>1, <1>3
  <2>2. (d * M) % 2^Width = 0
    BY <1>6 DEF w
  <2> HIDE DEF d
  <2>3. d % 2^Width = 0
    BY ONLY <2>1, <2>2, OddFactor
  <2>4. QED BY <2>3 DEF d, w
<1>8. x = y
  <2> DEFINE d == x - y
  <2>1. d \in Int /\ d < w /\ -w < d
    BY <1>1, <1>3
  <2>2. d % w = 0
    BY <1>7
  <2> HIDE DEF d
  <2>3. d = 0
    BY <1>1, <2>1, <2>2
  <2>4. QED BY <1>3, <2>3 DEF d
<1>9. a - b = w * (a \div w - b \div w)
  <2> DEFINE p == a \div w
             q == b \div w
  <2>1. a = w * p + x /\ b = w * q + x /\ p \in Int /\ q \in Int
    BY <1>4, <1>8
  <2> HIDE DEF p, q
  <2>2. a - b = w * (p - q)
    BY <1>1, <1>3, <2>1
  <2>3. QED BY <2>2 DEF p, q
<1>10. a - b < w /\ -w < a - b
  BY <1>1
<1> DEFINE j == a \div w - b \div w
<1>11. j \in Int
  BY <1>4
<1> HIDE DEF j
<1>12. j = 0
  <2>1. a - b = w * j
    BY <1>9 DEF j
  <2>2. j >= 1 => w * j >= w
    BY <1>1, <1>11
  <2>3. j <= -1 => w * j <= -w
    BY <1>1, <1>11
  <2>4. QED BY <1>1, <1>3, <1>10, <1>11, <2>1, <2>2, <2>3
<1>13. QED BY <1>3, <1>1, <1>9, <1>12 DEF j

-----------------------------------------------------------------------------
(* A table as it should be: of its type, every slot of a bucket's low bits *)
(* pointing at it and no other, every entry in the bucket that its key's   *)
(* hash leads to, and no key twice in a bucket.                            *)

BucketType == [local_depth : 0 .. Width, entries : Seq(Key \X Value)]

Typed(t) ==
    /\ t \in [global_depth : 0 .. Width,
              directory : [Slots(t.global_depth) -> DOMAIN t.buckets],
              buckets : Seq(BucketType)]
    /\ \A b \in DOMAIN t.buckets : t.buckets[b].local_depth <= t.global_depth

Pointed(t) ==
    \A b \in DOMAIN t.buckets :
        \E low \in Slots(t.buckets[b].local_depth) :
            \A i \in Slots(t.global_depth) :
                t.directory[i] = b <=> i % 2^t.buckets[b].local_depth = low

Placed(t) ==
    \A b \in DOMAIN t.buckets : \A i \in DOMAIN t.buckets[b].entries :
        bucket_index_for_key(t, t.buckets[b].entries[i][1]) = b

Distinct(t) ==
    \A b \in DOMAIN t.buckets : \A i, j \in DOMAIN t.buckets[b].entries :
        t.buckets[b].entries[i][1] = t.buckets[b].entries[j][1] => i = j

Sound(t) == Typed(t) /\ Pointed(t) /\ Placed(t) /\ Distinct(t)

Roomy(t) == \A b \in DOMAIN t.buckets : Len(t.buckets[b].entries) <= BUCKET_CAPACITY

\* The entries of a table, of a bucket, and the keys of a table.
EntriesOf(s) == {s[i] : i \in DOMAIN s}

Held(t) == UNION {EntriesOf(t.buckets[b].entries) : b \in DOMAIN t.buckets}

HeldKeys(t) == {e[1] : e \in Held(t)}

\* Every key has a bucket.
LEMMA KeyHasBucket ==
    ASSUME HashAssumption, NEW t, Typed(t), NEW k \in Key
    PROVE  /\ hash(t, k) \in Slots(t.global_depth)
           /\ bucket_index_for_key(t, k) \in DOMAIN t.buckets
<1>1. t.global_depth \in Nat
  BY DEF Typed, HashAssumption
<1>2. hash(t, k) \in Slots(t.global_depth)
  BY <1>1, LowType DEF hash
<1>3. t.directory \in [Slots(t.global_depth) -> DOMAIN t.buckets]
  BY DEF Typed
<1>4. QED BY <1>2, <1>3 DEF bucket_index_for_key

\* A bucket of a table and its entries.
LEMMA BucketParts ==
    ASSUME NEW t, Typed(t), NEW b \in DOMAIN t.buckets
    PROVE  /\ t.buckets[b] \in BucketType
           /\ t.buckets[b].local_depth \in Nat
           /\ t.buckets[b].entries \in Seq(Key \X Value)
           /\ Len(t.buckets[b].entries) \in Nat
           /\ DOMAIN t.buckets[b].entries = 1 .. Len(t.buckets[b].entries)
           /\ \A i \in DOMAIN t.buckets[b].entries :
                /\ t.buckets[b].entries[i] \in Held(t)
                /\ t.buckets[b].entries[i][1] \in Key
                /\ t.buckets[b].entries[i][2] \in Value
                /\ t.buckets[b].entries[i] =
                     <<t.buckets[b].entries[i][1], t.buckets[b].entries[i][2]>>
<1>1. t.buckets \in Seq(BucketType)
  BY DEF Typed
<1>2. t.buckets[b] \in BucketType
  BY <1>1
<1>3. /\ t.buckets[b].local_depth \in Nat
      /\ t.buckets[b].entries \in Seq(Key \X Value)
  BY <1>2 DEF BucketType
<1>4. \A i \in DOMAIN t.buckets[b].entries : t.buckets[b].entries[i] \in Held(t)
  BY DEF Held, EntriesOf
<1>5. /\ Len(t.buckets[b].entries) \in Nat
      /\ DOMAIN t.buckets[b].entries = 1 .. Len(t.buckets[b].entries)
      /\ \A i \in DOMAIN t.buckets[b].entries : t.buckets[b].entries[i] \in Key \X Value
  BY <1>3
<1>6. QED BY <1>2, <1>3, <1>4, <1>5

\* A key is known where its hash leads exactly when it is held anywhere.
LEMMA KnownIsHeld ==
    ASSUME HashAssumption, NEW t, Typed(t), Placed(t), NEW k \in Key
    PROVE  Known(t, k) <=> k \in HeldKeys(t)
<1> DEFINE b == bucket_index_for_key(t, k)
           es == t.buckets[b].entries
<1>1. b \in DOMAIN t.buckets
  BY KeyHasBucket
<1>2. ASSUME Known(t, k) PROVE k \in HeldKeys(t)
  <2>1. PICK i \in DOMAIN es : es[i][1] = k
    BY <1>2 DEF Known, EntriesFor
  <2>2. es[i] \in Held(t)
    BY <1>1, <2>1 DEF Held, EntriesOf
  <2>3. QED BY <2>1, <2>2 DEF HeldKeys
<1>3. ASSUME k \in HeldKeys(t) PROVE Known(t, k)
  <2>1. PICK c \in DOMAIN t.buckets : \E i \in DOMAIN t.buckets[c].entries :
            t.buckets[c].entries[i][1] = k
    BY <1>3 DEF HeldKeys, Held, EntriesOf
  <2>2. c = b
    BY <2>1 DEF Placed
  <2>3. QED BY <2>1, <2>2 DEF Known, EntriesFor
<1>4. QED BY <1>2, <1>3

-----------------------------------------------------------------------------
(* One entry more.                                                         *)

\* What AddEntry changes, and what it leaves alone.
LEMMA AddEntryParts ==
    ASSUME HashAssumption, NEW t, Typed(t), NEW k \in Key, NEW v \in Value
    PROVE  LET u == AddEntry(t, k, v)
               b == bucket_index_for_key(t, k)
           IN /\ Typed(u)
              /\ u.global_depth = t.global_depth
              /\ u.directory = t.directory
              /\ Len(u.buckets) = Len(t.buckets)
              /\ DOMAIN u.buckets = DOMAIN t.buckets
              /\ \A c \in DOMAIN t.buckets :
                   /\ u.buckets[c].local_depth = t.buckets[c].local_depth
                   /\ u.buckets[c].entries = IF c = b THEN Append(t.buckets[c].entries, <<k, v>>)
                                             ELSE t.buckets[c].entries
<1> DEFINE u == AddEntry(t, k, v)
           b == bucket_index_for_key(t, k)
           es == Append(t.buckets[b].entries, <<k, v>>)
           new == [t.buckets[b] EXCEPT !.entries = es]
           bs == [t.buckets EXCEPT ![b] = new]
<1>1. b \in DOMAIN t.buckets
  BY KeyHasBucket
<1>2. /\ t \in [global_depth : 0 .. Width,
                directory : [Slots(t.global_depth) -> DOMAIN t.buckets],
                buckets : Seq(BucketType)]
      /\ t.buckets \in Seq(BucketType)
  BY DEF Typed
<1>3. u = [t EXCEPT !.buckets = bs]
  BY DEF AddEntry
<1>4. es \in Seq(Key \X Value)
  BY <1>1, BucketParts, AppendProperties
<1>5. new \in BucketType /\ new.local_depth = t.buckets[b].local_depth /\ new.entries = es
  BY <1>1, <1>4, BucketParts DEF BucketType
<1> HIDE DEF new
<1>6. bs \in Seq(BucketType) /\ Len(bs) = Len(t.buckets) /\ DOMAIN bs = DOMAIN t.buckets
  BY <1>1, <1>2, <1>5, ExceptSeq
<1>7. \A c \in DOMAIN t.buckets : bs[c] = IF c = b THEN new ELSE t.buckets[c]
  BY <1>1, <1>2
<1>8. u.buckets = bs /\ u.global_depth = t.global_depth /\ u.directory = t.directory
  BY <1>2, <1>3
<1>9. u \in [global_depth : 0 .. Width,
             directory : [Slots(t.global_depth) -> DOMAIN t.buckets],
             buckets : Seq(BucketType)]
  <2> HIDE DEF bs
  <2> QED BY <1>2, <1>3, <1>6
<1>10. \A c \in DOMAIN t.buckets : t.buckets[c].local_depth <= t.global_depth
  BY DEF Typed
<1>11. Typed(u)
  <2> HIDE DEF u, bs
  <2> QED BY <1>5, <1>6, <1>7, <1>8, <1>9, <1>10 DEF Typed
<1>12. QED
  <2> HIDE DEF u, bs, b
  <2>1. \A c \in DOMAIN t.buckets :
          /\ u.buckets[c].local_depth = t.buckets[c].local_depth
          /\ u.buckets[c].entries = IF c = b THEN Append(t.buckets[c].entries, <<k, v>>)
                                    ELSE t.buckets[c].entries
    BY <1>5, <1>7, <1>8
  <2>2. QED BY <1>6, <1>8, <1>11, <2>1 DEF u, b

\* An entry appended is one entry more.
LEMMA EntriesOfAppend ==
    ASSUME NEW S, NEW s \in Seq(S), NEW e \in S
    PROVE  EntriesOf(Append(s, e)) = EntriesOf(s) \union {e}
<1> DEFINE n == Len(s)
           q == Append(s, e)
<1>1. n \in Nat /\ DOMAIN s = 1 .. n /\ DOMAIN q = 1 .. n + 1
      /\ q[n + 1] = e /\ \A i \in 1 .. n : q[i] = s[i]
  BY AppendProperties
<1>2. n + 1 \in 1 .. n + 1 /\ 1 .. n + 1 = (1 .. n) \union {n + 1}
  BY <1>1, IntervalSize
<1> HIDE DEF n, q
<1>3. {q[i] : i \in DOMAIN q} = {s[i] : i \in DOMAIN s} \union {e}
  BY <1>1, <1>2
<1>4. QED BY <1>3 DEF EntriesOf, q

\* An entry for a key that is not held keeps the table sound.
LEMMA AddEntrySound ==
    ASSUME HashAssumption, NEW t, Sound(t), NEW k \in Key, NEW v \in Value, k \notin HeldKeys(t)
    PROVE  LET u == AddEntry(t, k, v)
           IN /\ Sound(u)
              /\ Held(u) = Held(t) \union {<<k, v>>}
<1> DEFINE u == AddEntry(t, k, v)
           b == bucket_index_for_key(t, k)
           old == t.buckets[b].entries
<1>1. Typed(t) /\ Pointed(t) /\ Placed(t) /\ Distinct(t)
  BY DEF Sound
<1>2. b \in DOMAIN t.buckets
  BY <1>1, KeyHasBucket
<1>3. /\ Typed(u)
      /\ u.global_depth = t.global_depth
      /\ u.directory = t.directory
      /\ DOMAIN u.buckets = DOMAIN t.buckets
      /\ \A c \in DOMAIN t.buckets :
           /\ u.buckets[c].local_depth = t.buckets[c].local_depth
           /\ u.buckets[c].entries = IF c = b THEN Append(t.buckets[c].entries, <<k, v>>)
                                     ELSE t.buckets[c].entries
  BY <1>1, AddEntryParts
<1>4. /\ old \in Seq(Key \X Value) /\ Len(old) \in Nat /\ DOMAIN old = 1 .. Len(old)
      /\ \A i \in DOMAIN old : old[i] \in Held(t)
  BY <1>1, <1>2, BucketParts
<1>5. /\ DOMAIN Append(old, <<k, v>>) = 1 .. Len(old) + 1
      /\ \A i \in 1 .. Len(old) + 1 :
           Append(old, <<k, v>>)[i] = IF i = Len(old) + 1 THEN <<k, v>> ELSE old[i]
  BY <1>4
<1>6. \A x : bucket_index_for_key(u, x) = bucket_index_for_key(t, x)
  BY <1>3 DEF bucket_index_for_key, hash
<1> HIDE DEF u
<1>7. Pointed(u)
  BY <1>1, <1>3 DEF Pointed
<1>8. Placed(u)
  <2> SUFFICES ASSUME NEW c \in DOMAIN t.buckets, NEW i \in DOMAIN u.buckets[c].entries
               PROVE  bucket_index_for_key(t, u.buckets[c].entries[i][1]) = c
    BY <1>3, <1>6 DEF Placed
  <2>1. CASE c = b
    <3>1. i \in 1 .. Len(old) + 1 /\ u.buckets[c].entries[i] = IF i = Len(old) + 1 THEN <<k, v>> ELSE old[i]
      BY <1>3, <1>5, <2>1
    <3>2. CASE i = Len(old) + 1
      BY <2>1, <3>1, <3>2
    <3>3. CASE i # Len(old) + 1
      <4>1. i \in DOMAIN old
        BY <1>4, <3>1, <3>3
      <4>2. QED BY <1>1, <1>2, <2>1, <3>1, <3>3, <4>1 DEF Placed
    <3>4. QED BY <3>2, <3>3
  <2>2. CASE c # b
    <3>1. u.buckets[c].entries = t.buckets[c].entries
      BY <1>3, <2>2
    <3>2. QED BY <1>1, <3>1 DEF Placed
  <2>3. QED BY <2>1, <2>2
<1>9. Distinct(u)
  <2> SUFFICES ASSUME NEW c \in DOMAIN t.buckets,
                      NEW i \in DOMAIN u.buckets[c].entries, NEW j \in DOMAIN u.buckets[c].entries,
                      u.buckets[c].entries[i][1] = u.buckets[c].entries[j][1]
               PROVE  i = j
    BY <1>3 DEF Distinct
  <2>1. CASE c = b
    <3>1. /\ i \in 1 .. Len(old) + 1 /\ u.buckets[c].entries[i] = IF i = Len(old) + 1 THEN <<k, v>> ELSE old[i]
          /\ j \in 1 .. Len(old) + 1 /\ u.buckets[c].entries[j] = IF j = Len(old) + 1 THEN <<k, v>> ELSE old[j]
      BY <1>3, <1>5, <2>1
    <3>2. \A n \in DOMAIN old : old[n][1] # k
      BY <1>4 DEF HeldKeys
    <3>3. \A n \in 1 .. Len(old) + 1 : n # Len(old) + 1 => n \in DOMAIN old
      BY <1>4
    <3>4. \A m, n \in DOMAIN old : old[m][1] = old[n][1] => m = n
      BY <1>1, <1>2 DEF Distinct
    <3>5. CASE i = Len(old) + 1
      BY <3>1, <3>2, <3>3, <3>5
    <3>6. CASE j = Len(old) + 1
      BY <3>1, <3>2, <3>3, <3>6
    <3>7. CASE i # Len(old) + 1 /\ j # Len(old) + 1
      BY <3>1, <3>3, <3>4, <3>7
    <3>8. QED BY <3>5, <3>6, <3>7
  <2>2. CASE c # b
    <3>1. u.buckets[c].entries = t.buckets[c].entries
      BY <1>3, <2>2
    <3>2. QED BY <1>1, <3>1 DEF Distinct
  <2>3. QED BY <2>1, <2>2
<1>10. Held(u) = Held(t) \union {<<k, v>>}
  <2>1. EntriesOf(u.buckets[b].entries) = EntriesOf(old) \union {<<k, v>>}
    <3>1. u.buckets[b].entries = Append(old, <<k, v>>)
      BY <1>2, <1>3
    <3>2. <<k, v>> \in Key \X Value
      OBVIOUS
    <3>3. old \in Seq(Key \X Value)
      BY <1>4
    <3> HIDE DEF old
    <3>4. EntriesOf(Append(old, <<k, v>>)) = EntriesOf(old) \union {<<k, v>>}
      BY <3>2, <3>3, EntriesOfAppend
    <3>5. QED BY <3>1, <3>4
  <2>2. \A c \in DOMAIN t.buckets : c # b =>
          EntriesOf(u.buckets[c].entries) = EntriesOf(t.buckets[c].entries)
    BY <1>3
  <2> DEFINE A(c) == EntriesOf(t.buckets[c].entries)
             B(c) == EntriesOf(u.buckets[c].entries)
             D == DOMAIN t.buckets
  <2>3. Held(t) = UNION {A(c) : c \in D} /\ Held(u) = UNION {B(c) : c \in D}
    BY <1>3 DEF Held
  <2>4. b \in D /\ B(b) = A(b) \union {<<k, v>>} /\ \A c \in D : c # b => B(c) = A(c)
    BY <1>2, <2>1, <2>2
  <2> HIDE DEF A, B, D
  <2>5. QED BY <2>3, <2>4
<1>11. QED BY <1>3, <1>7, <1>8, <1>9, <1>10 DEF Sound, u

-----------------------------------------------------------------------------
(* A directory twice as long, a bucket in two.                             *)

\* Doubling the directory moves no key to another bucket.
LEMMA DoubledSound ==
    ASSUME HashAssumption, NEW t, Sound(t), NEW b \in DOMAIN t.buckets,
           t.buckets[b].local_depth < Width
    PROVE  LET u == Doubled(t, b)
           IN /\ Sound(u)
              /\ u.buckets = t.buckets
              /\ u.buckets[b].local_depth < u.global_depth
              /\ \A k \in Key : bucket_index_for_key(u, k) = bucket_index_for_key(t, k)
              /\ u.global_depth # t.global_depth =>
                   t.buckets[b].local_depth = t.global_depth /\ u.global_depth = t.global_depth + 1
<1> DEFINE u == Doubled(t, b)
           g == t.global_depth
           dir == [i \in Slots(g + 1) |-> t.directory[i % 2^g]]
<1>1. Typed(t) /\ Pointed(t) /\ Placed(t) /\ Distinct(t)
  BY DEF Sound
<1>2. /\ t \in [global_depth : 0 .. Width,
                directory : [Slots(g) -> DOMAIN t.buckets],
                buckets : Seq(BucketType)]
      /\ g \in 0 .. Width /\ g \in Nat /\ Width \in Nat
      /\ \A c \in DOMAIN t.buckets : t.buckets[c].local_depth \in Nat /\ t.buckets[c].local_depth <= g
  BY <1>1, BucketParts DEF Typed, HashAssumption
<1>3. CASE t.buckets[b].local_depth # g
  BY <1>2, <1>3 DEF Doubled
<1>4. CASE t.buckets[b].local_depth = g
  <2>1. u = [t EXCEPT !.global_depth = g + 1, !.directory = dir]
    BY <1>4 DEF Doubled
  <2>2. g + 1 \in 0 .. Width /\ g + 1 \in Nat
    BY <1>2, <1>4
  <2>3. \A i \in Slots(g + 1) : i \in Int /\ i % 2^g \in Slots(g)
    BY <1>2, PowerIsNat, ModDivides DEF Slots
  <2>4. dir \in [Slots(g + 1) -> DOMAIN t.buckets]
    BY <1>2, <2>3
  <2>5. u.global_depth = g + 1 /\ u.directory = dir /\ u.buckets = t.buckets
    BY <1>2, <2>1
  <2>6. u \in [global_depth : 0 .. Width,
               directory : [Slots(g + 1) -> DOMAIN t.buckets],
               buckets : Seq(BucketType)]
    <3> HIDE DEF dir
    <3> QED BY <1>2, <2>1, <2>2, <2>4
  <2> HIDE DEF u
  <2>7. Typed(u)
    BY <1>2, <2>2, <2>5, <2>6 DEF Typed
  <2>8. Pointed(u)
    <3> SUFFICES ASSUME NEW c \in DOMAIN t.buckets
                 PROVE  \E low \in Slots(t.buckets[c].local_depth) : \A i \in Slots(g + 1) :
                          dir[i] = c <=> i % 2^t.buckets[c].local_depth = low
      BY <2>5 DEF Pointed
    <3>1. PICK low \in Slots(t.buckets[c].local_depth) : \A i \in Slots(g) :
              t.directory[i] = c <=> i % 2^t.buckets[c].local_depth = low
      BY <1>1 DEF Pointed
    <3>2. ASSUME NEW i \in Slots(g + 1)
          PROVE  dir[i] = c <=> i % 2^t.buckets[c].local_depth = low
      <4>1. (i % 2^g) % 2^t.buckets[c].local_depth = i % 2^t.buckets[c].local_depth
        BY <1>2, <2>3, LowBits
      <4>2. QED BY <2>3, <3>1, <4>1
    <3>3. QED BY <3>2
  <2>9. \A k \in Key : bucket_index_for_key(u, k) = bucket_index_for_key(t, k)
    <3> SUFFICES ASSUME NEW k \in Key PROVE dir[Low(k, g + 1)] = t.directory[Low(k, g)]
      BY <2>5 DEF bucket_index_for_key, hash
    <3>1. Low(k, g + 1) \in Slots(g + 1) /\ Low(k, g + 1) % 2^g = Low(k, g)
      BY <1>2, <2>2, LowType
    <3>2. QED BY <3>1
  <2>10. Placed(u)
    <3>1. \A c \in DOMAIN t.buckets : \A i \in DOMAIN t.buckets[c].entries :
            t.buckets[c].entries[i][1] \in Key
      BY <1>1, BucketParts
    <3>2. QED BY <1>1, <2>5, <2>9, <3>1 DEF Placed
  <2>11. Distinct(u)
    BY <1>1, <2>5 DEF Distinct
  <2>12. QED BY <1>2, <1>4, <2>5, <2>7, <2>8, <2>9, <2>10, <2>11 DEF Sound, u
<1>5. QED BY <1>3, <1>4

\* The slots of a bucket are shared out by their next bit, those of the other
\* buckets stay; the entries of the bucket are taken out.
LEMMA HalvedSound ==
    ASSUME HashAssumption, NEW t, Sound(t), NEW b \in DOMAIN t.buckets,
           t.buckets[b].local_depth < t.global_depth
    PROVE  LET u == Halved(t, b)
               new == Len(t.buckets) + 1
           IN /\ Sound(u)
              /\ u.global_depth = t.global_depth
              /\ new \notin DOMAIN t.buckets
              /\ DOMAIN u.buckets = DOMAIN t.buckets \union {new}
              /\ \A c \in {b, new} : u.buckets[c] = Bucket(t.buckets[b].local_depth + 1, <<>>)
              /\ \A c \in DOMAIN t.buckets : c # b => u.buckets[c] = t.buckets[c]
              /\ \A k \in Key :
                   IF bucket_index_for_key(t, k) = b THEN bucket_index_for_key(u, k) \in {b, new}
                   ELSE bucket_index_for_key(u, k) = bucket_index_for_key(t, k)
<1> DEFINE u == Halved(t, b)
           g == t.global_depth
           d == t.buckets[b].local_depth
           new == Len(t.buckets) + 1
           half == Bucket(d + 1, <<>>)
           bs1 == [t.buckets EXCEPT ![b] = half]
           bs == Append(bs1, half)
           dir == [i \in DOMAIN t.directory |->
                     IF t.directory[i] = b /\ Bit(i, d) THEN new ELSE t.directory[i]]
<1>1. Typed(t) /\ Pointed(t) /\ Placed(t) /\ Distinct(t)
  BY DEF Sound
<1>2. /\ t \in [global_depth : 0 .. Width,
                directory : [Slots(g) -> DOMAIN t.buckets],
                buckets : Seq(BucketType)]
      /\ t.buckets \in Seq(BucketType)
      /\ DOMAIN t.buckets = 1 .. Len(t.buckets)
      /\ Len(t.buckets) \in Nat
      /\ g \in 0 .. Width /\ g \in Nat /\ Width \in Nat
      /\ \A c \in DOMAIN t.buckets : t.buckets[c].local_depth \in Nat /\ t.buckets[c].local_depth <= g
      /\ DOMAIN t.directory = Slots(g)
      /\ \A i \in Slots(g) : t.directory[i] \in DOMAIN t.buckets
  BY <1>1, BucketParts DEF Typed, HashAssumption
<1>3. new \notin DOMAIN t.buckets /\ new \in Nat /\ d + 1 \in 0 .. Width /\ d + 1 <= g /\ d \in Nat
  BY <1>2
<1>4. half \in BucketType /\ half.local_depth = d + 1 /\ half.entries = <<>>
  <2>1. <<>> \in Seq(Key \X Value)
    OBVIOUS
  <2>2. QED BY <1>3, <2>1 DEF Bucket, BucketType
<1>5. u = [t EXCEPT !.buckets = bs, !.directory = dir]
  BY DEF Halved
<1> HIDE DEF half
<1>6. /\ bs1 \in Seq(BucketType) /\ Len(bs1) = Len(t.buckets)
      /\ \A c \in DOMAIN t.buckets : bs1[c] = IF c = b THEN half ELSE t.buckets[c]
  BY <1>2, <1>4, ExceptSeq
<1> HIDE DEF bs1
<1>7. /\ bs \in Seq(BucketType) /\ DOMAIN bs = DOMAIN t.buckets \union {new}
      /\ bs[new] = half /\ \A c \in DOMAIN t.buckets : bs[c] = IF c = b THEN half ELSE t.buckets[c]
  <2>1. /\ bs \in Seq(BucketType) /\ Len(bs) = new /\ bs[new] = half
        /\ \A c \in 1 .. Len(t.buckets) : bs[c] = bs1[c]
    BY <1>4, <1>6, AppendProperties
  <2>2. DOMAIN bs = 1 .. new
    BY <2>1
  <2>3. 1 .. new = (1 .. Len(t.buckets)) \union {new}
    BY <1>2, IntervalSize
  <2>4. QED BY <1>2, <1>6, <2>1, <2>2, <2>3
<1> HIDE DEF bs
<1>8. /\ dir \in [Slots(g) -> DOMAIN bs]
      /\ \A i \in Slots(g) : dir[i] = IF t.directory[i] = b /\ Bit(i, d) THEN new ELSE t.directory[i]
  BY <1>2, <1>7
<1> HIDE DEF dir
<1>9. /\ u.buckets = bs /\ u.directory = dir /\ u.global_depth = g
      /\ u \in [global_depth : 0 .. Width, directory : [Slots(g) -> DOMAIN bs], buckets : Seq(BucketType)]
  BY <1>2, <1>5, <1>7, <1>8
<1> HIDE DEF u
<1>10. Typed(u)
  <2>1. \A c \in DOMAIN bs : bs[c].local_depth <= g
    BY <1>2, <1>3, <1>4, <1>7
  <2>2. QED BY <1>9, <2>1 DEF Typed
<1>11. PICK low \in Slots(d) : \A i \in Slots(g) : t.directory[i] = b <=> i % 2^d = low
  BY <1>1 DEF Pointed
<1>12. /\ 2^d \in Nat \ {0} /\ 2^(d + 1) = 2 * 2^d
       /\ low \in Nat /\ low < 2^d
       /\ low \in Slots(d + 1) /\ low + 2^d \in Slots(d + 1)
  <2>1. 2^d \in Nat \ {0} /\ 2^(d + 1) = 2 * 2^d
    BY <1>3, PowerIsNat, PowerStep
  <2> DEFINE m == 2^d
             m2 == 2^(d + 1)
  <2>2. m \in Nat \ {0} /\ m2 = 2 * m /\ low \in 0 .. m - 1
    BY <2>1 DEF Slots
  <2> HIDE DEF m, m2
  <2>3. low \in Nat /\ low < m /\ low \in 0 .. m2 - 1 /\ low + m \in 0 .. m2 - 1
    BY <2>2
  <2>4. QED BY <2>1, <2>3 DEF m, m2, Slots
<1>13. ASSUME NEW i \in Slots(g)
       PROVE  /\ dir[i] = b <=> i % 2^(d + 1) = low
              /\ dir[i] = new <=> i % 2^(d + 1) = low + 2^d
              /\ \A c \in DOMAIN t.buckets : c # b => (dir[i] = c <=> t.directory[i] = c)
  <2>1. i \in Int /\ i % 2^d \in 0 .. 2^d - 1
    <3>1. i \in Int
      BY <1>2, PowerIsNat DEF Slots
    <3>2. 2^d \in Nat \ {0}
      BY <1>12
    <3>3. QED BY <3>1, <3>2, ModDivides
  <2>2. i % 2^(d + 1) = IF Bit(i, d) THEN (i % 2^d) + 2^d ELSE i % 2^d
    BY <1>3, <2>1, NextBit
  <2>3. b # new /\ t.directory[i] # new
    BY <1>2, <1>3
  <2>4. dir[i] = IF t.directory[i] = b /\ Bit(i, d) THEN new ELSE t.directory[i]
    BY <1>8
  <2>5. t.directory[i] = b <=> i % 2^d = low
    BY <1>11
  <2> DEFINE r == i % 2^d
             r2 == i % 2^(d + 1)
             m == 2^d
             bit == Bit(i, d)
  <2>6. r \in 0 .. m - 1 /\ m \in Nat /\ r2 = (IF bit THEN r + m ELSE r)
        /\ low \in Nat /\ low < m /\ (t.directory[i] = b <=> r = low)
    BY <1>12, <2>1, <2>2, <2>5
  <2> HIDE DEF r, r2, m, bit
  <2>7. dir[i] = b <=> r2 = low
    <3>1. dir[i] = b <=> (t.directory[i] = b /\ ~ bit)
      BY <2>3, <2>4 DEF bit
    <3>2. r2 = low <=> (r = low /\ ~ bit)
      BY <2>6
    <3>3. QED BY <2>6, <3>1, <3>2
  <2>8. dir[i] = new <=> r2 = low + m
    <3>1. dir[i] = new <=> (t.directory[i] = b /\ bit)
      BY <2>3, <2>4 DEF bit
    <3>2. r2 = low + m <=> (r = low /\ bit)
      BY <2>6
    <3>3. QED BY <2>6, <3>1, <3>2
  <2>9. \A c \in DOMAIN t.buckets : c # b => (dir[i] = c <=> t.directory[i] = c)
    BY <1>3, <2>4
  <2>10. QED BY <2>7, <2>8, <2>9 DEF r2, m
<1>14. Pointed(u)
  <2> SUFFICES ASSUME NEW c \in DOMAIN bs
               PROVE  \E l \in Slots(bs[c].local_depth) : \A i \in Slots(g) :
                        dir[i] = c <=> i % 2^bs[c].local_depth = l
    BY <1>9 DEF Pointed
  <2>1. CASE c = b
    <3>1. bs[c].local_depth = d + 1
      BY <1>4, <1>7, <2>1
    <3>2. \A i \in Slots(g) : dir[i] = c <=> i % 2^(d + 1) = low
      BY <1>13, <2>1
    <3>3. QED BY <1>12, <3>1, <3>2
  <2>2. CASE c = new
    <3>1. bs[c].local_depth = d + 1
      BY <1>4, <1>7, <2>2
    <3>2. \A i \in Slots(g) : dir[i] = c <=> i % 2^(d + 1) = low + 2^d
      BY <1>13, <2>2
    <3>3. QED BY <1>12, <3>1, <3>2
  <2>3. CASE c # b /\ c # new
    <3>1. c \in DOMAIN t.buckets /\ bs[c] = t.buckets[c]
      BY <1>7, <2>3
    <3>2. PICK l \in Slots(t.buckets[c].local_depth) : \A i \in Slots(g) :
              t.directory[i] = c <=> i % 2^t.buckets[c].local_depth = l
      BY <1>1, <3>1 DEF Pointed
    <3>3. \A i \in Slots(g) : dir[i] = c <=> t.directory[i] = c
      BY <1>13, <2>3, <3>1
    <3>4. QED BY <3>1, <3>2, <3>3
  <2>4. QED BY <2>1, <2>2, <2>3
<1>15. ASSUME NEW k \in Key
       PROVE  IF bucket_index_for_key(t, k) = b THEN bucket_index_for_key(u, k) \in {b, new}
              ELSE bucket_index_for_key(u, k) = bucket_index_for_key(t, k)
  <2>1. hash(t, k) \in Slots(g) /\ hash(u, k) = hash(t, k)
    BY <1>1, <1>9, KeyHasBucket DEF hash
  <2>2. QED BY <1>8, <1>9, <2>1 DEF bucket_index_for_key
<1>16. Placed(u)
  <2> SUFFICES ASSUME NEW c \in DOMAIN bs, NEW i \in DOMAIN bs[c].entries
               PROVE  bucket_index_for_key(u, bs[c].entries[i][1]) = c
    BY <1>9 DEF Placed
  <2>1. c # b /\ c # new
    BY <1>4, <1>7
  <2>2. c \in DOMAIN t.buckets /\ bs[c] = t.buckets[c]
    BY <1>7, <2>1
  <2>3. bs[c].entries[i][1] \in Key /\ bucket_index_for_key(t, bs[c].entries[i][1]) = c
    BY <1>1, <2>2, BucketParts DEF Placed
  <2>4. QED BY <1>15, <2>1, <2>3
<1>17. Distinct(u)
  <2> SUFFICES ASSUME NEW c \in DOMAIN bs
               PROVE  \A i, j \in DOMAIN bs[c].entries : bs[c].entries[i][1] = bs[c].entries[j][1] => i = j
    BY <1>9 DEF Distinct
  <2>1. CASE c = b \/ c = new
    BY <1>4, <1>7, <2>1
  <2>2. CASE c # b /\ c # new
    BY <1>1, <1>7, <2>2 DEF Distinct
  <2>3. QED BY <2>1, <2>2
<1>18. Sound(u)
  BY <1>10, <1>14, <1>16, <1>17 DEF Sound
<1>19. QED BY <1>3, <1>7, <1>9, <1>15, <1>18 DEF u, half

-----------------------------------------------------------------------------
(* The two loops of a split as recursive functions: the old entries hashed *)
(* again, and splits until there is room for a key.                        *)

SplitOn(s, key) == IF Full(s, bucket_index_for_key(s, key)) THEN SplitFor(s, key) ELSE s

Step(rehashing, es, key, s, i) ==
    IF rehashing THEN AddEntry(s, es[i][1], es[i][2]) ELSE SplitOn(s, key)

Iterates(rehashing, es, key, base, lo, n, f) ==
    f = [i \in lo .. n |-> IF i = lo THEN base ELSE Step(rehashing, es, key, f[i - 1], i)]

\* Both recursions have a solution.
LEMMA IterationExists ==
    ASSUME NEW rehashing, NEW es, NEW key, NEW base, NEW lo \in Nat, NEW n \in Nat
    PROVE  \E f : Iterates(rehashing, es, key, base, lo, n, f)
<1> DEFINE S(s, i) == IF i = lo THEN base ELSE Step(rehashing, es, key, s, i)
           Upto(f, m) == f = [i \in lo .. m |-> S(f[i - 1], i)]
           Bad == {m \in Nat : ~ \E f : Upto(f, m)}
<1>1. Bad = {}
  <2> SUFFICES ASSUME Bad # {} PROVE FALSE
    OBVIOUS
  <2>1. PICK m \in Bad : \A k \in Bad : m <= k
    <3>1. Bad \subseteq Nat
      OBVIOUS
    <3> HIDE DEF Bad
    <3>2. QED BY <3>1, LeastNatural
  <2>2. m \in Nat /\ ~ \E f : Upto(f, m)
    OBVIOUS
  <2>3. CASE m <= lo
    <3> DEFINE f == [i \in lo .. m |-> base]
    <3>1. \A i \in lo .. m : S(f[i - 1], i) = base
      <4>1. \A i \in lo .. m : i = lo
        BY <2>2, <2>3
      <4>2. QED BY <4>1
    <3> HIDE DEF S
    <3>2. f = [i \in lo .. m |-> S(f[i - 1], i)]
      BY <3>1
    <3>3. QED BY <2>2, <3>2
  <2>4. CASE ~ (m <= lo)
    <3>1. m - 1 \in Nat /\ ~ (m <= m - 1)
      BY <2>2, <2>4
    <3>2. PICK g : Upto(g, m - 1)
      BY <2>1, <3>1
    <3> DEFINE f == [i \in lo .. m |-> S(g[i - 1], i)]
    <3>3. \A i \in lo .. m - 1 : g[i] = S(g[i - 1], i)
      BY <3>2
    <3> HIDE DEF S
    <3>4. \A i \in lo .. m - 1 : f[i] = g[i]
      BY <2>2, <3>3
    <3>5. \A i \in lo .. m : S(g[i - 1], i) = S(f[i - 1], i)
      <4> SUFFICES ASSUME NEW i \in lo .. m PROVE S(g[i - 1], i) = S(f[i - 1], i)
        OBVIOUS
      <4>1. CASE i = lo
        BY <4>1 DEF S
      <4>2. CASE i # lo
        <5>1. i - 1 \in lo .. m - 1
          BY <2>2, <4>2
        <5> HIDE DEF f
        <5>2. QED BY <3>4, <5>1
      <4>3. QED BY <4>1, <4>2
    <3>6. f = [i \in lo .. m |-> S(f[i - 1], i)]
      BY <3>5
    <3> HIDE DEF f
    <3>7. QED BY <2>2, <3>6
  <2>5. QED BY <2>3, <2>4
<1>2. PICK f : Upto(f, n)
  BY <1>1
<1>3. QED BY <1>2 DEF Iterates

\* The entries of the bucket that is split, hashed again one by one.
LEMMA RehashUnfolds ==
    ASSUME NEW t, NEW b, Len(t.buckets[b].entries) \in Nat
    PROVE  LET old == t.buckets[b].entries
           IN \E f : /\ f[0] = Halved(Doubled(t, b), b)
                     /\ \A i \in 1 .. Len(old) : f[i] = AddEntry(f[i - 1], old[i][1], old[i][2])
                     /\ SplitBucket(t, b) = f[Len(old)]
<1> DEFINE old == t.buckets[b].entries
           base == Halved(Doubled(t, b), b)
           Rehash(f) == f = [i \in 0 .. Len(old) |->
                               IF i = 0 THEN base ELSE AddEntry(f[i - 1], old[i][1], old[i][2])]
           h == CHOOSE f : Rehash(f)
<1>1. \E f : Rehash(f)
  <2> HIDE DEF base
  <2>1. PICK f : Iterates(TRUE, old, 0, base, 0, Len(old), f)
    BY IterationExists
  <2>2. f = [i \in 0 .. Len(old) |-> IF i = 0 THEN base ELSE Step(TRUE, old, 0, f[i - 1], i)]
    BY <2>1 DEF Iterates
  <2>3. \A i : Step(TRUE, old, 0, f[i - 1], i) = AddEntry(f[i - 1], old[i][1], old[i][2])
    BY DEF Step
  <2> HIDE DEF old
  <2>4. Rehash(f)
    BY <2>2, <2>3
  <2>5. QED BY <2>4
<1>2. SplitBucket(t, b) = h[Len(old)]
  BY DEF SplitBucket
<1>3. Rehash(h)
  BY <1>1
<1> DEFINE n == Len(old)
<1>7. n \in Nat /\ h = [i \in 0 .. n |->
                          IF i = 0 THEN base ELSE AddEntry(h[i - 1], old[i][1], old[i][2])]
  BY <1>3
<1> HIDE DEF h, base, old, n
<1>4. h[0] = base
  BY <1>7
<1>5. \A i \in 1 .. n : h[i] = AddEntry(h[i - 1], old[i][1], old[i][2])
  BY <1>7
<1>6. QED BY <1>2, <1>4, <1>5 DEF base, old, n

\* The repeated split of split_and_insert.
LEMMA SplitsUnfold ==
    ASSUME NEW t, NEW k, NEW v, Width \in Nat \ {0}
    PROVE  \E f : /\ f[1] = SplitFor(t, k)
                  /\ \A n \in 2 .. Width : f[n] = SplitOn(f[n - 1], k)
                  /\ split_and_insert(t, k, v) = AddEntry(f[Width], k, v)
<1> DEFINE base == SplitFor(t, k)
           Again(s) == IF Full(s, bucket_index_for_key(s, k)) THEN SplitFor(s, k) ELSE s
           Split(f) == f = [n \in 1 .. Width |-> IF n = 1 THEN base ELSE Again(f[n - 1])]
           h == CHOOSE f : Split(f)
<1>1. \E f : Split(f)
  <2> HIDE DEF base
  <2>1. PICK f : Iterates(FALSE, <<>>, k, base, 1, Width, f)
    BY IterationExists
  <2>2. f = [n \in 1 .. Width |-> IF n = 1 THEN base ELSE Step(FALSE, <<>>, k, f[n - 1], n)]
    BY <2>1 DEF Iterates
  <2>3. \A n : Step(FALSE, <<>>, k, f[n - 1], n) = Again(f[n - 1])
    BY DEF Step, SplitOn
  <2> HIDE DEF Again
  <2>4. Split(f)
    BY <2>2, <2>3
  <2>5. QED BY <2>4
<1>2. split_and_insert(t, k, v) = AddEntry(h[Width], k, v)
  BY DEF split_and_insert
<1>3. Split(h)
  BY <1>1
<1> HIDE DEF h, base
<1>4. h[1] = base
  BY <1>3
<1>5. \A n \in 2 .. Width : h[n] = SplitOn(h[n - 1], k)
  BY <1>3 DEF SplitOn
<1>6. QED BY <1>2, <1>4, <1>5 DEF base

-----------------------------------------------------------------------------
(* A split keeps every entry, overfills no bucket and leaves the key's     *)
(* bucket one bit deeper.                                                  *)

\* The split of the bucket that a key leads to.
LEMMA SplitForSound ==
    ASSUME HashAssumption, NEW t, Sound(t), Roomy(t), NEW k \in Key,
           t.buckets[bucket_index_for_key(t, k)].local_depth < Width
    PROVE  LET s == SplitFor(t, k)
               depth == t.buckets[bucket_index_for_key(t, k)].local_depth
           IN /\ Sound(s)
              /\ Roomy(s)
              /\ Held(s) = Held(t)
              /\ s.buckets[bucket_index_for_key(s, k)].local_depth = depth + 1
              /\ s.global_depth # t.global_depth =>
                   depth = t.global_depth /\ s.global_depth = t.global_depth + 1
<1> DEFINE b == bucket_index_for_key(t, k)
           d == t.buckets[b].local_depth
           old == t.buckets[b].entries
           new == Len(t.buckets) + 1
           t1 == Doubled(t, b)
           t2 == Halved(t1, b)
           D == DOMAIN t.buckets
           Rest == UNION {EntriesOf(t.buckets[c].entries) : c \in D \ {b}}
<1>1. Typed(t) /\ Pointed(t) /\ Placed(t) /\ Distinct(t) /\ b \in D
  BY KeyHasBucket DEF Sound
<1>2. /\ Sound(t1) /\ t1.buckets = t.buckets /\ d < t1.global_depth
      /\ \A x \in Key : bucket_index_for_key(t1, x) = bucket_index_for_key(t, x)
      /\ t1.global_depth # t.global_depth => d = t.global_depth /\ t1.global_depth = t.global_depth + 1
  BY <1>1, DoubledSound
<1> HIDE DEF t1
<1>3. /\ Sound(t2)
      /\ t2.global_depth = t1.global_depth
      /\ new \notin D
      /\ DOMAIN t2.buckets = D \union {new}
      /\ \A c \in {b, new} : t2.buckets[c] = Bucket(d + 1, <<>>)
      /\ \A c \in D : c # b => t2.buckets[c] = t.buckets[c]
      /\ \A x \in Key :
           IF bucket_index_for_key(t, x) = b THEN bucket_index_for_key(t2, x) \in {b, new}
           ELSE bucket_index_for_key(t2, x) = bucket_index_for_key(t, x)
  BY <1>1, <1>2, HalvedSound
<1> HIDE DEF t2
<1>4. \A c \in {b, new} : t2.buckets[c].local_depth = d + 1 /\ t2.buckets[c].entries = <<>>
  BY <1>3 DEF Bucket
<1>5. /\ old \in Seq(Key \X Value) /\ Len(old) \in Nat /\ DOMAIN old = 1 .. Len(old)
      /\ \A i \in DOMAIN old : /\ old[i][1] \in Key /\ old[i][2] \in Value
                               /\ old[i] = <<old[i][1], old[i][2]>>
  BY <1>1, BucketParts
<1>6. PICK f : /\ f[0] = t2
               /\ \A i \in 1 .. Len(old) : f[i] = AddEntry(f[i - 1], old[i][1], old[i][2])
               /\ SplitBucket(t, b) = f[Len(old)]
  BY <1>5, RehashUnfolds DEF t1, t2
<1>7. Held(t) = Rest \union EntriesOf(old)
  <2> DEFINE A(c) == EntriesOf(t.buckets[c].entries)
  <2>1. Held(t) = UNION {A(c) : c \in D} /\ Rest = UNION {A(c) : c \in D \ {b}} /\ EntriesOf(old) = A(b)
    BY DEF Held
  <2> HIDE DEF A, D, Rest, old, b
  <2>2. b \in D
    BY <1>1
  <2>3. QED BY <2>1, <2>2
<1>8. Held(t2) = Rest
  <2> DEFINE A(c) == EntriesOf(t.buckets[c].entries)
             B(c) == EntriesOf(t2.buckets[c].entries)
  <2>1. Held(t2) = UNION {B(c) : c \in D \union {new}} /\ Rest = UNION {A(c) : c \in D \ {b}}
    BY <1>3 DEF Held
  <2>2. B(b) = {} /\ B(new) = {}
    <3>1. EntriesOf(<<>>) = {}
      BY DEF EntriesOf
    <3>2. QED BY <1>4, <3>1
  <2>3. \A c \in D \ {b} : B(c) = A(c)
    BY <1>3
  <2> HIDE DEF A, B, D, Rest, new
  <2>4. \A c \in D \union {new} : c = b \/ c = new \/ c \in D \ {b}
    OBVIOUS
  <2>5. UNION {B(c) : c \in D \union {new}} \subseteq UNION {A(c) : c \in D \ {b}}
    BY <2>2, <2>3, <2>4
  <2>6. UNION {A(c) : c \in D \ {b}} \subseteq UNION {B(c) : c \in D \union {new}}
    BY <2>3
  <2>7. QED BY <2>1, <2>5, <2>6
<1>9. \A e \in Rest : \A i \in DOMAIN old : e[1] # old[i][1]
  <2> SUFFICES ASSUME NEW c \in D \ {b}, NEW j \in DOMAIN t.buckets[c].entries, NEW i \in DOMAIN old
               PROVE  t.buckets[c].entries[j][1] # old[i][1]
    BY DEF EntriesOf
  <2>1. bucket_index_for_key(t, t.buckets[c].entries[j][1]) = c
    BY <1>1 DEF Placed
  <2>2. bucket_index_for_key(t, old[i][1]) = b
    BY <1>1 DEF Placed
  <2>3. QED BY <2>1, <2>2
<1> DEFINE Inv(i) ==
             /\ Sound(f[i])
             /\ f[i].global_depth = t2.global_depth
             /\ f[i].directory = t2.directory
             /\ DOMAIN f[i].buckets = D \union {new}
             /\ Held(f[i]) = Rest \union {old[j] : j \in 1 .. i}
             /\ \A c \in D \union {new} :
                  /\ f[i].buckets[c].local_depth = t2.buckets[c].local_depth
                  /\ IF c \in {b, new} THEN Len(f[i].buckets[c].entries) <= i
                     ELSE f[i].buckets[c].entries = t2.buckets[c].entries
           Bad == {i \in 0 .. Len(old) : ~ Inv(i)}
<1>10. Inv(0)
  <2>1. {old[j] : j \in 1 .. 0} = {}
    OBVIOUS
  <2>2. Held(f[0]) = Rest \union {old[j] : j \in 1 .. 0}
    BY <1>6, <1>8, <2>1
  <2>3. \A c \in {b, new} : Len(f[0].buckets[c].entries) <= 0
    BY <1>4, <1>6
  <2> HIDE DEF Rest, old
  <2>4. QED BY <1>3, <1>6, <2>2, <2>3
<1>11. ASSUME NEW i \in 1 .. Len(old), Inv(i - 1) PROVE Inv(i)
  <2> DEFINE s == f[i - 1]
             x == old[i][1]
             y == old[i][2]
             c0 == bucket_index_for_key(s, x)
  <2>1. i \in DOMAIN old /\ x \in Key /\ y \in Value /\ old[i] = <<x, y>> /\ f[i] = AddEntry(s, x, y)
    BY <1>5, <1>6
  <2>2. Sound(s) /\ Typed(s)
    BY <1>11 DEF Sound
  <2>3. bucket_index_for_key(t, x) = b
    BY <1>1, <2>1 DEF Placed
  <2>4. c0 \in {b, new}
    <3>1. bucket_index_for_key(s, x) = bucket_index_for_key(t2, x)
      BY <1>11 DEF bucket_index_for_key, hash
    <3>2. QED BY <1>3, <2>1, <2>3, <3>1
  <2>5. x \notin HeldKeys(s)
    <3>1. ASSUME NEW e \in Held(s) PROVE e[1] # x
      <4>1. e \in Rest \/ e \in {old[j] : j \in 1 .. i - 1}
        BY <1>11
      <4>2. CASE e \in Rest
        BY <1>9, <2>1, <4>2
      <4>3. CASE e \in {old[j] : j \in 1 .. i - 1}
        <5>1. PICK j \in 1 .. i - 1 : e = old[j]
          BY <4>3
        <5>2. j \in DOMAIN old /\ j # i
          BY <1>5
        <5>3. QED BY <1>1, <2>1, <5>1, <5>2 DEF Distinct
      <4>4. QED BY <4>1, <4>2, <4>3
    <3>2. QED BY <3>1 DEF HeldKeys
  <2>6. Sound(f[i]) /\ Held(f[i]) = Held(s) \union {<<x, y>>}
    BY <2>1, <2>2, <2>5, AddEntrySound
  <2>7. /\ f[i].global_depth = s.global_depth
        /\ f[i].directory = s.directory
        /\ DOMAIN f[i].buckets = DOMAIN s.buckets
        /\ \A c \in DOMAIN s.buckets :
             /\ f[i].buckets[c].local_depth = s.buckets[c].local_depth
             /\ f[i].buckets[c].entries = IF c = c0 THEN Append(s.buckets[c].entries, <<x, y>>)
                                          ELSE s.buckets[c].entries
    <3> HIDE DEF s, x, y, old
    <3>1. f[i] = AddEntry(s, x, y) /\ x \in Key /\ y \in Value
      BY <2>1
    <3> QED BY <2>2, <3>1, AddEntryParts
  <2>8. Held(f[i]) = Rest \union {old[j] : j \in 1 .. i}
    <3>1. 1 .. i = (1 .. i - 1) \union {i}
      OBVIOUS
    <3>2. {old[j] : j \in 1 .. i} = {old[j] : j \in 1 .. i - 1} \union {old[i]}
      BY <3>1
    <3>3. Held(s) = Rest \union {old[j] : j \in 1 .. i - 1}
      BY <1>11
    <3> HIDE DEF Rest, old, s
    <3>4. QED BY <2>1, <2>6, <3>2, <3>3
  <2>9. ASSUME NEW c \in D \union {new}
        PROVE  /\ f[i].buckets[c].local_depth = t2.buckets[c].local_depth
               /\ IF c \in {b, new} THEN Len(f[i].buckets[c].entries) <= i
                  ELSE f[i].buckets[c].entries = t2.buckets[c].entries
    <3>1. c \in DOMAIN s.buckets /\ s.buckets[c].local_depth = t2.buckets[c].local_depth
      BY <1>11
    <3>2. f[i].buckets[c].local_depth = t2.buckets[c].local_depth
      BY <2>7, <3>1
    <3>3. CASE c \in {b, new}
      <4>1. Len(s.buckets[c].entries) <= i - 1
        BY <1>11, <3>3
      <4>2. s.buckets[c].entries \in Seq(Key \X Value) /\ Len(s.buckets[c].entries) \in Nat
        BY <2>2, <3>1, BucketParts
      <4>3. Len(Append(s.buckets[c].entries, <<x, y>>)) = Len(s.buckets[c].entries) + 1
        BY <2>1, <4>2, AppendProperties
      <4>4. i \in Nat
        OBVIOUS
      <4> DEFINE es == s.buckets[c].entries
                 fs == f[i].buckets[c].entries
      <4>7. fs = Append(es, <<x, y>>) \/ fs = es
        BY <2>7, <3>1
      <4>8. Len(es) \in Nat /\ Len(es) <= i - 1 /\ Len(Append(es, <<x, y>>)) = Len(es) + 1
        BY <4>1, <4>2, <4>3
      <4> HIDE DEF s, x, y, es, fs
      <4>9. Len(fs) <= i
        BY <4>4, <4>7, <4>8
      <4>5. Len(f[i].buckets[c].entries) <= i
        BY <4>9 DEF fs
      <4>6. QED BY <3>2, <3>3, <4>5
    <3>4. CASE c \notin {b, new}
      <4>1. s.buckets[c].entries = t2.buckets[c].entries
        BY <1>11, <3>4
      <4>2. QED BY <2>4, <2>7, <3>1, <3>2, <3>4, <4>1
    <3>5. QED BY <3>3, <3>4
  <2> HIDE DEF D, Rest, old, new
  <2>10. QED BY <1>11, <2>6, <2>7, <2>8, <2>9
<1>12. Bad = {}
  <2> SUFFICES ASSUME Bad # {} PROVE FALSE
    OBVIOUS
  <2>1. Bad \subseteq Nat
    OBVIOUS
  <2>2. PICK i \in Bad : \A j \in Bad : i <= j
    <3> HIDE DEF Bad
    <3> QED BY <2>1, LeastNatural
  <2>3. i \in 0 .. Len(old) /\ ~ Inv(i)
    OBVIOUS
  <2> HIDE DEF Inv, old
  <2>4. Len(old) \in Nat
    BY <1>5
  <2>5. i # 0
    BY <1>10, <2>3
  <2>6. i - 1 \in 0 .. Len(old) /\ i \in 1 .. Len(old) /\ ~ (i <= i - 1)
    BY <2>3, <2>4, <2>5
  <2>7. Inv(i - 1)
    BY <2>2, <2>6
  <2>8. QED BY <1>11, <2>3, <2>6, <2>7
<1>13. Inv(Len(old))
  <2> HIDE DEF Inv, old
  <2>1. Len(old) \in 0 .. Len(old)
    BY <1>5
  <2>2. QED BY <1>12, <2>1
<1> DEFINE u == f[Len(old)]
<1>14. SplitFor(t, k) = u
  BY <1>6 DEF SplitFor
<1>15. Held(u) = Held(t)
  <2>1. {old[j] : j \in 1 .. Len(old)} = EntriesOf(old)
    BY <1>5 DEF EntriesOf
  <2>2. QED BY <1>7, <1>13, <2>1
<1>16. Roomy(u)
  <2>1. Len(old) <= BUCKET_CAPACITY
    BY <1>1 DEF Roomy
  <2>2. BUCKET_CAPACITY \in Nat /\ Len(old) \in Nat
    BY <1>5 DEF HashAssumption
  <2> SUFFICES ASSUME NEW c \in DOMAIN u.buckets PROVE Len(u.buckets[c].entries) <= BUCKET_CAPACITY
    BY DEF Roomy
  <2>3. c \in D \union {new}
    BY <1>13
  <2>4. CASE c \in {b, new}
    <3>1. Len(u.buckets[c].entries) <= Len(old)
      BY <1>13, <2>3, <2>4
    <3>2. Len(u.buckets[c].entries) \in Nat
      BY <1>13, BucketParts DEF Sound
    <3>3. QED BY <2>1, <2>2, <3>1, <3>2
  <2>5. CASE c \notin {b, new}
    <3>1. u.buckets[c].entries = t2.buckets[c].entries
      BY <1>13, <2>3, <2>5
    <3>2. c \in D /\ t2.buckets[c] = t.buckets[c]
      BY <1>3, <2>3, <2>5
    <3>3. QED BY <3>1, <3>2 DEF Roomy
  <2>6. QED BY <2>4, <2>5
<1>17. u.buckets[bucket_index_for_key(u, k)].local_depth = d + 1
  <2>1. bucket_index_for_key(u, k) = bucket_index_for_key(t2, k)
    BY <1>13 DEF bucket_index_for_key, hash
  <2>2. bucket_index_for_key(t2, k) \in {b, new}
    BY <1>3
  <2>3. QED BY <1>1, <1>4, <1>13, <2>1, <2>2
<1>18. /\ Sound(u)
       /\ u.global_depth # t.global_depth => d = t.global_depth /\ u.global_depth = t.global_depth + 1
  BY <1>2, <1>3, <1>13
<1> HIDE DEF u
<1>19. QED BY <1>14, <1>15, <1>16, <1>17, <1>18

-----------------------------------------------------------------------------
(* Why splitting ends, and why the directory is no longer than needed: a   *)
(* full bucket without the key holds, with the key, more keys than fit a   *)
(* bucket, and they agree in the bucket's low bits.                        *)

Crowded(K, g) ==
    g > 0 => \E low \in Slots(g - 1) : \E S \in SUBSET K :
               /\ IsFiniteSet(S)
               /\ Cardinality(S) > BUCKET_CAPACITY
               /\ \A x \in S : Low(x, g - 1) = low

\* Such a bucket is not as deep as the words, so that it can be split.
LEMMA FullBucket ==
    ASSUME HashAssumption, NEW t, Sound(t), NEW k \in Key, k \notin HeldKeys(t),
           Full(t, bucket_index_for_key(t, k))
    PROVE  LET depth == t.buckets[bucket_index_for_key(t, k)].local_depth
           IN /\ depth < Width
              /\ Crowded(HeldKeys(t) \union {k}, depth + 1)
<1> DEFINE b == bucket_index_for_key(t, k)
           d == t.buckets[b].local_depth
           g == t.global_depth
           es == t.buckets[b].entries
           R == {es[i][1] : i \in DOMAIN es}
           S == R \union {k}
<1>1. Typed(t) /\ Pointed(t) /\ Placed(t) /\ Distinct(t) /\ b \in DOMAIN t.buckets
  BY KeyHasBucket DEF Sound
<1>2. /\ g \in 0 .. Width /\ d \in Nat /\ d <= g /\ Width \in Nat /\ BUCKET_CAPACITY \in Nat \ {0}
      /\ Len(es) \in Nat /\ DOMAIN es = 1 .. Len(es)
      /\ \A i \in DOMAIN es : es[i] \in Held(t) /\ es[i][1] \in Key
      /\ Len(es) >= BUCKET_CAPACITY
  BY <1>1, BucketParts DEF Typed, HashAssumption, Full
<1>3. PICK low \in Slots(d) : \A i \in Slots(g) : t.directory[i] = b <=> i % 2^d = low
  BY <1>1 DEF Pointed
<1>4. ASSUME NEW x \in Key, bucket_index_for_key(t, x) = b PROVE Low(x, d) = low
  <2>1. hash(t, x) \in Slots(g) /\ t.directory[hash(t, x)] = b
    BY <1>1, <1>4, KeyHasBucket DEF bucket_index_for_key
  <2>2. hash(t, x) % 2^d = low
    BY <1>3, <2>1
  <2>3. Low(x, g) % 2^d = Low(x, d)
    BY <1>2, LowType
  <2>4. QED BY <2>2, <2>3 DEF hash
<1>5. \A x \in S : x \in Key /\ Low(x, d) = low
  BY <1>1, <1>2, <1>4 DEF Placed
<1>6. R \subseteq HeldKeys(t) /\ S \subseteq HeldKeys(t) \union {k} /\ k \notin R
  BY <1>2 DEF HeldKeys
<1>7. d < Width
  <2> SUFFICES ASSUME d = Width PROVE FALSE
    BY <1>2
  <2>1. 1 \in DOMAIN es
    BY <1>2
  <2>2. es[1][1] \in Key /\ Low(es[1][1], Width) = Low(k, Width)
    BY <1>2, <1>5, <2>1
  <2>3. es[1][1] = k
    BY <2>2, LowInjective
  <2>4. QED BY <1>6, <2>1, <2>3
<1>8. IsFiniteSet(S) /\ Cardinality(S) = Len(es) + 1
  <2> DEFINE f == [i \in 1 .. Len(es) |-> es[i][1]]
  <2>1. f \in Bijection(1 .. Len(es), R)
    <3>1. f \in [1 .. Len(es) -> R] /\ \A x \in R : \E i \in 1 .. Len(es) : f[i] = x
      BY <1>2
    <3>2. \A i, j \in 1 .. Len(es) : f[i] = f[j] => i = j
      BY <1>1, <1>2 DEF Distinct
    <3>3. QED BY <3>1, <3>2 DEF Bijection, Injection, Surjection, IsInjective
  <2>2. ExistsBijection(1 .. Len(es), R)
    BY <2>1 DEF ExistsBijection
  <2>3. IsFiniteSet(1 .. Len(es)) /\ Cardinality(1 .. Len(es)) = Len(es)
    BY <1>2, IntervalSize
  <2>4. IsFiniteSet(R) /\ Cardinality(R) = Len(es)
    BY <2>2, <2>3, FS_Bijection
  <2> HIDE DEF R
  <2>5. QED BY <1>6, <2>4, FS_AddElement
<1>9. Crowded(HeldKeys(t) \union {k}, d + 1)
  <2>1. (d + 1) - 1 = d /\ Cardinality(S) > BUCKET_CAPACITY
    BY <1>2, <1>8
  <2> HIDE DEF S
  <2>2. QED BY <1>3, <1>5, <1>6, <1>8, <2>1 DEF Crowded
<1>10. QED BY <1>7, <1>9

\* An entry added to a bucket with room.
LEMMA InsertWithRoom ==
    ASSUME HashAssumption, NEW t, Sound(t), Roomy(t), NEW k \in Key, NEW v \in Value,
           k \notin HeldKeys(t), ~ Full(t, bucket_index_for_key(t, k))
    PROVE  LET u == AddEntry(t, k, v)
           IN /\ Sound(u)
              /\ Roomy(u)
              /\ Held(u) = Held(t) \union {<<k, v>>}
              /\ u.global_depth = t.global_depth
<1> DEFINE u == AddEntry(t, k, v)
           b == bucket_index_for_key(t, k)
<1>1. Typed(t)
  BY DEF Sound
<1>2. Sound(u) /\ Held(u) = Held(t) \union {<<k, v>>}
  BY AddEntrySound
<1>3. /\ u.global_depth = t.global_depth
      /\ DOMAIN u.buckets = DOMAIN t.buckets
      /\ \A c \in DOMAIN t.buckets :
           u.buckets[c].entries = IF c = b THEN Append(t.buckets[c].entries, <<k, v>>)
                                  ELSE t.buckets[c].entries
  BY <1>1, AddEntryParts
<1> HIDE DEF u
<1>4. Roomy(u)
  <2> SUFFICES ASSUME NEW c \in DOMAIN t.buckets PROVE Len(u.buckets[c].entries) <= BUCKET_CAPACITY
    BY <1>3 DEF Roomy
  <2>1. CASE c = b
    <3>1. t.buckets[c].entries \in Seq(Key \X Value) /\ Len(t.buckets[c].entries) \in Nat
      BY <1>1, BucketParts
    <3>2. Len(Append(t.buckets[c].entries, <<k, v>>)) = Len(t.buckets[c].entries) + 1
      BY <3>1, AppendProperties
    <3>3. Len(t.buckets[c].entries) < BUCKET_CAPACITY /\ BUCKET_CAPACITY \in Nat
      BY <2>1, <3>1 DEF Full, HashAssumption
    <3>4. u.buckets[c].entries = Append(t.buckets[c].entries, <<k, v>>)
      BY <1>3, <2>1
    <3> DEFINE n == Len(t.buckets[c].entries)
    <3>5. Len(u.buckets[c].entries) = n + 1 /\ n \in Nat /\ n < BUCKET_CAPACITY
      BY <3>1, <3>2, <3>3, <3>4
    <3> HIDE DEF n
    <3>6. QED BY <3>3, <3>5
  <2>2. CASE c # b
    BY <1>3, <2>2 DEF Roomy
  <2>3. QED BY <2>1, <2>2
<1>5. QED BY <1>2, <1>3, <1>4 DEF u

\* One round of the loop.
LEMMA SplitFullBucket ==
    ASSUME HashAssumption, NEW t, Sound(t), Roomy(t), NEW k \in Key, k \notin HeldKeys(t),
           Full(t, bucket_index_for_key(t, k)),
           Crowded(HeldKeys(t) \union {k}, t.global_depth)
    PROVE  LET s == SplitFor(t, k)
           IN /\ Sound(s)
              /\ Roomy(s)
              /\ Held(s) = Held(t)
              /\ Crowded(HeldKeys(t) \union {k}, s.global_depth)
              /\ s.buckets[bucket_index_for_key(s, k)].local_depth =
                   t.buckets[bucket_index_for_key(t, k)].local_depth + 1
<1> DEFINE s == SplitFor(t, k)
           d == t.buckets[bucket_index_for_key(t, k)].local_depth
<1>1. d < Width /\ Crowded(HeldKeys(t) \union {k}, d + 1)
  BY FullBucket
<1>2. /\ Sound(s)
      /\ Roomy(s)
      /\ Held(s) = Held(t)
      /\ s.buckets[bucket_index_for_key(s, k)].local_depth = d + 1
      /\ s.global_depth # t.global_depth => d = t.global_depth /\ s.global_depth = t.global_depth + 1
  BY <1>1, SplitForSound
<1> HIDE DEF s
<1>3. Crowded(HeldKeys(t) \union {k}, s.global_depth)
  BY <1>1, <1>2
<1>4. QED BY <1>2, <1>3 DEF s

\* All of split_and_insert: after at most Width rounds there is room.
LEMMA SplitAndInsertSound ==
    ASSUME HashAssumption, NEW t, Sound(t), Roomy(t), NEW k \in Key, NEW v \in Value,
           k \notin HeldKeys(t), Full(t, bucket_index_for_key(t, k)),
           Crowded(HeldKeys(t) \union {k}, t.global_depth)
    PROVE  LET u == split_and_insert(t, k, v)
           IN /\ Sound(u)
              /\ Roomy(u)
              /\ Held(u) = Held(t) \union {<<k, v>>}
              /\ Crowded(HeldKeys(t) \union {k}, u.global_depth)
<1> DEFINE K == HeldKeys(t) \union {k}
           Deep(s) == s.buckets[bucket_index_for_key(s, k)].local_depth
<1>1. Width \in Nat \ {0}
  BY DEF HashAssumption
<1>2. PICK f : /\ f[1] = SplitFor(t, k)
               /\ \A n \in 2 .. Width : f[n] = SplitOn(f[n - 1], k)
               /\ split_and_insert(t, k, v) = AddEntry(f[Width], k, v)
  BY <1>1, SplitsUnfold
<1> DEFINE Inv(n) == /\ Sound(f[n]) /\ Roomy(f[n]) /\ Held(f[n]) = Held(t)
                     /\ Crowded(K, f[n].global_depth)
                     /\ Full(f[n], bucket_index_for_key(f[n], k)) => Deep(f[n]) >= n
           Bad == {n \in 1 .. Width : ~ Inv(n)}
<1>3. ASSUME NEW s, Sound(s) PROVE Deep(s) \in Nat
  BY <1>3, KeyHasBucket, BucketParts DEF Sound
<1>4. Inv(1)
  <2>1. /\ Sound(f[1]) /\ Roomy(f[1]) /\ Held(f[1]) = Held(t)
        /\ Crowded(K, f[1].global_depth)
        /\ Deep(f[1]) = Deep(t) + 1
    BY <1>2, SplitFullBucket
  <2>2. Deep(t) \in Nat
    BY <1>3
  <2> HIDE DEF K, Deep
  <2>3. QED BY <2>1, <2>2
<1>5. ASSUME NEW n \in 2 .. Width, Inv(n - 1) PROVE Inv(n)
  <2> DEFINE s == f[n - 1]
  <2>1. f[n] = SplitOn(s, k)
    BY <1>2
  <2>2. CASE Full(s, bucket_index_for_key(s, k))
    <3>1. f[n] = SplitFor(s, k)
      BY <2>1, <2>2 DEF SplitOn
    <3>2. HeldKeys(s) = HeldKeys(t)
      BY <1>5 DEF HeldKeys
    <3>3. Sound(s) /\ Roomy(s) /\ k \notin HeldKeys(s) /\ Crowded(HeldKeys(s) \union {k}, s.global_depth)
      BY <1>5, <3>2
    <3>4. /\ Sound(f[n]) /\ Roomy(f[n]) /\ Held(f[n]) = Held(s)
          /\ Crowded(HeldKeys(s) \union {k}, f[n].global_depth)
          /\ Deep(f[n]) = Deep(s) + 1
      BY <2>2, <3>1, <3>3, SplitFullBucket
    <3>5. Deep(s) \in Nat /\ Deep(s) >= n - 1 /\ n \in Nat /\ Held(s) = Held(t)
      BY <1>3, <1>5, <2>2, <3>3
    <3> HIDE DEF s, Deep
    <3>6. QED BY <3>2, <3>4, <3>5
  <2>3. CASE ~ Full(s, bucket_index_for_key(s, k))
    <3>1. f[n] = s
      BY <2>1, <2>3 DEF SplitOn
    <3>2. QED BY <1>5, <2>3, <3>1
  <2>4. QED BY <2>2, <2>3
<1>6. Bad = {}
  <2> SUFFICES ASSUME Bad # {} PROVE FALSE
    OBVIOUS
  <2>1. Bad \subseteq Nat
    OBVIOUS
  <2>2. PICK n \in Bad : \A m \in Bad : n <= m
    <3> HIDE DEF Bad
    <3> QED BY <2>1, LeastNatural
  <2>3. n \in 1 .. Width /\ ~ Inv(n)
    OBVIOUS
  <2> HIDE DEF Inv
  <2>4. n # 1
    BY <1>4, <2>3
  <2>5. n - 1 \in 1 .. Width /\ n \in 2 .. Width /\ ~ (n <= n - 1)
    BY <1>1, <2>3, <2>4
  <2>6. Inv(n - 1)
    BY <2>2, <2>5
  <2>7. QED BY <1>5, <2>3, <2>5, <2>6
<1>7. Inv(Width)
  <2> HIDE DEF Inv
  <2>1. Width \in 1 .. Width
    BY <1>1
  <2>2. QED BY <1>6, <2>1
<1> DEFINE w == f[Width]
<1>8. HeldKeys(w) = HeldKeys(t)
  BY <1>7 DEF HeldKeys
<1>9. ~ Full(w, bucket_index_for_key(w, k))
  <2> SUFFICES ASSUME Full(w, bucket_index_for_key(w, k)) PROVE FALSE
    OBVIOUS
  <2>1. Deep(w) < Width
    BY <1>7, <1>8, FullBucket
  <2>2. Deep(w) >= Width /\ Deep(w) \in Nat
    BY <1>3, <1>7
  <2> HIDE DEF Deep
  <2>3. QED BY <1>1, <2>1, <2>2
<1>10. /\ Sound(AddEntry(w, k, v)) /\ Roomy(AddEntry(w, k, v))
       /\ Held(AddEntry(w, k, v)) = Held(w) \union {<<k, v>>}
       /\ AddEntry(w, k, v).global_depth = w.global_depth
  BY <1>7, <1>8, <1>9, InsertWithRoom
<1>11. QED BY <1>2, <1>7, <1>10

-----------------------------------------------------------------------------
(* What get finds.                                                         *)

\* get finds the values held with the key, wherever they are.
LEMMA GetIsHeld ==
    ASSUME HashAssumption, NEW t, Sound(t), NEW k \in Key
    PROVE  get(t, k) = {e[2] : e \in {x \in Held(t) : x[1] = k}}
<1> DEFINE b == bucket_index_for_key(t, k)
           es == t.buckets[b].entries
           found == {i \in DOMAIN es : es[i][1] = k}
           first == {i \in found : \A j \in found : i <= j}
<1>1. Typed(t) /\ Placed(t) /\ Distinct(t) /\ b \in DOMAIN t.buckets
  BY KeyHasBucket DEF Sound
<1>2. DOMAIN es = 1 .. Len(es) /\ Len(es) \in Nat
  BY <1>1, BucketParts
<1>3. get(t, k) = {es[i][2] : i \in first}
  BY DEF get, EntriesFor
<1>4. first = found
  <2>1. \A i, j \in found : i = j
    BY <1>1 DEF Distinct
  <2>2. \A i, j \in found : i <= j
    BY <1>2, <2>1
  <2>3. QED BY <2>2
<1>5. \A e : (e \in Held(t) /\ e[1] = k) <=> \E i \in found : e = es[i]
  <2>1. ASSUME NEW e \in Held(t), e[1] = k PROVE \E i \in found : e = es[i]
    <3>1. PICK c \in DOMAIN t.buckets : \E i \in DOMAIN t.buckets[c].entries :
              e = t.buckets[c].entries[i]
      BY DEF Held, EntriesOf
    <3>2. c = b
      BY <1>1, <2>1, <3>1 DEF Placed
    <3>3. QED BY <2>1, <3>1, <3>2
  <2>2. ASSUME NEW i \in found PROVE es[i] \in Held(t) /\ es[i][1] = k
    BY <1>1, BucketParts
  <2>3. QED BY <2>1, <2>2
<1> HIDE DEF found, first, es
<1>6. {es[i][2] : i \in found} = {e[2] : e \in {x \in Held(t) : x[1] = k}}
  BY <1>5
<1>7. QED BY <1>3, <1>4, <1>6

\* The replacement of a value.
Replace(e, k, v) == IF e[1] = k THEN <<k, v>> ELSE e

Updated(t, k, v) ==
    [t EXCEPT !.buckets[bucket_index_for_key(t, k)].entries =
                [i \in DOMAIN @ |-> IF @[i][1] = k THEN <<k, v>> ELSE @[i]]]

\* The replacement of a value keeps the table sound.
LEMMA UpdateSound ==
    ASSUME HashAssumption, NEW t, Sound(t), Roomy(t), NEW k \in Key, NEW v \in Value
    PROVE  LET u == Updated(t, k, v)
           IN /\ Sound(u)
              /\ Roomy(u)
              /\ Held(u) = {Replace(e, k, v) : e \in Held(t)}
              /\ u.global_depth = t.global_depth
<1> DEFINE u == Updated(t, k, v)
           b == bucket_index_for_key(t, k)
           old == t.buckets[b].entries
           es == [i \in DOMAIN old |-> Replace(old[i], k, v)]
           new == [t.buckets[b] EXCEPT !.entries = es]
           bs == [t.buckets EXCEPT ![b] = new]
<1>1. Typed(t) /\ Pointed(t) /\ Placed(t) /\ Distinct(t) /\ b \in DOMAIN t.buckets
  BY KeyHasBucket DEF Sound
<1>2. /\ t \in [global_depth : 0 .. Width,
                directory : [Slots(t.global_depth) -> DOMAIN t.buckets],
                buckets : Seq(BucketType)]
      /\ t.buckets \in Seq(BucketType)
      /\ \A c \in DOMAIN t.buckets : t.buckets[c].local_depth <= t.global_depth
  BY <1>1 DEF Typed
<1>3. u = [t EXCEPT !.buckets = bs]
  BY DEF Replace, Updated
<1> HIDE DEF u
<1>4. /\ old \in Seq(Key \X Value) /\ Len(old) \in Nat /\ DOMAIN old = 1 .. Len(old)
      /\ \A i \in DOMAIN old : /\ old[i] \in Key \X Value
                               /\ Replace(old[i], k, v) \in Key \X Value
                               /\ Replace(old[i], k, v)[1] = old[i][1]
  BY <1>1, BucketParts DEF Replace
<1>5. /\ es \in Seq(Key \X Value) /\ Len(es) = Len(old) /\ DOMAIN es = DOMAIN old
      /\ \A i \in DOMAIN old : es[i] = Replace(old[i], k, v) /\ es[i][1] = old[i][1]
  <2>1. es \in [1 .. Len(old) -> Key \X Value]
    BY <1>4
  <2>2. es \in Seq(Key \X Value) /\ Len(es) = Len(old)
    <3> DEFINE n == Len(old)
    <3>1. n \in Nat /\ es \in [1 .. n -> Key \X Value]
      BY <1>4, <2>1
    <3> HIDE DEF es, n
    <3>2. es \in Seq(Key \X Value) /\ Len(es) = n
      BY <3>1
    <3>3. QED BY <3>2 DEF n
  <2>3. QED BY <1>4, <2>2
<1> HIDE DEF es
<1>6. new \in BucketType /\ new.local_depth = t.buckets[b].local_depth /\ new.entries = es
  BY <1>1, <1>5, BucketParts DEF BucketType
<1> HIDE DEF new
<1>7. /\ bs \in Seq(BucketType) /\ DOMAIN bs = DOMAIN t.buckets
      /\ \A c \in DOMAIN t.buckets : bs[c] = IF c = b THEN new ELSE t.buckets[c]
  BY <1>1, <1>2, <1>6, ExceptSeq
<1> HIDE DEF bs
<1>8. /\ u.buckets = bs /\ u.global_depth = t.global_depth /\ u.directory = t.directory
      /\ u \in [global_depth : 0 .. Width,
                directory : [Slots(t.global_depth) -> DOMAIN t.buckets],
                buckets : Seq(BucketType)]
  BY <1>2, <1>3, <1>7
<1>9. \A c \in DOMAIN t.buckets :
        /\ u.buckets[c].local_depth = t.buckets[c].local_depth
        /\ u.buckets[c].entries = IF c = b THEN es ELSE t.buckets[c].entries
  BY <1>6, <1>7, <1>8
<1>10. \A x : bucket_index_for_key(u, x) = bucket_index_for_key(t, x)
  BY <1>8 DEF bucket_index_for_key, hash
<1>11. \A c \in DOMAIN t.buckets :
         /\ DOMAIN u.buckets[c].entries = DOMAIN t.buckets[c].entries
         /\ Len(u.buckets[c].entries) = Len(t.buckets[c].entries)
         /\ \A i \in DOMAIN t.buckets[c].entries :
              u.buckets[c].entries[i][1] = t.buckets[c].entries[i][1]
  BY <1>5, <1>9
<1>12. Typed(u)
  BY <1>2, <1>7, <1>8, <1>9 DEF Typed
<1>13. Pointed(u)
  BY <1>1, <1>7, <1>8, <1>9 DEF Pointed
<1>14. Placed(u)
  BY <1>1, <1>7, <1>8, <1>10, <1>11 DEF Placed
<1>15. Distinct(u)
  <2> SUFFICES ASSUME NEW c \in DOMAIN t.buckets,
                      NEW i \in DOMAIN t.buckets[c].entries, NEW j \in DOMAIN t.buckets[c].entries,
                      u.buckets[c].entries[i][1] = u.buckets[c].entries[j][1]
               PROVE  i = j
    <3>1. DOMAIN u.buckets = DOMAIN t.buckets
      BY <1>7, <1>8
    <3>2. QED BY <1>11, <3>1 DEF Distinct
  <2>1. t.buckets[c].entries[i][1] = t.buckets[c].entries[j][1]
    BY <1>11
  <2>2. QED BY <1>1, <2>1 DEF Distinct
<1>16. Roomy(u)
  BY <1>7, <1>8, <1>11 DEF Roomy
<1>17. Held(u) = {Replace(e, k, v) : e \in Held(t)}
  <2> DEFINE A(c) == EntriesOf(t.buckets[c].entries)
             B(c) == EntriesOf(u.buckets[c].entries)
             D == DOMAIN t.buckets
  <2>1. Held(t) = UNION {A(c) : c \in D} /\ Held(u) = UNION {B(c) : c \in D}
    BY <1>7, <1>8 DEF Held
  <2>2. ASSUME NEW c \in D PROVE B(c) = {Replace(e, k, v) : e \in A(c)}
    <3>1. CASE c = b
      <4>1. u.buckets[c].entries = es
        BY <1>9, <3>1
      <4>2. {es[i] : i \in DOMAIN es} = {Replace(e, k, v) : e \in {old[i] : i \in DOMAIN old}}
        BY <1>5
      <4>3. QED BY <3>1, <4>1, <4>2 DEF EntriesOf
    <3>2. CASE c # b
      <4>1. \A i \in DOMAIN t.buckets[c].entries : t.buckets[c].entries[i][1] # k
        BY <1>1, <3>2 DEF Placed
      <4>2. \A e \in A(c) : Replace(e, k, v) = e
        BY <4>1 DEF EntriesOf, Replace
      <4>3. B(c) = A(c)
        BY <1>9, <3>2
      <4> HIDE DEF A, B
      <4>4. QED BY <4>2, <4>3
    <3>3. QED BY <3>1, <3>2
  <2> HIDE DEF A, B, D
  <2>3. QED BY <2>1, <2>2
<1>18. QED BY <1>8, <1>12, <1>13, <1>14, <1>15, <1>16, <1>17 DEF Sound, u

-----------------------------------------------------------------------------
(* The inductive invariant.                                                *)

Good(t) == Sound(t) /\ Roomy(t) /\ Crowded(HeldKeys(t), t.global_depth)

ExtendibleInv == Good(table)

\* The new table is good.
LEMMA ExtendibleStart == ASSUME HashAssumption, Init PROVE ExtendibleInv
<1> DEFINE dir == [i \in Slots(0) |-> 1]
           bs == <<Bucket(0, <<>>)>>
<1>1. table.global_depth = 0 /\ table.directory = dir /\ table.buckets = bs
  BY DEF Init, Table
<1>2. Slots(0) = {0} /\ 2^0 = 1
  BY PowerOfZero DEF Slots
<1>3. <<>> \in Seq(Key \X Value) /\ 0 \in 0 .. Width /\ BUCKET_CAPACITY \in Nat \ {0}
  BY DEF HashAssumption
<1>4. Bucket(0, <<>>) \in BucketType /\ Bucket(0, <<>>).local_depth = 0 /\ Bucket(0, <<>>).entries = <<>>
  BY <1>3 DEF Bucket, BucketType
<1>5. bs \in Seq(BucketType) /\ DOMAIN bs = {1} /\ bs[1] = Bucket(0, <<>>)
  BY <1>4
<1>6. table \in [global_depth : 0 .. Width, directory : [Slots(0) -> DOMAIN bs], buckets : Seq(BucketType)]
  <2>1. dir \in [Slots(0) -> DOMAIN bs]
    BY <1>5
  <2>2. table = [global_depth |-> 0, directory |-> dir, buckets |-> bs]
    BY DEF Init, Table
  <2> HIDE DEF dir, bs
  <2>3. QED BY <1>3, <1>5, <2>1, <2>2
<1> HIDE DEF bs
<1>7. Typed(table)
  BY <1>1, <1>4, <1>5, <1>6 DEF Typed
<1>8. Pointed(table)
  <2>1. 0 \in Slots(0) /\ \A i \in Slots(0) : dir[i] = 1 <=> i % 2^0 = 0
    BY <1>2
  <2>2. bs[1].local_depth = 0
    BY <1>4, <1>5
  <2> HIDE DEF dir
  <2>3. \A b \in {1} : \E low \in Slots(bs[b].local_depth) :
          \A i \in Slots(0) : dir[i] = b <=> i % 2^bs[b].local_depth = low
    BY <2>1, <2>2
  <2>4. QED BY <1>1, <1>5, <2>3 DEF Pointed
<1>9. Placed(table) /\ Distinct(table)
  BY <1>1, <1>4, <1>5 DEF Placed, Distinct
<1>10. Roomy(table)
  <2>1. Len(<<>>) <= BUCKET_CAPACITY
    BY <1>3
  <2>2. QED BY <1>1, <1>4, <1>5, <2>1 DEF Roomy
<1>11. Crowded(HeldKeys(table), table.global_depth)
  BY <1>1 DEF Crowded
<1>12. QED BY <1>7, <1>8, <1>9, <1>10, <1>11 DEF ExtendibleInv, Good, Sound

\* More keys crowd no less.
LEMMA CrowdedMonotone ==
    ASSUME NEW K, NEW L, K \subseteq L, NEW g, Crowded(K, g)
    PROVE  Crowded(L, g)
  BY DEF Crowded

\* An insertion of a key that was not held.
LEMMA NewKeyGood ==
    ASSUME HashAssumption, NEW t, Sound(t), NEW u, Sound(u), Roomy(u),
           NEW k \in Key, NEW v \in Value, k \notin HeldKeys(t),
           Held(u) = Held(t) \union {<<k, v>>},
           Crowded(HeldKeys(t) \union {k}, u.global_depth)
    PROVE  Good(u) /\ \A j \in Key : get(u, j) = IF j = k THEN {v} ELSE get(t, j)
<1>1. HeldKeys(u) = HeldKeys(t) \union {k}
  <2>1. \A x : x \in HeldKeys(u) <=> \E e \in Held(t) \union {<<k, v>>} : x = e[1]
    BY DEF HeldKeys
  <2>2. \A x : x \in HeldKeys(t) <=> \E e \in Held(t) : x = e[1]
    BY DEF HeldKeys
  <2>3. <<k, v>>[1] = k
    OBVIOUS
  <2>4. \A x : x \in HeldKeys(u) <=> x \in HeldKeys(t) \/ x = k
    BY <2>1, <2>2, <2>3
  <2>5. QED BY <2>4
<1>2. ASSUME NEW j \in Key PROVE get(u, j) = IF j = k THEN {v} ELSE get(t, j)
  <2>1. /\ get(u, j) = {e[2] : e \in {x \in Held(u) : x[1] = j}}
        /\ get(t, j) = {e[2] : e \in {x \in Held(t) : x[1] = j}}
    BY GetIsHeld
  <2>2. CASE j = k
    <3>1. \A e \in Held(t) : e[1] # k
      BY DEF HeldKeys
    <3>2. {x \in Held(u) : x[1] = j} = {<<k, v>>}
      BY <2>2, <3>1
    <3>3. {e[2] : e \in {<<k, v>>}} = {v}
      OBVIOUS
    <3>4. QED BY <2>1, <2>2, <3>2, <3>3
  <2>3. CASE j # k
    <3>1. {x \in Held(u) : x[1] = j} = {x \in Held(t) : x[1] = j}
      BY <2>3
    <3>2. QED BY <2>1, <2>3, <3>1
  <2>4. QED BY <2>2, <2>3
<1>3. QED BY <1>1, <1>2 DEF Good

\* What one call does to a good table.
LEMMA InsertEffect ==
    ASSUME HashAssumption, ExtendibleInv, NEW k \in Key, NEW v \in Value, insert(k, v)
    PROVE  /\ Good(table')
           /\ \A j \in Key : get(table', j) = IF j = k THEN {v} ELSE get(table, j)
<1>1. Good(table) /\ Sound(table) /\ Roomy(table) /\ Typed(table) /\ Placed(table)
      /\ Crowded(HeldKeys(table), table.global_depth)
  BY DEF ExtendibleInv, Good, Sound
<1>2. Known(table, k) <=> k \in HeldKeys(table)
  BY <1>1, KnownIsHeld
<1>3. Crowded(HeldKeys(table) \union {k}, table.global_depth)
  BY <1>1, CrowdedMonotone
<1>4. CASE InsertInRoom(k, v)
  <2>1. k \notin HeldKeys(table) /\ ~ Full(table, bucket_index_for_key(table, k))
        /\ table' = AddEntry(table, k, v)
    BY <1>2, <1>4 DEF InsertInRoom
  <2>2. /\ Sound(table') /\ Roomy(table') /\ Held(table') = Held(table) \union {<<k, v>>}
        /\ table'.global_depth = table.global_depth
    BY <1>1, <2>1, InsertWithRoom
  <2>3. QED BY <1>1, <1>3, <2>1, <2>2, NewKeyGood
<1>5. CASE InsertWithSplit(k, v)
  <2>1. k \notin HeldKeys(table) /\ Full(table, bucket_index_for_key(table, k))
        /\ table' = split_and_insert(table, k, v)
    BY <1>2, <1>5 DEF InsertWithSplit
  <2>2. /\ Sound(table') /\ Roomy(table') /\ Held(table') = Held(table) \union {<<k, v>>}
        /\ Crowded(HeldKeys(table) \union {k}, table'.global_depth)
    BY <1>1, <1>3, <2>1, SplitAndInsertSound
  <2>3. QED BY <1>1, <2>1, <2>2, NewKeyGood
<1>6. CASE Update(k, v)
  <2>1. k \in HeldKeys(table) /\ table' = Updated(table, k, v)
    BY <1>2, <1>6 DEF Update, Updated
  <2>2. /\ Sound(table') /\ Roomy(table') /\ Held(table') = {Replace(e, k, v) : e \in Held(table)}
        /\ table'.global_depth = table.global_depth
    BY <1>1, <2>1, UpdateSound
  <2>3. HeldKeys(table') = HeldKeys(table)
    <3>1. \A e \in Held(table) : Replace(e, k, v)[1] = e[1]
      BY DEF Replace
    <3>2. QED BY <2>2, <3>1 DEF HeldKeys
  <2>4. ASSUME NEW j \in Key PROVE get(table', j) = IF j = k THEN {v} ELSE get(table, j)
    <3>1. /\ get(table', j) = {e[2] : e \in {x \in Held(table') : x[1] = j}}
          /\ get(table, j) = {e[2] : e \in {x \in Held(table) : x[1] = j}}
      BY <1>1, <2>2, GetIsHeld
    <3>2. CASE j = k
      <4>1. PICK e \in Held(table) : e[1] = k
        BY <2>1 DEF HeldKeys
      <4>2. {x \in Held(table') : x[1] = k} = {<<k, v>>}
        BY <2>2, <4>1 DEF Replace
      <4>3. {e2[2] : e2 \in {<<k, v>>}} = {v}
        OBVIOUS
      <4>4. QED BY <3>1, <3>2, <4>2, <4>3
    <3>3. CASE j # k
      <4>1. {x \in Held(table') : x[1] = j} = {x \in Held(table) : x[1] = j}
        <5>1. ASSUME NEW x \in Held(table'), x[1] = j PROVE x \in Held(table)
          BY <2>2, <3>3, <5>1 DEF Replace
        <5>2. ASSUME NEW x \in Held(table), x[1] = j PROVE x \in Held(table')
          <6>1. Replace(x, k, v) = x
            BY <3>3, <5>2 DEF Replace
          <6>2. QED BY <2>2, <6>1
        <5>3. QED BY <5>1, <5>2
      <4>2. QED BY <3>1, <3>3, <4>1
    <3>4. QED BY <3>2, <3>3
  <2>5. QED BY <1>1, <2>2, <2>3, <2>4 DEF Good
<1>7. QED BY <1>4, <1>5, <1>6 DEF insert

\* Every insertion leaves a good table.
LEMMA ExtendibleStep == ASSUME HashAssumption, ExtendibleInv, [Next]_table PROVE ExtendibleInv'
<1>1. CASE UNCHANGED table
  BY <1>1 DEF ExtendibleInv
<1>2. ASSUME NEW k \in Key, NEW v \in Value, insert(k, v) PROVE ExtendibleInv'
  BY <1>2, InsertEffect DEF ExtendibleInv
<1>3. QED BY <1>1, <1>2 DEF Next

\* The table is good in every reachable state.
LEMMA ExtendibleInvariant == ASSUME HashAssumption PROVE Spec => []ExtendibleInv
<1>1. Init => ExtendibleInv
  BY ExtendibleStart
<1>2. ExtendibleInv /\ [Next]_table => ExtendibleInv'
  BY ExtendibleStep
<1>3. QED BY <1>1, <1>2, PTL DEF Spec

-----------------------------------------------------------------------------
(* What the invariant says.                                                *)

\* The table keeps its type, whatever is inserted: no split overfills a
\* bucket, and neither a bucket nor the directory ever gets deeper than the
\* words that are hashed to.
THEOREM ExtendibleTypes == ASSUME HashAssumption PROVE Spec => []TypeOK
<1>1. ExtendibleInv => TypeOK
  <2> SUFFICES ASSUME ExtendibleInv PROVE TypeOK
    OBVIOUS
  <2>1. Typed(table) /\ Roomy(table)
    BY DEF ExtendibleInv, Good, Sound
  <2>2. \A b \in DOMAIN table.buckets :
          /\ table.buckets[b].local_depth \in 0 .. table.global_depth
          /\ table.buckets[b].entries \in Seq(Key \X Value)
    <3> SUFFICES ASSUME NEW b \in DOMAIN table.buckets
                 PROVE  /\ table.buckets[b].local_depth \in 0 .. table.global_depth
                        /\ table.buckets[b].entries \in Seq(Key \X Value)
      OBVIOUS
    <3>1. /\ table.buckets[b].local_depth \in Nat
          /\ table.buckets[b].entries \in Seq(Key \X Value)
      BY <2>1, BucketParts
    <3>2. table.buckets[b].local_depth <= table.global_depth /\ table.global_depth \in 0 .. Width
      BY <2>1 DEF Typed
    <3>3. QED BY <3>1, <3>2 DEF HashAssumption
  <2>3. QED BY <2>1, <2>2 DEF TypeOK, Typed, Roomy
<1>2. QED BY <1>1, ExtendibleInvariant, PTL

\* In a sound table the slots of a bucket agree in its low bits, as do the
\* hashes of its entries.
LEMMA SoundIsExact == ASSUME HashAssumption, Sound(table) PROVE SlotsExact
<1>1. Typed(table) /\ Pointed(table) /\ Placed(table)
  BY DEF Sound
<1> SUFFICES ASSUME NEW b \in DOMAIN table.buckets
             PROVE  LET depth == table.buckets[b].local_depth
                        slots == {i \in DOMAIN table.directory : table.directory[i] = b}
                    IN \E low \in Slots(depth) :
                         /\ slots = {i \in DOMAIN table.directory : i % 2^depth = low}
                         /\ \A i \in DOMAIN table.buckets[b].entries :
                              Low(table.buckets[b].entries[i][1], depth) = low
  BY DEF SlotsExact
<1> DEFINE d == table.buckets[b].local_depth
           g == table.global_depth
           es == table.buckets[b].entries
<1>2. PICK low \in Slots(d) : \A i \in Slots(g) : table.directory[i] = b <=> i % 2^d = low
  BY <1>1 DEF Pointed
<1>3. DOMAIN table.directory = Slots(g) /\ d \in Nat /\ g \in 0 .. Width /\ d <= g
  BY <1>1, BucketParts DEF Typed
<1>4. {i \in DOMAIN table.directory : table.directory[i] = b}
        = {i \in DOMAIN table.directory : i % 2^d = low}
  BY <1>2, <1>3
<1>5. ASSUME NEW i \in DOMAIN es PROVE Low(es[i][1], d) = low
  <2> DEFINE x == es[i][1]
  <2>1. x \in Key /\ bucket_index_for_key(table, x) = b
    BY <1>1, BucketParts DEF Placed
  <2> HIDE DEF x
  <2>2. hash(table, x) \in Slots(g) /\ table.directory[hash(table, x)] = b
    BY <1>1, <2>1, KeyHasBucket DEF bucket_index_for_key
  <2>3. Low(x, g) % 2^d = low
    BY <1>2, <2>2 DEF hash
  <2>4. Low(x, g) % 2^d = Low(x, d)
    BY <1>3, <2>1, LowType DEF HashAssumption
  <2>5. QED BY <2>3, <2>4 DEF x
<1>6. QED BY <1>2, <1>4, <1>5

\* Keys that crowd a half of the directory are entries under one slot of it.
LEMMA CrowdedIsMinimal ==
    ASSUME HashAssumption, Sound(table), Crowded(HeldKeys(table), table.global_depth)
    PROVE  Minimal
<1> DEFINE n == table.global_depth - 1
           Positions == UNION {{b} \X DOMAIN table.buckets[b].entries : b \in DOMAIN table.buckets}
           KeyAt(p) == table.buckets[p[1]].entries[p[2]][1]
           Under(low) == {p \in Positions : Low(KeyAt(p), n) = low}
<1>1. Typed(table)
  BY DEF Sound
<1> SUFFICES ASSUME table.global_depth > 0
             PROVE  \E low \in Slots(n) : Cardinality(Under(low)) > BUCKET_CAPACITY
  BY DEF Minimal
<1>2. PICK low \in Slots(n) : \E S \in SUBSET HeldKeys(table) :
          IsFiniteSet(S) /\ Cardinality(S) > BUCKET_CAPACITY /\ \A x \in S : Low(x, n) = low
  BY DEF Crowded
<1>3. PICK S \in SUBSET HeldKeys(table) :
          IsFiniteSet(S) /\ Cardinality(S) > BUCKET_CAPACITY /\ \A x \in S : Low(x, n) = low
  BY <1>2
<1>4. IsFiniteSet(Positions)
  <2> DEFINE At(b) == {b} \X DOMAIN table.buckets[b].entries
             D == DOMAIN table.buckets
             f == [b \in D |-> At(b)]
             Parts == {At(b) : b \in D}
  <2>1. IsFiniteSet(D)
    <3>1. D = 1 .. Len(table.buckets) /\ Len(table.buckets) \in Nat
      BY <1>1 DEF Typed
    <3>2. QED BY <3>1, FS_Interval
  <2>2. \A b \in D : IsFiniteSet(At(b))
    <3> SUFFICES ASSUME NEW b \in D PROVE IsFiniteSet(At(b))
      OBVIOUS
    <3>1. DOMAIN table.buckets[b].entries = 1 .. Len(table.buckets[b].entries)
          /\ Len(table.buckets[b].entries) \in Nat
      BY <1>1, BucketParts
    <3>2. IsFiniteSet(DOMAIN table.buckets[b].entries)
      <4> DEFINE count == Len(table.buckets[b].entries)
      <4>1. count \in Nat /\ DOMAIN table.buckets[b].entries = 1 .. count
        BY <3>1
      <4> HIDE DEF count
      <4>2. QED BY <4>1, IntervalSize
    <3>3. IsFiniteSet({b})
      BY FS_Singleton
    <3>4. QED BY <3>2, <3>3, FS_Product
  <2>3. IsFiniteSet(Parts)
    <3> HIDE DEF At, D
    <3>1. f \in Surjection(D, Parts)
      BY DEF Surjection
    <3>2. QED BY <2>1, <3>1, FS_Surjection
  <2>4. \A T \in Parts : IsFiniteSet(T)
    BY <2>2
  <2>5. IsFiniteSet(UNION Parts)
    <3> HIDE DEF Parts
    <3> QED BY <2>3, <2>4, FS_UNION
  <2>6. QED BY <2>5
<1> HIDE DEF Positions
<1> DEFINE U == Under(low)
           h == [p \in U |-> KeyAt(p)]
           Image == {KeyAt(p) : p \in U}
<1>5. IsFiniteSet(U) /\ Cardinality(U) \in Nat
  <2>1. U \in SUBSET Positions
    OBVIOUS
  <2> HIDE DEF U
  <2>2. QED BY <1>4, <2>1, FS_Subset, FS_CardinalityType
<1>6. IsFiniteSet(Image) /\ Cardinality(Image) <= Cardinality(U)
  <2> HIDE DEF U, KeyAt
  <2>1. h \in Surjection(U, Image)
    BY DEF Surjection
  <2>2. QED BY <1>5, <2>1, FS_Surjection
<1>7. S \subseteq Image
  <2> SUFFICES ASSUME NEW x \in S PROVE \E p \in U : KeyAt(p) = x
    OBVIOUS
  <2>1. PICK b \in DOMAIN table.buckets : \E i \in DOMAIN table.buckets[b].entries :
            table.buckets[b].entries[i][1] = x
    BY DEF HeldKeys, Held, EntriesOf
  <2>2. PICK i \in DOMAIN table.buckets[b].entries : table.buckets[b].entries[i][1] = x
    BY <2>1
  <2>3. <<b, i>> \in Positions
    BY DEF Positions
  <2>4. KeyAt(<<b, i>>) = x
    BY <2>2
  <2>5. Low(x, n) = low
    BY <1>3
  <2> HIDE DEF KeyAt
  <2>6. QED BY <2>3, <2>4, <2>5
<1>8. Cardinality(S) <= Cardinality(Image)
  <2> HIDE DEF Image
  <2> QED BY <1>6, <1>7, FS_Subset
<1>9. Cardinality(S) \in Nat /\ Cardinality(Image) \in Nat /\ BUCKET_CAPACITY \in Nat
  BY <1>3, <1>6, FS_CardinalityType DEF HashAssumption
<1>10. Cardinality(U) > BUCKET_CAPACITY
  <2> HIDE DEF U, Image
  <2> QED BY <1>3, <1>5, <1>6, <1>8, <1>9
<1>11. QED BY <1>10

\* The directory is exact and no longer than its entries need, for any
\* keys, any multiplier that is odd and any capacity of the buckets.
THEOREM DirectoryAlwaysExact == ASSUME HashAssumption PROVE Spec => []DirectoryExact
<1>1. ExtendibleInv => DirectoryExact
  BY SoundIsExact, CrowdedIsMinimal DEF ExtendibleInv, Good, DirectoryExact
<1>2. QED BY <1>1, ExtendibleInvariant, PTL

-----------------------------------------------------------------------------
(* The refinement.                                                         *)

\* The new table finds nothing.
LEMMA StartIsEmpty == ASSUME HashAssumption, Init PROVE Dict!DictInit
<1> SUFFICES Contents = [k \in {} |-> 0]
  BY DEF Dict!DictInit, Dict!Empty
<1>1. Sound(table)
  BY ExtendibleStart DEF ExtendibleInv, Good
<1>2. Held(table) = {}
  <2>1. table.buckets = <<Bucket(0, <<>>)>>
    BY DEF Init, Table
  <2>2. DOMAIN table.buckets = {1} /\ table.buckets[1].entries = <<>>
    BY <2>1 DEF Bucket
  <2>3. EntriesOf(<<>>) = {}
    BY DEF EntriesOf
  <2>4. QED BY <2>2, <2>3 DEF Held
<1>3. \A j \in Key : get(table, j) = {}
  BY <1>1, <1>2, GetIsHeld
<1>4. {j \in Key : get(table, j) # {}} = {}
  BY <1>3
<1>5. QED BY <1>4 DEF Contents

\* An insertion is seen at its own key, and at no other.
LEMMA InsertIsPut ==
    ASSUME HashAssumption, ExtendibleInv, NEW k \in Key, NEW v \in Value, insert(k, v)
    PROVE  Dict!Put(k, v)
<1>1. \A j \in Key : get(table', j) = IF j = k THEN {v} ELSE get(table, j)
  BY InsertEffect
<1>2. Contents' = [j \in {i \in Key : get(table', i) # {}} |-> CHOOSE w \in get(table', j) : TRUE]
  BY DEF Contents
<1>3. {i \in Key : get(table', i) # {}} = DOMAIN Contents \union {k}
  BY <1>1 DEF Contents
<1>4. \A j \in DOMAIN Contents \union {k} :
        (CHOOSE w \in get(table', j) : TRUE) = IF j = k THEN v ELSE Contents[j]
  <2> SUFFICES ASSUME NEW j \in DOMAIN Contents \union {k}
               PROVE  (CHOOSE w \in get(table', j) : TRUE) = IF j = k THEN v ELSE Contents[j]
    OBVIOUS
  <2>1. CASE j = k
    BY <1>1, <2>1
  <2>2. CASE j # k
    <3>1. j \in Key /\ j \in {i \in Key : get(table, i) # {}}
      BY <2>2 DEF Contents
    <3>2. Contents[j] = CHOOSE w \in get(table, j) : TRUE
      BY <3>1 DEF Contents
    <3>3. get(table', j) = get(table, j)
      BY <1>1, <2>2, <3>1
    <3>4. QED BY <2>2, <3>2, <3>3
  <2>3. QED BY <2>1, <2>2
<1>5. Contents' = [j \in DOMAIN Contents \union {k} |-> IF j = k THEN v ELSE Contents[j]]
  BY <1>2, <1>3, <1>4
<1>6. QED BY <1>5 DEF Dict!Put

\* The table implements a dictionary: what get finds changes, with an
\* insertion, at the key inserted and nowhere else, however many splits and
\* doublings it takes.
THEOREM ExtendibleImplementsDictionary == ASSUME HashAssumption PROVE Spec => ImplementsDictionary
<1>1. Init => Dict!DictInit
  BY StartIsEmpty
<1> DEFINE Puts == \A k \in Key, v \in Value : insert(k, v) => Dict!Put(k, v)
<1>2. ExtendibleInv /\ [Next]_table => [Puts]_table
  BY InsertIsPut
<1>3. QED BY <1>1, <1>2, ExtendibleInvariant, PTL DEF Spec, ImplementsDictionary
=============================================================================
