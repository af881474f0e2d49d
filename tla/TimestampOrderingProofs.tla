----------------------- MODULE TimestampOrderingProofs -----------------------
(***************************************************************************)
(* TLAPS proofs about TimestampOrdering, for any sets of transactions and  *)
(* items and any bounds: accepted operations are conflict serializable in  *)
(* the order of the stamps, every read sees the write that this order      *)
(* gives it (which is what licenses the Thomas write rule), and the        *)
(* youngest transaction is never rejected.                                 *)
(***************************************************************************)
EXTENDS TimestampOrdering, SchedulesProofs

LEMMA TOTypeStep ==
    ASSUME TypeOK, [Next]_vars
    PROVE  TypeOK'
<1> USE DEF TypeOK
<1>1. CASE UNCHANGED vars
  BY <1>1 DEF vars, toVars
<1>2. ASSUME NEW t \in Txn, begin(t)
      PROVE  TypeOK'
  BY <1>2 DEF begin
<1>3. ASSUME NEW t \in Txn, NEW x \in Item
      PROVE  /\ ReadOp(Incarnation(t), x) \in Operation(Incarnations, Item)
             /\ WriteOp(Incarnation(t), x) \in Operation(Incarnations, Item)
  BY DEF ReadOp, WriteOp, Operation, Incarnation, Incarnations
<1>4. ASSUME NEW t \in Txn, NEW x \in Item, read(t, x)
      PROVE  TypeOK'
  BY <1>3, <1>4 DEF read, Later
<1>5. ASSUME NEW t \in Txn, NEW x \in Item, write(t, x)
      PROVE  TypeOK'
  BY <1>3, <1>5 DEF write
<1>6. ASSUME NEW t \in Txn, NEW x \in Item, writeIgnored(t, x)
      PROVE  TypeOK'
  BY <1>3, <1>6 DEF writeIgnored, toVars
<1>7. QED
  BY <1>1, <1>2, <1>4, <1>5, <1>6 DEF Next, Rejected

\* Type correctness of the controller.
THEOREM TOTypes == Spec => []TypeOK
<1>1. Init => TypeOK
  BY DEF Init, TypeOK
<1>2. QED
  BY <1>1, TOTypeStep, PTL DEF Spec

-----------------------------------------------------------------------------
LEMMA TOInvInit == Init => TOInv
<1> SUFFICES ASSUME Init
             PROVE  TOInv
  OBVIOUS
<1>1. DOMAIN schedule = {} /\ \A x : Writes(schedule, x) = {}
  BY DEF Init, Writes
<1>2. QED
  BY <1>1 DEF Init, TOInv, StampsUnique, StampsBound, StampOrder, ReadsFollowStamps

\* What the typed history looks like, one operation at a time.
LEMMA HistoryTypes ==
    ASSUME TypeOK
    PROVE  /\ \A i \in DOMAIN schedule :
                /\ schedule[i] \in Operation(Incarnations, Item)
                /\ schedule[i].kind \in {"Read", "Write"}
                /\ schedule[i].item \in Item
                /\ Stamp(schedule[i]) \in Nat
           /\ \A op \in ignored : Stamp(op) \in Nat /\ op.item \in Item
<1>1. \A op \in Operation(Incarnations, Item) :
        /\ op.kind \in {"Read", "Write"} /\ op.item \in Item
        /\ op.txn[2] \in Nat
  BY DEF Operation, Incarnations
<1>2. \A i \in DOMAIN schedule : schedule[i] \in Operation(Incarnations, Item)
  BY DEF TypeOK
<1>3. QED
  BY <1>1, <1>2 DEF TypeOK, Stamp

\* The history after one more operation.
LEMMA Appended ==
    ASSUME TypeOK, NEW op, schedule' = Append(schedule, op)
    PROVE  /\ DOMAIN schedule' = DOMAIN schedule \union {Len(schedule) + 1}
           /\ \A i \in DOMAIN schedule :
                schedule'[i] = schedule[i] /\ i < Len(schedule) + 1
           /\ schedule'[Len(schedule) + 1] = op
           /\ Len(schedule) + 1 \notin DOMAIN schedule
           /\ DOMAIN schedule \subseteq Nat
  BY DEF TypeOK

LEMMA BeginStep ==
    ASSUME TypeOK, TOInv, NEW t \in Txn, begin(t)
    PROVE  TOInv'
<1>1. /\ UNCHANGED <<read_ts, write_ts, schedule, ignored>>
      /\ next_ts' = next_ts + 1 /\ next_ts \in Nat /\ next_ts >= 1
      /\ timestamps'[t] = next_ts
      /\ \A u \in Txn \ {t} : timestamps'[u] = timestamps[u]
      /\ timestamps \in [Txn -> Nat]
      /\ read_ts \in [Item -> Nat] /\ write_ts \in [Item -> Nat]
  BY DEF begin, TypeOK, TOInv, StampsUnique
<1>2. \A i \in DOMAIN schedule : Stamp(schedule[i]) \in Nat
  BY HistoryTypes
<1>3. StampsUnique'
  BY <1>1, <1>2 DEF TOInv, StampsUnique, Stamp
<1>4. StampsBound'
  BY <1>1 DEF TOInv, StampsBound, Stamp, Writes
<1>5. StampOrder' /\ ReadsFollowStamps'
  BY <1>1 DEF TOInv, StampOrder, ReadsFollowStamps, Stamp, Writes, AcceptedWrites
<1>6. QED
  BY <1>3, <1>4, <1>5 DEF TOInv

\* The uniqueness of stamps survives any accepted operation.
LEMMA UniqueStep ==
    ASSUME TypeOK, TOInv, NEW t \in Txn, NEW op, op.txn = Incarnation(t),
           UNCHANGED <<timestamps, next_ts>>,
           schedule' = Append(schedule, op)
    PROVE  StampsUnique'
<1>1. /\ Stamp(op) = timestamps[t] /\ op.txn[1] = t /\ timestamps[t] < next_ts
  BY DEF Stamp, Incarnation, TOInv, StampsUnique
<1>2. \A i \in DOMAIN schedule :
        schedule[i].txn = <<schedule[i].txn[1], Stamp(schedule[i])>>
  BY HistoryTypes DEF Operation, Incarnations, Stamp
<1>3. \A i \in DOMAIN schedule' :
        \/ i \in DOMAIN schedule /\ schedule'[i] = schedule[i]
        \/ schedule'[i] = op
  BY Appended
<1>4. \A i \in DOMAIN schedule :
        Stamp(schedule[i]) = Stamp(op) /\ Stamp(op) # 0 => schedule[i].txn = op.txn
  BY <1>1, <1>2 DEF TOInv, StampsUnique, Incarnation
<1>5. QED
  BY <1>1, <1>3, <1>4 DEF TOInv, StampsUnique, Stamp

LEMMA ReadStep ==
    ASSUME TypeOK, TOInv, NEW t \in Txn, NEW x \in Item, read(t, x)
    PROVE  TOInv'
<1> DEFINE op == ReadOp(Incarnation(t), x)
           n == Len(schedule) + 1
<1>1. /\ UNCHANGED <<timestamps, write_ts, next_ts, ignored>>
      /\ schedule' = Append(schedule, op)
      /\ timestamps[t] >= write_ts[x]
  BY DEF read, CanRead
<1>2. /\ op.kind = "Read" /\ op.item = x /\ Stamp(op) = timestamps[t]
      /\ op.txn = Incarnation(t)
  BY DEF ReadOp, Stamp, Incarnation
<1>3. /\ DOMAIN schedule' = DOMAIN schedule \union {n}
      /\ \A i \in DOMAIN schedule : schedule'[i] = schedule[i] /\ i < n
      /\ schedule'[n] = op
      /\ n \notin DOMAIN schedule /\ DOMAIN schedule \subseteq Nat /\ n \in Nat
  BY <1>1, Appended DEF TypeOK
<1>4. /\ read_ts \in [Item -> Nat] /\ write_ts \in [Item -> Nat]
      /\ timestamps \in [Txn -> Nat] /\ next_ts \in Nat
      /\ timestamps[t] < next_ts
  BY DEF TypeOK, TOInv, StampsUnique
<1>5. /\ \A y \in Item : read_ts'[y] =
             IF y = x THEN Later(read_ts[x], timestamps[t]) ELSE read_ts[y]
      /\ \A y \in Item : read_ts'[y] >= read_ts[y] /\ read_ts'[y] < next_ts
      /\ read_ts'[x] >= timestamps[t]
  <2>1. \A y \in Item : read_ts'[y] =
          IF y = x THEN Later(read_ts[x], timestamps[t]) ELSE read_ts[y]
    BY <1>4 DEF read
  <2>2. QED BY <1>4, <2>1 DEF Later, TOInv, StampsBound
<1>6. /\ \A i \in DOMAIN schedule :
           /\ schedule[i].kind \in {"Read", "Write"}
           /\ schedule[i].item \in Item /\ Stamp(schedule[i]) \in Nat
      /\ \A w \in ignored : Stamp(w) \in Nat /\ w.item \in Item
  BY HistoryTypes
<1> HIDE DEF op, n
<1>7. \A y : Writes(schedule', y) = Writes(schedule, y)
  BY <1>2, <1>3 DEF Writes
<1>8. \A y : \A i \in Writes(schedule, y) :
        i \in DOMAIN schedule /\ schedule'[i] = schedule[i] /\ schedule[i].item = y
          /\ schedule[i].kind = "Write"
  BY <1>3 DEF Writes
<1>9. StampsUnique'
  BY <1>1, <1>2, UniqueStep
<1>10. StampsBound'
  <2>1. \A y \in Item : read_ts'[y] < next_ts' /\ write_ts'[y] < next_ts'
    BY <1>1, <1>5 DEF TOInv, StampsBound
  <2>2. ASSUME NEW i \in DOMAIN schedule'
        PROVE  IF schedule'[i].kind = "Read"
               THEN Stamp(schedule'[i]) <= read_ts'[schedule'[i].item]
               ELSE Stamp(schedule'[i]) <= write_ts'[schedule'[i].item]
    <3>1. CASE i = n
      BY <1>2, <1>3, <1>4, <1>5, <3>1
    <3>2. CASE i \in DOMAIN schedule
      <4>1. schedule'[i] = schedule[i]
        BY <1>3, <3>2
      <4>2. IF schedule[i].kind = "Read"
            THEN Stamp(schedule[i]) <= read_ts[schedule[i].item]
            ELSE Stamp(schedule[i]) <= write_ts[schedule[i].item]
        BY <3>2 DEF TOInv, StampsBound
      <4>3. /\ read_ts[schedule[i].item] \in Nat
            /\ read_ts'[schedule[i].item] \in Nat
            /\ read_ts'[schedule[i].item] >= read_ts[schedule[i].item]
        BY <1>4, <1>5, <1>6, <3>2, TOTypeStep DEF Later
      <4>4. QED BY <1>1, <1>6, <3>2, <4>1, <4>2, <4>3
    <3>3. QED BY <1>3, <3>1, <3>2
  <2>3. \A w \in ignored' : w.kind = "Write" /\ Stamp(w) < write_ts'[w.item]
    BY <1>1 DEF TOInv, StampsBound
  <2>4. \A y \in Item : write_ts'[y] # 0 \/ Writes(schedule', y) # {} =>
          \E q \in Writes(schedule', y) :
            /\ Stamp(schedule'[q]) = write_ts'[y]
            /\ \A i \in Writes(schedule', y) : i <= q
    BY <1>1, <1>7, <1>8 DEF TOInv, StampsBound
  <2>5. QED BY <2>1, <2>2, <2>3, <2>4 DEF StampsBound, Stamp
<1>11. StampOrder'
  <2>1. ASSUME NEW i \in DOMAIN schedule, conflicts(schedule[i], op)
        PROVE  Stamp(schedule[i]) <= Stamp(op)
    <3>1. schedule[i].kind = "Write" /\ schedule[i].item = x
      BY <1>2, <1>6, <2>1 DEF conflicts
    <3>2. Stamp(schedule[i]) <= write_ts[x]
      BY <3>1 DEF TOInv, StampsBound
    <3>3. QED BY <1>1, <1>2, <1>4, <1>6, <3>2
  <2>2. QED
    BY <1>3, <2>1 DEF TOInv, StampOrder, Stamp
<1>12. ReadsFollowStamps'
  <2> DEFINE A(y) == AcceptedWrites(schedule, ignored, y)
  <2>1. \A y \in Item : AcceptedWrites(schedule', ignored', y) = A(y)
    BY <1>1, <1>7, <1>8 DEF AcceptedWrites
  <2>2. ASSUME NEW q \in Writes(schedule, x)
        PROVE  Stamp(schedule[q]) <= Stamp(op) /\ q < n
    BY <1>1, <1>2, <1>3, <1>4, <1>6, <1>8 DEF TOInv, StampsBound
  <2>3. ASSUME NEW w \in A(x), w < Stamp(op)
        PROVE  \E q \in Writes(schedule, x) : w <= Stamp(schedule[q])
    <3>1. CASE \E q \in Writes(schedule, x) : w = Stamp(schedule[q])
      BY <1>6, <1>8, <3>1
    <3>2. CASE \E v \in ignored : v.item = x /\ w = Stamp(v)
      <4>1. w < write_ts[x] /\ w \in Nat
        BY <1>6, <3>2 DEF TOInv, StampsBound
      <4>2. PICK q \in Writes(schedule, x) : Stamp(schedule[q]) = write_ts[x]
        BY <1>4, <4>1 DEF TOInv, StampsBound
      <4>3. QED BY <1>4, <4>1, <4>2
    <3>3. QED BY <2>3, <3>1, <3>2 DEF AcceptedWrites
  <2> HIDE DEF A
  <2>4. ASSUME NEW p \in DOMAIN schedule', schedule'[p].kind = "Read"
        PROVE  LET y == schedule'[p].item
                   seen == {q \in Writes(schedule', y) : q < p}
               IN /\ \A q \in seen : Stamp(schedule'[q]) <= Stamp(schedule'[p])
                  /\ \A w \in AcceptedWrites(schedule', ignored', y) :
                       w < Stamp(schedule'[p]) =>
                         \E q \in seen : w <= Stamp(schedule'[q])
    <3>1. CASE p = n
      <4>1. schedule'[p] = op /\ op.item = x
        BY <1>2, <1>3, <3>1
      <4>2. \A q : q \in Writes(schedule', x) /\ q < p <=> q \in Writes(schedule, x)
        BY <1>7, <2>2, <3>1
      <4>3. \A q \in Writes(schedule, x) : schedule'[q] = schedule[q]
        BY <1>8
      <4>4. AcceptedWrites(schedule', ignored', x) = A(x)
        BY <2>1
      <4>5. QED BY <2>2, <2>3, <4>1, <4>2, <4>3, <4>4
    <3>2. CASE p \in DOMAIN schedule
      <4> DEFINE y == schedule[p].item
      <4>1. schedule'[p] = schedule[p] /\ y \in Item
        BY <1>3, <1>6, <3>2
      <4>2. /\ Writes(schedule', y) = Writes(schedule, y)
            /\ \A q \in Writes(schedule, y) : schedule'[q] = schedule[q]
            /\ AcceptedWrites(schedule', ignored', y) = A(y)
        BY <1>7, <1>8, <2>1, <4>1
      <4>3. /\ \A q \in Writes(schedule, y) :
                 q < p => Stamp(schedule[q]) <= Stamp(schedule[p])
            /\ \A w \in A(y) : w < Stamp(schedule[p]) =>
                 \E q \in Writes(schedule, y) : q < p /\ w <= Stamp(schedule[q])
        BY <2>4, <3>2, <4>1 DEF TOInv, ReadsFollowStamps, A
      <4> HIDE DEF y
      <4>4. QED BY <4>1, <4>2, <4>3 DEF y
    <3>3. QED BY <1>3, <3>1, <3>2
  <2>5. QED BY <2>4 DEF ReadsFollowStamps
<1>13. QED
  BY <1>9, <1>10, <1>11, <1>12 DEF TOInv

LEMMA WriteStep ==
    ASSUME TypeOK, TOInv, NEW t \in Txn, NEW x \in Item, write(t, x)
    PROVE  TOInv'
<1> DEFINE op == WriteOp(Incarnation(t), x)
           n == Len(schedule) + 1
<1>1. /\ UNCHANGED <<timestamps, read_ts, next_ts, ignored>>
      /\ schedule' = Append(schedule, op)
  BY DEF write
<1>2. /\ op.kind = "Write" /\ op.item = x /\ Stamp(op) = timestamps[t]
      /\ op.txn = Incarnation(t)
  BY DEF WriteOp, Stamp, Incarnation
<1>3. /\ DOMAIN schedule' = DOMAIN schedule \union {n}
      /\ \A i \in DOMAIN schedule : schedule'[i] = schedule[i] /\ i < n
      /\ schedule'[n] = op
      /\ n \notin DOMAIN schedule /\ DOMAIN schedule \subseteq Nat /\ n \in Nat
  BY <1>1, Appended DEF TypeOK
<1>4. /\ read_ts \in [Item -> Nat] /\ write_ts \in [Item -> Nat]
      /\ timestamps \in [Txn -> Nat] /\ next_ts \in Nat
      /\ timestamps[t] < next_ts
  BY DEF TypeOK, TOInv, StampsUnique
<1>5. /\ timestamps[t] >= read_ts[x] /\ timestamps[t] >= write_ts[x]
      /\ write_ts'[x] = timestamps[t]
      /\ \A y \in Item : y # x => write_ts'[y] = write_ts[y]
      /\ \A y \in Item : write_ts'[y] \in Nat
           /\ write_ts'[y] >= write_ts[y] /\ write_ts'[y] < next_ts
  <2>1. /\ timestamps[t] >= read_ts[x] /\ timestamps[t] >= write_ts[x]
        /\ write_ts'[x] = timestamps[t]
        /\ \A y \in Item : y # x => write_ts'[y] = write_ts[y]
    BY <1>4 DEF write, CanWrite, Obsolete
  <2>2. QED BY <1>4, <2>1 DEF TOInv, StampsBound
<1>6. /\ \A i \in DOMAIN schedule :
           /\ schedule[i].kind \in {"Read", "Write"}
           /\ schedule[i].item \in Item /\ Stamp(schedule[i]) \in Nat
      /\ \A w \in ignored : Stamp(w) \in Nat /\ w.item \in Item
  BY HistoryTypes
<1> HIDE DEF op, n
<1>7. /\ Writes(schedule', x) = Writes(schedule, x) \union {n}
      /\ \A y : y # x => Writes(schedule', y) = Writes(schedule, y)
  BY <1>2, <1>3 DEF Writes
<1>8. \A y : \A i \in Writes(schedule, y) :
        i \in DOMAIN schedule /\ schedule'[i] = schedule[i] /\ schedule[i].item = y
          /\ schedule[i].kind = "Write" /\ i < n
  BY <1>3 DEF Writes
<1>9. StampsUnique'
  BY <1>1, <1>2, UniqueStep
<1>10. StampsBound'
  <2>1. \A y \in Item : read_ts'[y] < next_ts' /\ write_ts'[y] < next_ts'
    BY <1>1, <1>5 DEF TOInv, StampsBound
  <2>2. ASSUME NEW i \in DOMAIN schedule'
        PROVE  IF schedule'[i].kind = "Read"
               THEN Stamp(schedule'[i]) <= read_ts'[schedule'[i].item]
               ELSE Stamp(schedule'[i]) <= write_ts'[schedule'[i].item]
    <3>1. CASE i = n
      BY <1>2, <1>3, <1>4, <1>5, <3>1
    <3>2. CASE i \in DOMAIN schedule
      <4>1. schedule'[i] = schedule[i]
        BY <1>3, <3>2
      <4>2. IF schedule[i].kind = "Read"
            THEN Stamp(schedule[i]) <= read_ts[schedule[i].item]
            ELSE Stamp(schedule[i]) <= write_ts[schedule[i].item]
        BY <3>2 DEF TOInv, StampsBound
      <4>3. /\ write_ts[schedule[i].item] \in Nat
            /\ write_ts'[schedule[i].item] \in Nat
            /\ write_ts'[schedule[i].item] >= write_ts[schedule[i].item]
        BY <1>4, <1>5, <1>6, <3>2
      <4>4. QED BY <1>1, <1>6, <3>2, <4>1, <4>2, <4>3
    <3>3. QED BY <1>3, <3>1, <3>2
  <2>3. ASSUME NEW w \in ignored'
        PROVE  w.kind = "Write" /\ Stamp(w) < write_ts'[w.item]
    <3>1. /\ w.kind = "Write" /\ Stamp(w) < write_ts[w.item]
          /\ w.item \in Item /\ Stamp(w) \in Nat
      BY <1>1, <1>6, <2>3 DEF TOInv, StampsBound
    <3>2. QED BY <1>4, <1>5, <3>1
  <2>4. ASSUME NEW y \in Item, write_ts'[y] # 0 \/ Writes(schedule', y) # {}
        PROVE  \E q \in Writes(schedule', y) :
                 /\ Stamp(schedule'[q]) = write_ts'[y]
                 /\ \A i \in Writes(schedule', y) : i <= q
    <3>1. CASE y = x
      <4>1. /\ n \in Writes(schedule', x)
            /\ Stamp(schedule'[n]) = write_ts'[x]
        BY <1>2, <1>3, <1>5, <1>7
      <4>2. \A i \in Writes(schedule', x) : i <= n
        BY <1>3, <1>7, <1>8
      <4>3. QED BY <3>1, <4>1, <4>2
    <3>2. CASE y # x
      BY <1>5, <1>7, <1>8, <2>4, <3>2 DEF TOInv, StampsBound
    <3>3. QED BY <3>1, <3>2
  <2>5. QED BY <2>1, <2>2, <2>3, <2>4 DEF StampsBound, Stamp
<1>11. StampOrder'
  <2>1. ASSUME NEW i \in DOMAIN schedule, conflicts(schedule[i], op)
        PROVE  Stamp(schedule[i]) <= Stamp(op)
    <3>1. schedule[i].item = x
      BY <1>2, <2>1 DEF conflicts
    <3>2. Stamp(schedule[i]) <= read_ts[x] \/ Stamp(schedule[i]) <= write_ts[x]
      BY <1>6, <3>1 DEF TOInv, StampsBound
    <3>3. QED BY <1>2, <1>4, <1>5, <1>6, <3>2
  <2>2. QED
    BY <1>3, <2>1 DEF TOInv, StampOrder, Stamp
<1>12. ReadsFollowStamps'
  <2> DEFINE A(y) == AcceptedWrites(schedule, ignored, y)
  <2>1. \A y \in Item : \A w \in AcceptedWrites(schedule', ignored', y) :
          w \in A(y) \/ (y = x /\ w = timestamps[t])
    BY <1>1, <1>2, <1>3, <1>7, <1>8 DEF AcceptedWrites
  <2> HIDE DEF A
  <2>2. ASSUME NEW p \in DOMAIN schedule', schedule'[p].kind = "Read"
        PROVE  LET y == schedule'[p].item
                   seen == {q \in Writes(schedule', y) : q < p}
               IN /\ \A q \in seen : Stamp(schedule'[q]) <= Stamp(schedule'[p])
                  /\ \A w \in AcceptedWrites(schedule', ignored', y) :
                       w < Stamp(schedule'[p]) =>
                         \E q \in seen : w <= Stamp(schedule'[q])
    <3> DEFINE y == schedule[p].item
    <3>1. /\ p \in DOMAIN schedule /\ p # n /\ p < n /\ p \in Nat
          /\ schedule'[p] = schedule[p] /\ y \in Item
      BY <1>2, <1>3, <1>6, <2>2
    <3>2. \A q : q \in Writes(schedule', y) /\ q < p
                   <=> q \in Writes(schedule, y) /\ q < p
      BY <1>3, <1>7, <3>1
    <3>3. \A q \in Writes(schedule, y) : schedule'[q] = schedule[q]
      BY <1>8
    <3>4. /\ \A q \in Writes(schedule, y) :
               q < p => Stamp(schedule[q]) <= Stamp(schedule[p])
          /\ \A w \in A(y) : w < Stamp(schedule[p]) =>
               \E q \in Writes(schedule, y) : q < p /\ w <= Stamp(schedule[q])
      BY <2>2, <3>1 DEF TOInv, ReadsFollowStamps, A
    \* The new write is not older than any read of its item.
    <3>5. y = x => ~ (timestamps[t] < Stamp(schedule[p]))
      <4>1. schedule[p].kind = "Read"
        BY <2>2, <3>1
      <4>2. Stamp(schedule[p]) <= read_ts[y] /\ Stamp(schedule[p]) \in Nat
        BY <1>6, <3>1, <4>1 DEF TOInv, StampsBound
      <4>3. QED BY <1>4, <1>5, <4>2
    <3> HIDE DEF y
    <3>6. QED BY <2>1, <3>1, <3>2, <3>3, <3>4, <3>5 DEF y
  <2>3. QED BY <2>2 DEF ReadsFollowStamps
<1>13. QED
  BY <1>9, <1>10, <1>11, <1>12 DEF TOInv

LEMMA IgnoredStep ==
    ASSUME TypeOK, TOInv, NEW t \in Txn, NEW x \in Item, writeIgnored(t, x)
    PROVE  TOInv'
<1> DEFINE op == WriteOp(Incarnation(t), x)
<1>1. /\ UNCHANGED <<timestamps, read_ts, write_ts, next_ts, schedule>>
      /\ ignored' = ignored \union {op}
      /\ timestamps[t] >= read_ts[x] /\ timestamps[t] < write_ts[x]
  BY DEF writeIgnored, CanWrite, Obsolete, toVars
<1>2. /\ op.kind = "Write" /\ op.item = x /\ Stamp(op) = timestamps[t]
  BY DEF WriteOp, Stamp, Incarnation
<1>3. /\ read_ts \in [Item -> Nat] /\ timestamps \in [Txn -> Nat]
      /\ \A i \in DOMAIN schedule :
           schedule[i].item \in Item /\ Stamp(schedule[i]) \in Nat
  BY HistoryTypes DEF TypeOK
<1> HIDE DEF op
<1>4. StampsUnique' /\ StampOrder'
  BY <1>1 DEF TOInv, StampsUnique, StampOrder, Stamp
<1>5. StampsBound'
  BY <1>1, <1>2 DEF TOInv, StampsBound, Stamp
<1>6. ReadsFollowStamps'
  <2>1. \A y \in Item : \A w \in AcceptedWrites(schedule, ignored', y) :
          \/ w \in AcceptedWrites(schedule, ignored, y)
          \/ y = x /\ w = timestamps[t]
    BY <1>1, <1>2 DEF AcceptedWrites
  <2>2. ASSUME NEW p \in DOMAIN schedule, schedule[p].kind = "Read"
        PROVE  schedule[p].item = x => ~ (timestamps[t] < Stamp(schedule[p]))
    <3>1. Stamp(schedule[p]) <= read_ts[schedule[p].item]
      BY <2>2 DEF TOInv, StampsBound
    <3>2. QED BY <1>1, <1>3, <3>1
  <2> DEFINE Ordered(p, y, W) ==
               LET seen == {q \in Writes(schedule, y) : q < p}
               IN /\ \A q \in seen : Stamp(schedule[q]) <= Stamp(schedule[p])
                  /\ \A w \in W : w < Stamp(schedule[p]) =>
                       \E q \in seen : w <= Stamp(schedule[q])
  <2>3. ASSUME NEW p \in DOMAIN schedule, schedule[p].kind = "Read"
        PROVE  Ordered(p, schedule[p].item,
                       AcceptedWrites(schedule, ignored', schedule[p].item))
    <3>1. Ordered(p, schedule[p].item,
                  AcceptedWrites(schedule, ignored, schedule[p].item))
      BY <2>3 DEF TOInv, ReadsFollowStamps
    <3>2. \A w \in AcceptedWrites(schedule, ignored', schedule[p].item) :
            \/ w \in AcceptedWrites(schedule, ignored, schedule[p].item)
            \/ ~ (w < Stamp(schedule[p]))
      BY <1>3, <2>1, <2>2, <2>3
    <3>3. QED BY <3>1, <3>2
  <2>4. QED
    BY <1>1, <2>3 DEF ReadsFollowStamps
<1>7. QED
  BY <1>4, <1>5, <1>6 DEF TOInv

LEMMA TOInvStep ==
    ASSUME TypeOK, TOInv, [Next]_vars
    PROVE  TOInv'
<1>1. CASE UNCHANGED vars
  BY <1>1 DEF vars, toVars, TOInv, StampsUnique, StampsBound, StampOrder,
     ReadsFollowStamps
<1>2. QED
  BY <1>1, BeginStep, ReadStep, WriteStep, IgnoredStep DEF Next, Rejected

LEMMA TOInvariant == Spec => [](TypeOK /\ TOInv)
<1>1. Init => TypeOK
  BY DEF Init, TypeOK
<1>2. QED
  BY <1>1, TOInvInit, TOTypeStep, TOInvStep, PTL DEF Spec

\* Operations that take effect are conflict serializable.
THEOREM TimestampsSerialize == Spec => []Serializable
<1>1. ASSUME TypeOK, TOInv
      PROVE  Serializable
  <2> DEFINE nodes == Registered(schedule)
             rank == [m \in nodes |-> m[2]]
  <2>1. \A m \in nodes : m[2] \in Nat /\ m[2] # 0
    BY <1>1, HistoryTypes DEF Registered, transactions, Stamp
  <2>2. ASSUME NEW a \in nodes, NEW b \in nodes,
               <<a, b>> \in precedence_graph(schedule)
        PROVE  a[2] < b[2]
    <3>1. PICK i \in DOMAIN schedule, j \in DOMAIN schedule :
            /\ i < j /\ conflicts(schedule[i], schedule[j])
            /\ a = schedule[i].txn /\ b = schedule[j].txn
      BY <2>2 DEF precedence_graph, ConflictingPairs
    <3>2. a # b /\ a[2] <= b[2]
      BY <1>1, <3>1 DEF TOInv, StampOrder, conflicts, Stamp
    <3>3. a[2] = b[2] => a = b
      BY <1>1, <2>1, <3>1 DEF TOInv, StampsUnique, Stamp
    <3>4. QED BY <2>1, <3>2, <3>3
  <2>3. rank \in [nodes -> Nat]
    BY <2>1
  <2>4. \A a, b \in nodes :
          <<a, b>> \in precedence_graph(schedule) => rank[a] < rank[b]
    BY <2>2
  <2> HIDE DEF nodes, rank
  <2>5. IsAcyclic(nodes, precedence_graph(schedule))
    BY <2>3, <2>4, RankedAcyclic
  <2>6. QED BY <2>5 DEF Serializable, nodes
<1>2. QED BY <1>1, TOInvariant, PTL

\* Every read sees the write that the order of the stamps gives it.
THEOREM ReadsAlwaysFollowStamps == Spec => []ReadsFollowStamps
<1>1. TOInv => ReadsFollowStamps
  BY DEF TOInv
<1>2. QED BY <1>1, TOInvariant, PTL

\* An item is left with the write of the youngest accepted writer.
THEOREM LastWriteAlwaysYoungest == Spec => []LastWriteIsYoungest
<1>1. ASSUME TypeOK, TOInv
      PROVE  LastWriteIsYoungest
  <2>1. ASSUME NEW x \in Item, NEW w \in AcceptedWrites(schedule, ignored, x)
        PROVE  \E q \in Writes(schedule, x) :
                 /\ \A i \in Writes(schedule, x) : i <= q
                 /\ w <= Stamp(schedule[q])
    <3>1. /\ w \in Nat /\ w <= write_ts[x] /\ write_ts[x] \in Nat
          /\ write_ts[x] # 0 \/ Writes(schedule, x) # {}
      <4>0. write_ts[x] \in Nat
        BY <1>1 DEF TypeOK
      <4>1. CASE \E i \in Writes(schedule, x) : w = Stamp(schedule[i])
        BY <1>1, <4>0, <4>1, HistoryTypes DEF TOInv, StampsBound, Writes
      <4>2. CASE \E v \in ignored : v.item = x /\ w = Stamp(v)
        BY <1>1, <4>0, <4>2, HistoryTypes DEF TOInv, StampsBound
      <4>3. QED BY <2>1, <4>1, <4>2, <4>0 DEF AcceptedWrites
    <3>2. PICK q \in Writes(schedule, x) :
            /\ Stamp(schedule[q]) = write_ts[x]
            /\ \A i \in Writes(schedule, x) : i <= q
      BY <1>1, <3>1 DEF TOInv, StampsBound
    <3>3. QED BY <3>1, <3>2
  <2>2. QED BY <2>1 DEF LastWriteIsYoungest
<1>2. QED BY <1>1, TOInvariant, PTL

\* The transaction with the latest stamp is never told it is too late.
THEOREM YoungestNeverTooLate == Spec => []YoungestNeverRejected
<1>1. ASSUME TypeOK, TOInv
      PROVE  YoungestNeverRejected
  <2>1. /\ read_ts \in [Item -> Nat] /\ write_ts \in [Item -> Nat]
        /\ next_ts \in Nat /\ timestamps \in [Txn -> Nat]
    BY <1>1 DEF TypeOK
  <2>2. QED
    BY <1>1, <2>1 DEF TOInv, StampsBound, YoungestNeverRejected, CanRead, CanWrite
<1>2. QED BY <1>1, TOInvariant, PTL
=============================================================================
