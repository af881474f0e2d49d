-------------------------- MODULE TimestampOrdering --------------------------
(***************************************************************************)
(* struct TimestampOrdering of concurrency.rs: transactions are stamped    *)
(* when they begin, and a read or write that comes too late for its stamp  *)
(* is refused; an obsolete write is accepted and ignored (the Thomas write *)
(* rule).                                                                  *)
(*                                                                         *)
(* The callers are free: they begin, begin again (which re-stamps them),   *)
(* or never begin at all (the code then gives them stamp 0).  The history  *)
(* variables record what was accepted, each operation under the            *)
(* incarnation <<transaction, stamp>> that performed it.                   *)
(***************************************************************************)
EXTENDS Schedules

CONSTANTS Txn, Item,
          MaxTs,      \* bound on the stamps handed out
          MaxOps      \* bound on the operations accepted

ASSUME BoundsAssumption == MaxTs \in Nat /\ MaxOps \in Nat

VARIABLES timestamps,  \* timestamps[t], 0 if t never began
          read_ts,     \* read_ts[x]: the latest stamp that read x, or 0
          write_ts,    \* write_ts[x]: the stamp that wrote x, or 0
          next_ts,
          schedule,    \* history: the reads and writes that took effect
          ignored      \* history: the writes accepted but ignored

toVars == <<timestamps, read_ts, write_ts, next_ts>>
vars == <<toVars, schedule, ignored>>

Init ==
    /\ timestamps = [t \in Txn |-> 0]
    /\ read_ts = [x \in Item |-> 0]
    /\ write_ts = [x \in Item |-> 0]
    /\ next_ts = 1
    /\ schedule = <<>>
    /\ ignored = {}

\* The incarnation in which t acts now.
Incarnation(t) == <<t, timestamps[t]>>

\* Mutant: the counter runs down.
beginDown(t) ==
    /\ next_ts <= MaxTs
    /\ next_ts' = next_ts - 1
    /\ timestamps' = [timestamps EXCEPT ![t] = next_ts]
    /\ UNCHANGED <<read_ts, write_ts, schedule, ignored>>

begin(t) ==
    /\ next_ts <= MaxTs
    /\ next_ts' = next_ts + 1
    /\ timestamps' = [timestamps EXCEPT ![t] = next_ts]
    /\ UNCHANGED <<read_ts, write_ts, schedule, ignored>>

\* Mutant: a read is compared with the reads.
CanReadAfterReads(ts, x) == ts >= read_ts[x]

CanRead(ts, x) == ts >= write_ts[x]

\* Mutant: one too much.
LaterPlusOne(a, b) == IF a < b THEN b + 1 ELSE a

Later(a, b) == IF a < b THEN b ELSE a

read(t, x) ==
    /\ CanRead(timestamps[t], x)
    /\ read_ts' = [read_ts EXCEPT ![x] = Later(@, timestamps[t])]
    /\ Len(schedule) < MaxOps
    /\ schedule' = Append(schedule, ReadOp(Incarnation(t), x))
    /\ UNCHANGED <<timestamps, write_ts, next_ts, ignored>>

\* Mutant: a write is compared with the writes.
CanWriteAfterWrites(ts, x) == ts >= write_ts[x]

CanWrite(ts, x) == ts >= read_ts[x]

\* Mutant: no Thomas write rule, and no rejection in its place.
NeverObsolete(ts, x) == FALSE

Obsolete(ts, x) == ts < write_ts[x]

write(t, x) ==
    /\ CanWrite(timestamps[t], x)
    /\ ~ Obsolete(timestamps[t], x)
    /\ write_ts' = [write_ts EXCEPT ![x] = timestamps[t]]
    /\ Len(schedule) < MaxOps
    /\ schedule' = Append(schedule, WriteOp(Incarnation(t), x))
    /\ UNCHANGED <<timestamps, read_ts, next_ts, ignored>>

\* The Thomas write rule: Ok to the caller, nothing written.
writeIgnored(t, x) ==
    /\ CanWrite(timestamps[t], x)
    /\ Obsolete(timestamps[t], x)
    /\ ignored' = ignored \union {WriteOp(Incarnation(t), x)}
    /\ UNCHANGED <<toVars, schedule>>

\* Err: nothing changes, and nothing the transaction did before is undone.
Rejected(t, x) ==
    /\ ~ CanRead(timestamps[t], x) \/ ~ CanWrite(timestamps[t], x)
    /\ UNCHANGED vars

Next ==
    \E t \in Txn :
        \/ begin(t)
        \/ \E x \in Item : read(t, x)
        \/ \E x \in Item : write(t, x)
        \/ \E x \in Item : writeIgnored(t, x)
        \/ \E x \in Item : Rejected(t, x)

Spec == Init /\ [][Next]_vars

-----------------------------------------------------------------------------
Incarnations == Txn \X Nat

\* Types of the controller and the history.
TypeOK ==
    /\ timestamps \in [Txn -> Nat]
    /\ read_ts \in [Item -> Nat]
    /\ write_ts \in [Item -> Nat]
    /\ next_ts \in Nat
    /\ schedule \in Seq(Operation(Incarnations, Item))
    /\ ignored \subseteq Operation(Incarnations, Item)

Stamp(op) == op.txn[2]

\* Incarnations that began: stamp 0 is shared by all that did not, and the
\* controller cannot tell those apart.
Registered(ops) == {n \in transactions(ops) : n[2] # 0}

\* What took effect is conflict serializable as far as transactions that
\* began are concerned, whoever else calls in between; a transaction that
\* begins again counts as a new one.
Serializable == IsAcyclic(Registered(schedule), precedence_graph(schedule))

Writes(ops, x) ==
    {i \in DOMAIN ops : ops[i].kind = "Write" /\ ops[i].item = x}

\* The stamps of all writes of x answered Ok, ignored ones included.
AcceptedWrites(ops, thomas, x) ==
    {Stamp(ops[i]) : i \in Writes(ops, x)}
        \union {Stamp(op) : op \in {w \in thomas : w.item = x}}

\* Every read saw what the serial execution in stamp order would have shown
\* it: no write answered Ok before or after the read, ignored or not, belongs
\* between the write that the read saw and the read itself.
ReadsFollowStamps ==
    \A p \in DOMAIN schedule : schedule[p].kind = "Read" =>
        LET x == schedule[p].item
            seen == {q \in Writes(schedule, x) : q < p}
        IN /\ \A q \in seen : Stamp(schedule[q]) <= Stamp(schedule[p])
           /\ \A w \in AcceptedWrites(schedule, ignored, x) :
                w < Stamp(schedule[p]) =>
                    \E q \in seen : w <= Stamp(schedule[q])

\* The value an item is left with was written by the youngest transaction
\* that was told its write of that item succeeded.
LastWriteIsYoungest ==
    \A x \in Item : \A w \in AcceptedWrites(schedule, ignored, x) :
        \E q \in Writes(schedule, x) :
            /\ \A i \in Writes(schedule, x) : i <= q
            /\ w <= Stamp(schedule[q])

\* A transaction that begins again after a rejection is not rejected until a
\* younger one begins: nobody starves as long as it has the latest stamp.
YoungestNeverRejected ==
    \A t \in Txn : timestamps[t] # 0 /\ timestamps[t] = next_ts - 1 =>
        \A x \in Item : CanRead(timestamps[t], x) /\ CanWrite(timestamps[t], x)

-----------------------------------------------------------------------------
(* The inductive strengthening.                                            *)

\* Stamps are unique, and an incarnation belongs to one transaction.
StampsUnique ==
    /\ next_ts >= 1
    /\ \A t \in Txn : timestamps[t] < next_ts
    /\ \A t, u \in Txn : timestamps[t] = timestamps[u] /\ t # u => timestamps[t] = 0
    /\ \A i \in DOMAIN schedule : \A t \in Txn :
         /\ Stamp(schedule[i]) < next_ts
         /\ Stamp(schedule[i]) = timestamps[t] /\ timestamps[t] # 0 =>
              schedule[i].txn[1] = t
    /\ \A i, j \in DOMAIN schedule :
         Stamp(schedule[i]) = Stamp(schedule[j]) /\ Stamp(schedule[i]) # 0 =>
            schedule[i].txn = schedule[j].txn

\* read_ts and write_ts bound the stamps of the accepted operations, and the
\* last write of an item carries its write_ts.
StampsBound ==
    /\ \A x \in Item : read_ts[x] < next_ts /\ write_ts[x] < next_ts
    /\ \A i \in DOMAIN schedule :
         LET op == schedule[i]
         IN IF op.kind = "Read" THEN Stamp(op) <= read_ts[op.item]
                                ELSE Stamp(op) <= write_ts[op.item]
    /\ \A op \in ignored : op.kind = "Write" /\ Stamp(op) < write_ts[op.item]
    /\ \A x \in Item : write_ts[x] # 0 \/ Writes(schedule, x) # {} =>
         \E q \in Writes(schedule, x) :
            /\ Stamp(schedule[q]) = write_ts[x]
            /\ \A i \in Writes(schedule, x) : i <= q

\* Conflicting operations take effect in the order of their stamps.
StampOrder ==
    \A i, j \in DOMAIN schedule :
        i < j /\ conflicts(schedule[i], schedule[j]) =>
            Stamp(schedule[i]) <= Stamp(schedule[j])

TOInv == StampsUnique /\ StampsBound /\ StampOrder /\ ReadsFollowStamps
=============================================================================
