------------------------------ MODULE Schedules ------------------------------
(***************************************************************************)
(* Schedules of read and write operations (transactions.rs): which         *)
(* operations conflict, the precedence graph of a schedule, and conflict   *)
(* serializability.  Pure definitions, shared by the two concurrency       *)
(* controllers, whose schedules are judged by them, and by PrecedenceGraph,*)
(* which models how the code decides acyclicity.                           *)
(*                                                                         *)
(* A schedule is the sequence Schedule.operations of the code.             *)
(***************************************************************************)
EXTENDS Naturals, Sequences

\* The operations of transactions T on items I.
Operation(T, I) == [kind : {"Read", "Write"}, txn : T, item : I]

ReadOp(t, x)  == [kind |-> "Read",  txn |-> t, item |-> x]
WriteOp(t, x) == [kind |-> "Write", txn |-> t, item |-> x]

\* Two operations conflict when two transactions use one item and at least
\* one of them writes it.
conflicts(op1, op2) ==
    /\ op1.txn # op2.txn
    /\ op1.item = op2.item
    /\ ~ (op1.kind = "Read" /\ op2.kind = "Read")

transactions(ops) == {ops[i].txn : i \in DOMAIN ops}

\* The positions i < j of a schedule that hold conflicting operations.
ConflictingPairs(ops) ==
    {p \in (DOMAIN ops) \X (DOMAIN ops) :
        p[1] < p[2] /\ conflicts(ops[p[1]], ops[p[2]])}

\* The edges of Schedule::precedence_graph.
precedence_graph(ops) ==
    {<<ops[p[1]].txn, ops[p[2]].txn>> : p \in ConflictingPairs(ops)}

(***************************************************************************)
(* The reference notion of an acyclic graph, independent of how the code   *)
(* searches for a cycle: every non-empty set of nodes has one that no edge *)
(* enters from inside the set.                                             *)
(***************************************************************************)
IsAcyclic(nodes, edges) ==
    \A S \in SUBSET nodes :
        S # {} => \E m \in S : \A n \in S : <<n, m>> \notin edges

is_conflict_serializable(ops) ==
    IsAcyclic(transactions(ops), precedence_graph(ops))
=============================================================================
