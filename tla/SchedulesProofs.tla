--------------------------- MODULE SchedulesProofs ---------------------------
(***************************************************************************)
(* Lemmas about schedules and precedence graphs, used by the proofs of     *)
(* both concurrency controllers.                                           *)
(***************************************************************************)
EXTENDS Schedules, WellFoundedInduction, TLAPS

\* A non-empty set of naturals has a least element.
LEMMA LeastNat ==
    ASSUME NEW R, R \subseteq Nat, R # {}
    PROVE  \E m \in R : \A n \in R : m <= n
<1> DEFINE Below == {p \in Nat \X Nat : p[1] < p[2]}
<1>1. IsWellFoundedOn(Below, Nat)
  BY NatLessThanWellFounded DEF OpToRel
<1> HIDE DEF Below
<1>2. PICK m \in R : \A n \in R : <<n, m>> \notin Below
  BY <1>1, WFMin
<1>3. \A n \in R : ~ (n < m)
  BY <1>2 DEF Below
<1>4. QED BY <1>3

\* A graph whose edges all lead from a lower to a higher rank has no cycle.
LEMMA RankedAcyclic ==
    ASSUME NEW nodes, NEW edges, NEW rank \in [nodes -> Nat],
           \A a, b \in nodes : <<a, b>> \in edges => rank[a] < rank[b]
    PROVE  IsAcyclic(nodes, edges)
<1> SUFFICES ASSUME NEW S \in SUBSET nodes, S # {}
             PROVE  \E m \in S : \A n \in S : <<n, m>> \notin edges
  BY DEF IsAcyclic
<1> DEFINE R == {rank[n] : n \in S}
<1>1. R \subseteq Nat /\ R # {}
  OBVIOUS
<1> HIDE DEF R
<1>2. PICK k \in R : \A l \in R : k <= l
  BY <1>1, LeastNat
<1>3. PICK m \in S : rank[m] = k
  BY <1>2 DEF R
<1>4. \A n \in S : rank[n] \in R
  BY DEF R
<1>5. \A n \in S : ~ (rank[n] < rank[m])
  BY <1>2, <1>3, <1>4
<1>6. QED BY <1>5

\* If the transactions of a schedule can be ranked so that of two conflicting
\* operations the first belongs to the lower rank, the schedule is conflict
\* serializable.
LEMMA RankedSerializable ==
    ASSUME NEW ops, NEW rank \in [transactions(ops) -> Nat],
           \A i, j \in DOMAIN ops :
             i < j /\ conflicts(ops[i], ops[j]) =>
               rank[ops[i].txn] < rank[ops[j].txn]
    PROVE  is_conflict_serializable(ops)
<1>1. \A a, b \in transactions(ops) :
        <<a, b>> \in precedence_graph(ops) => rank[a] < rank[b]
  <2> SUFFICES ASSUME NEW a \in transactions(ops), NEW b \in transactions(ops),
                      <<a, b>> \in precedence_graph(ops)
               PROVE  rank[a] < rank[b]
    OBVIOUS
  <2>1. PICK i \in DOMAIN ops, j \in DOMAIN ops :
          i < j /\ conflicts(ops[i], ops[j]) /\ a = ops[i].txn /\ b = ops[j].txn
    BY DEF precedence_graph, ConflictingPairs
  <2>2. QED BY <2>1
<1>2. QED
  BY <1>1, RankedAcyclic DEF is_conflict_serializable
=============================================================================
