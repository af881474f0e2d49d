------------------------------ MODULE MCQueries ------------------------------
(***************************************************************************)
(* The relational algebra, the agent store built on it and the join-order  *)
(* optimizer.  A session uses one of them, so that the states of the three *)
(* add up.                                                                 *)
(***************************************************************************)
EXTENDS RelationSessions, QueryOptimizer, AgentStateStore

Rows(schema, rows) ==
    Relation(schema, [i \in DOMAIN rows |->
        [j \in DOMAIN rows[i] |-> IF rows[i][j] = 0 THEN NaN ELSE VInt(rows[i][j])]])

\* Here 0 stands for a float that is not a number.
Tables ==
    {Rows(<<"a", "b">>, <<<<1, 1>>, <<1, 2>>, <<2, 0>>>>),
     Rows(<<"a", "b">>, <<<<2, 0>>, <<3, 1>>, <<1, 2>>>>),
     Rows(<<"b", "c">>, <<<<1, 3>>, <<2, 3>>, <<0, 1>>>>),
     Rows(<<"c">>, <<<<3>>, <<1>>>>)}

Compared == {VInt(2), NaN}

Stat(tuples, pages) == [num_tuples |-> tuples, num_pages |-> pages]

SomeStats == {Stat(0, 0), Stat(3, 1), Stat(10, 1), Stat(100, 5)}

\* No relation, three, four, and one joined with itself.
SomeQueries == {<<>>, <<"r", "s", "t">>, <<"r", "s", "t", "u">>, <<"r", "r", "s">>}

\* "az" and "bY" have one hash at every width; the hash of "ime" is the least
\* word of 16 bits.
SomeAgents == {<<97, 122>>, <<98, 89>>, <<105, 109, 101>>}

SomeBytes == {<<>>, <<255>>, <<0, 1>>, <<254, 0, 129, 64>>}

MCInit == SessionInit /\ OptInit /\ StoreInit

\* The algebra is not in use; the base that it starts with says nothing.
AlgebraFresh == ops = 0 /\ rel.schema = <<"c">>

OptimizerFresh == phase = "idle" /\ relations = <<>>

AlgebraStep == OptimizerFresh /\ len = 0 /\ SessionNext /\ UNCHANGED <<optVars, storeVars>>

OptimizerStep == AlgebraFresh /\ len = 0 /\ OptNext /\ UNCHANGED <<sessionVars, storeVars>>

StoreStep == AlgebraFresh /\ OptimizerFresh /\ StoreNext /\ UNCHANGED <<sessionVars, optVars>>

MCNext == AlgebraStep \/ OptimizerStep \/ StoreStep

MCSpec == MCInit /\ [][MCNext]_<<sessionVars, optVars, storeVars>>

Symmetry == Permutations(KeyName)
=============================================================================
