--------------------------- MODULE RelationSessions ---------------------------
(***************************************************************************)
(* A caller of relational.rs that applies the operators one after another, *)
(* and beside it what the result means: a set of functions from column     *)
(* names to values, on which each operator is defined as in a textbook.    *)
(*                                                                         *)
(* The caller keeps the column names of a relation distinct, as the        *)
(* textbook does; the code does not check it and column_index then answers *)
(* with the first column of the name.                                      *)
(***************************************************************************)
EXTENDS RelationalAlgebra, FiniteSets

CONSTANTS Bases,        \* the relations of the caller, none with a duplicate
          Names,        \* the column names
          Constants,    \* the values compared with
          MaxOps        \* bound on the operators applied

VARIABLES rel,          \* the last result
          meaning,      \* its rows
          ops           \* how many operators were applied

\* No tuple is in the list twice, unless a value of it is not a number.
Distinct(tuples) ==
    \A i, j \in DOMAIN tuples : i # j => ~ SameTuple(tuples[i], tuples[j])

DistinctNames(schema) == IsInjective(schema)

ASSUME SessionAssumption ==
    \A r \in Bases : IsRelation(r) /\ DistinctNames(r.schema) /\ Distinct(r.tuples)

sessionVars == <<rel, meaning, ops>>

Meaning(r) ==
    {[c \in Columns(r) |-> t[column_index(r, c)]] : t \in ToSet(r.tuples)}

SessionInit ==
    /\ rel \in Bases
    /\ meaning = Meaning(rel)
    /\ ops = 0

HasNaN(row) == \E c \in DOMAIN row : row[c] = NaN

\* The result of an operator, and what it should mean.
Result(r, rows) ==
    /\ ops < MaxOps
    /\ DistinctNames(r.schema)
    /\ rel' = r
    /\ meaning' = rows
    /\ ops' = ops + 1

\* Two rows side by side.
Beside(f, g) == [c \in DOMAIN f \union DOMAIN g |-> IF c \in DOMAIN f THEN f[c] ELSE g[c]]

Select(c, v) ==
    /\ c \in Columns(rel)
    /\ LET i == column_index(rel, c)
           all == ToSet(rel.tuples)
       IN \/ Result(select(rel, {t \in all : Same(t[i], v)}),
                    {row \in meaning : row[c] = v /\ v # NaN})
          \/ Result(select(rel, {t \in all : Less(t[i], v)}),
                    {row \in meaning : Less(row[c], v)})

Project(columns) ==
    /\ ToSet(columns) \subseteq Columns(rel)
    /\ Result(project(rel, columns),
              {[c \in ToSet(columns) |-> row[c]] : row \in meaning})

\* Are they alike where both have a column?
Agree(f, g) == \A c \in DOMAIN f \intersect DOMAIN g : f[c] = g[c] /\ f[c] # NaN

SideBySide(pairs) == {Beside(p[1], p[2]) : p \in pairs}

Join(s) ==
    Result(join(rel, s), SideBySide({p \in meaning \X Meaning(s) : Agree(p[1], p[2])}))

ThetaJoin(s, c, d) ==
    /\ c \in Columns(rel) /\ d \in Columns(s)
    /\ Result(theta_join(rel, s, {p \in Pairs(rel, s) :
                          Less(p[1][column_index(rel, c)], p[2][column_index(s, d)])}),
              SideBySide({p \in meaning \X Meaning(s) : Less(p[1][c], p[2][d])}))

CrossProduct(s) ==
    Result(cross_product(rel, s), SideBySide(meaning \X Meaning(s)))

Union(s) == rel.schema = s.schema /\ Result(union(rel, s), meaning \union Meaning(s))

Difference(s) ==
    /\ rel.schema = s.schema
    /\ Result(difference(rel, s), {row \in meaning : row \notin Meaning(s) \/ HasNaN(row)})

Intersection(s) ==
    /\ rel.schema = s.schema
    /\ Result(intersection(rel, s), {row \in meaning \intersect Meaning(s) : ~ HasNaN(row)})

Rename(from, to) ==
    LET renames == [c \in {from} |-> to]
        New(c) == IF c = from THEN to ELSE c
    IN Result(rename(rel, renames),
              {[c \in {New(d) : d \in DOMAIN row} |->
                  row[CHOOSE d \in DOMAIN row : New(d) = c]] : row \in meaning})

SessionNext ==
    \/ \E c \in Names, v \in Constants : Select(c, v)
    \/ \E c, d \in Names : Project(<<c>>) \/ (c # d /\ Project(<<c, d>>)) \/ Rename(c, d)
    \/ \E s \in Bases :
         \/ Join(s) \/ CrossProduct(s) \/ Union(s) \/ Difference(s) \/ Intersection(s)
         \/ \E c, d \in Names : ThetaJoin(s, c, d)

SessionSpec == SessionInit /\ [][SessionNext]_sessionVars

-----------------------------------------------------------------------------
\* Whatever operators were composed, the list of tuples means what the set
\* operators give, row by row and column by column, however projections,
\* joins and renamings moved the columns; and no tuple is in it twice, except
\* one with a value that is not a number, which is equal to no tuple.
AlgebraExact ==
    /\ Meaning(rel) = meaning
    /\ Distinct(rel.tuples)
=============================================================================
