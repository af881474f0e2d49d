-------------------------- MODULE RelationalAlgebra --------------------------
(***************************************************************************)
(* The operators of struct Relation in relational.rs.  A relation has a    *)
(* schema, a list of column names, and a list of tuples; a tuple is a list *)
(* of values, one for each column.                                         *)
(*                                                                         *)
(* A Value is a pair of its variant and its payload, so that values of two *)
(* variants are never equal.  A predicate is the set of tuples, or of      *)
(* pairs of tuples, of which it is true.  A panic of the code is a         *)
(* condition that the callers of an operator state as their guard.         *)
(***************************************************************************)
EXTENDS Integers, SequencesExt

VInt(i) == <<"Int", i>>
Text(s) == <<"Text", s>>
NaN == <<"Float", "NaN">>

\* The equality derived for Value: not a number is not equal to itself.
Same(u, v) == u = v /\ u # NaN

SameTuple(s, t) == Len(s) = Len(t) /\ \A i \in DOMAIN s : Same(s[i], t[i])

\* The order of values, undefined and so false across variants.
Less(u, v) == u[1] = "Int" /\ v[1] = "Int" /\ u[2] < v[2]

Relation(schema, tuples) == [schema |-> schema, tuples |-> tuples]

\* Vec::contains, by the equality of tuples.
contains(tuples, t) == \E i \in DOMAIN tuples : SameTuple(tuples[i], t)

\* A list of the tuples in it, with a value for each column in each of them.
IsRelation(r) ==
    /\ r = Relation(r.schema, r.tuples)
    /\ r.schema \in Seq(ToSet(r.schema)) /\ r.tuples \in Seq(ToSet(r.tuples))
    /\ \A t \in ToSet(r.tuples) : t \in Seq(ToSet(t)) /\ Len(t) = Len(r.schema)

Columns(r) == {r.schema[i] : i \in DOMAIN r.schema}

\* The first column of that name, numbered from 1.
column_index(r, name) ==
    CHOOSE i \in DOMAIN r.schema :
        r.schema[i] = name /\ \A j \in DOMAIN r.schema : r.schema[j] = name => i <= j

\* What is in S of a list, in its order.
Filter(list, S) ==
    FoldLeft(LAMBDA kept, e : IF e \in S THEN Append(kept, e) ELSE kept, <<>>, list)

select(r, predicate) == [r EXCEPT !.tuples = Filter(@, predicate)]

\* Appends the tuples that are not there yet, one by one.
AddNew(tuples, more) ==
    FoldLeft(LAMBDA seen, t : IF contains(seen, t) THEN seen ELSE Append(seen, t),
             tuples, more)

\* The columns at of a tuple.
Cut(t, at) == [k \in DOMAIN at |-> t[at[k]]]

\* Panics unless all columns are of r.
project(r, columns) ==
    LET at == [i \in DOMAIN columns |-> column_index(r, columns[i])]
    IN Relation(Cut(r.schema, at),
                AddNew(<<>>, [i \in DOMAIN r.tuples |-> Cut(r.tuples[i], at)]))

\* The pairs of tuples of r and s.
Pairs(r, s) == ToSet(r.tuples) \X ToSet(s.tuples)

\* Each tuple of r followed by the columns at of each tuple of s that matches
\* it, s running faster.
Glued(r, s, predicate, at) ==
    FlattenSeq([i \in DOMAIN r.tuples |->
        LET fit == Filter(s.tuples, {u \in ToSet(s.tuples) : <<r.tuples[i], u>> \in predicate})
        IN [j \in DOMAIN fit |-> r.tuples[i] \o Cut(fit[j], at)]])

theta_join(r, s, predicate) ==
    Relation(r.schema \o s.schema, Glued(r, s, predicate, [j \in DOMAIN s.schema |-> j]))

cross_product(r, s) == theta_join(r, s, Pairs(r, s))

\* Mutant: one common column that agrees is enough.
JoinMatchesAny(r, s, t, u) ==
    \E i \in DOMAIN r.schema : /\ r.schema[i] \in Columns(s)
                              /\ Same(t[i], u[column_index(s, r.schema[i])])

\* Do the tuples agree in the common columns?
JoinMatches(r, s, t, u) ==
    \A i \in DOMAIN r.schema :
        r.schema[i] \in Columns(s) => Same(t[i], u[column_index(s, r.schema[i])])

join(r, s) ==
    IF Columns(r) \intersect Columns(s) = {}
    THEN cross_product(r, s)
    ELSE LET extras == Filter([j \in DOMAIN s.schema |-> j],
                              {j \in DOMAIN s.schema : s.schema[j] \notin Columns(r)})
         IN Relation(r.schema \o Cut(s.schema, extras),
                     Glued(r, s, {p \in Pairs(r, s) : JoinMatches(r, s, p[1], p[2])}, extras))

\* The next three panic unless the schemas are the same list.
union(r, s) == [r EXCEPT !.tuples = AddNew(@, s.tuples)]

difference(r, s) == select(r, {t \in ToSet(r.tuples) : ~ contains(s.tuples, t)})

intersection(r, s) == select(r, {t \in ToSet(r.tuples) : contains(s.tuples, t)})

\* renames maps some names to new ones.
rename(r, renames) ==
    [r EXCEPT !.schema = [i \in DOMAIN @ |->
        IF @[i] \in DOMAIN renames THEN renames[@[i]] ELSE @[i]]]
=============================================================================
