----------------------------- MODULE NormalForms -----------------------------
(***************************************************************************)
(* Functional dependencies as normal_forms.rs computes with them, and, at  *)
(* the end, what the same notions mean.                                    *)
(*                                                                         *)
(* A dependency is a record [lhs, rhs] of attribute sets, a list of        *)
(* dependencies a sequence, as in the code.  An operator that lists all    *)
(* subsets by a bit mask that starts at 1 ranges over non-empty sets here. *)
(***************************************************************************)
EXTENDS Naturals, FiniteSets, SequencesExt

Dependency(attrs) == [lhs : SUBSET attrs, rhs : (SUBSET attrs) \ {{}}]

is_trivial(fd) == fd.rhs \subseteq fd.lhs

\* One round over the dependencies, each applied to what is known by then.
Applied(attrs, fds) ==
    FoldLeft(LAMBDA known, fd : IF fd.lhs \subseteq known
                                THEN known \union fd.rhs ELSE known,
             attrs, fds)

\* Rounds until one changes nothing; every other completes a right side.
closure(attrs, fds) ==
    LET round[n \in 0 .. Len(fds) + 1] ==
            IF n = 0 THEN attrs ELSE Applied(round[n - 1], fds)
        last == CHOOSE n \in 1 .. Len(fds) + 1 : round[n] = round[n - 1]
    IN round[last]

\* The sets that determine the whole relation.
superkeys(attrs, fds) ==
    {s \in (SUBSET attrs) \ {{}} : closure(s, fds) = attrs}

\* Mutant: the keys that the new one is part of stay.
WithKeyOnly(keys, s) == IF \A k \in keys : ~ k \subseteq s THEN keys \union {s} ELSE keys

\* The keys after one more superkey was looked at.
WithKey(keys, s) ==
    IF \A k \in keys : ~ k \subseteq s
    THEN {k \in keys : ~ s \subseteq k} \union {s}
    ELSE keys

\* candidate_keys, its superkeys taken in an arbitrary order.
candidate_keys(attrs, fds) ==
    FoldSet(LAMBDA s, keys : WithKey(keys, s), {}, superkeys(attrs, fds))

prime_attrs(attrs, fds) == UNION candidate_keys(attrs, fds)

is_1nf(attrs) == attrs # {}

is_2nf(attrs, fds) ==
    /\ is_1nf(attrs)
    /\ \A i \in DOMAIN fds, key \in candidate_keys(attrs, fds) :
           /\ ~ is_trivial(fds[i])
           /\ fds[i].lhs \subseteq key /\ fds[i].lhs # key
           => fds[i].rhs \subseteq prime_attrs(attrs, fds)

\* Mutant: a dependency is judged by its left side alone.
is_3nfByKey(attrs, fds) ==
    \A i \in DOMAIN fds :
        is_trivial(fds[i]) \/ fds[i].lhs \in superkeys(attrs, fds)

is_3nf(attrs, fds) ==
    \A i \in DOMAIN fds :
        \/ is_trivial(fds[i])
        \/ fds[i].lhs \in superkeys(attrs, fds)
        \/ fds[i].rhs \subseteq prime_attrs(attrs, fds)

\* The dependencies, by index, that is_bcnf and decompose_bcnf object to.
Violators(attrs, fds) ==
    {i \in DOMAIN fds : /\ ~ is_trivial(fds[i])
                        /\ fds[i].lhs \notin superkeys(attrs, fds)}

is_bcnf(attrs, fds) == Violators(attrs, fds) = {}

-----------------------------------------------------------------------------
(* Reference.  Two tuples that agree on exactly the attributes S satisfy   *)
(* the dependencies iff S is closed under them, and a dependency follows   *)
(* from others iff every such pair satisfies it: the closed sets are the   *)
(* whole meaning of a list of dependencies.                                *)

ClosedSets(attrs, fds) ==
    {S \in SUBSET attrs :
        \A i \in DOMAIN fds : fds[i].lhs \subseteq S => fds[i].rhs \subseteq S}

\* What X determines when the closed sets are C.
Determined(X, C) == {a \in UNION C : \A S \in C : X \subseteq S => a \in S}

\* X determines the whole relation R.
Determines(X, R, C) == R \subseteq Determined(X, C)

Keys(R, C) ==
    {K \in (SUBSET R) \ {{}} :
        /\ Determines(K, R, C)
        /\ \A J \in (SUBSET K) \ {{}, K} : ~ Determines(J, R, C)}

In2NF(R, C) ==
    \A K \in Keys(R, C) : \A X \in (SUBSET K) \ {K} :
        (Determined(X, C) \intersect R) \ X \subseteq UNION Keys(R, C)

In3NF(R, C) ==
    \A X \in SUBSET R :
        \/ Determines(X, R, C)
        \/ (Determined(X, C) \intersect R) \ X \subseteq UNION Keys(R, C)

InBCNF(R, C) ==
    \A X \in SUBSET R :
        Determines(X, R, C) \/ Determined(X, C) \intersect R = X

\* The dependencies can be checked in the relations one by one.
Preserving(relations, attrs, C) ==
    C = {S \in SUBSET attrs :
           \A R \in relations :
               Determined(S \intersect R, C) \intersect R \subseteq S}

(* The chase: a row for each relation, which holds the joined tuple's      *)
(* value (written as attrs) where the relation has the attribute and a     *)
(* value of its own (written as the relation) elsewhere.                   *)
Tableau(relations, attrs) ==
    [R \in relations |-> [a \in attrs |-> IF a \in R THEN attrs ELSE R]]

\* Two rows and the attribute that they have to agree on.
Forced(T, fds) ==
    {f \in (DOMAIN T) \X (DOMAIN T) \X UNION {fd.rhs : fd \in ToSet(fds)} :
        /\ T[f[1]][f[3]] # T[f[2]][f[3]]
        /\ \E i \in DOMAIN fds : /\ f[3] \in fds[i].rhs
                                 /\ \A b \in fds[i].lhs : T[f[1]][b] = T[f[2]][b]}

\* One forced equality more, if there is one.
Equated(T, attrs, fds) ==
    IF Forced(T, fds) = {} THEN T
    ELSE LET f == CHOOSE f \in Forced(T, fds) : T[f[2]][f[3]] # attrs
             same == T[f[1]][f[3]]
             gone == T[f[2]][f[3]]
         IN [R \in DOMAIN T |-> [T[R] EXCEPT ![f[3]] = IF @ = gone THEN same ELSE @]]

\* Every equality leaves a column with a value less.
Chase(T, attrs, fds) ==
    LET values == Cardinality(DOMAIN T) * Cardinality(attrs)
        after[n \in 0 .. values] ==
            IF n = 0 THEN T ELSE Equated(after[n - 1], attrs, fds)
    IN after[values]

\* Whatever satisfies the dependencies is the join of its projections.
Lossless(relations, attrs, fds) ==
    \E R \in relations : \A a \in attrs :
        Chase(Tableau(relations, attrs), attrs, fds)[R][a] = attrs
=============================================================================
