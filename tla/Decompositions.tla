---------------------------- MODULE Decompositions ----------------------------
(***************************************************************************)
(* The algorithms of normal_forms.rs that run in steps: the search for     *)
(* candidate keys and the minimal cover inside decompose_3nf, and          *)
(* decompose_bcnf; is_2nf, is_3nf and is_bcnf are judged beside them.      *)
(*                                                                         *)
(* The attributes of a dependency are a hash set and the subsets that      *)
(* candidate_keys looks at a hash map: the order in which they come, which *)
(* decides what is reduced first and which key comes first, is arbitrary.  *)
(***************************************************************************)
EXTENDS NormalForms

CONSTANTS Attr,           \* attribute names
          MaxFDs,         \* bound on the number of dependencies
          MaxSynthesized  \* bound on the attributes of a relation to synthesize

ASSUME DecompositionAssumption ==
    IsFiniteSet(Attr) /\ MaxFDs \in Nat /\ MaxSynthesized \in Nat

VARIABLES job, all_attrs, fds,   \* the function that was called, its arguments
          pc,
          verdict,               \* is_2nf, is_3nf and is_bcnf
          result, new, changed,  \* compute_minimal_cover
          unseen, keys,          \* candidate_keys
          schemas,               \* what decompose_3nf returns
          queue, relations       \* decompose_bcnf: to do, and what it returns

coverVars == <<result, new, changed>>
keyVars == <<unseen, keys>>
bcnfVars == <<queue, relations>>
vars == <<job, all_attrs, fds, pc, verdict, coverVars, keyVars, schemas, bcnfVars>>

\* The right sides split in single attributes, in any order.
Splits(list) ==
    FoldLeft(LAMBDA done, fd :
                 {s \o [j \in DOMAIN p |-> [lhs |-> fd.lhs, rhs |-> {p[j]}]] :
                     s \in done, p \in SetToSeqs(fd.rhs)},
             {<<>>}, list)

Init ==
    /\ all_attrs \in (SUBSET Attr) \ {{}}
    /\ \E n \in 0 .. MaxFDs : fds \in [1 .. n -> Dependency(all_attrs)]
    /\ verdict = <<>> /\ new = <<>> /\ changed = FALSE
    /\ unseen = {} /\ keys = {} /\ schemas = {} /\ relations = {}
    /\ \/ /\ job = "judge" /\ pc = "judge"
          /\ result = <<>> /\ queue = <<>>
       \/ /\ job = "synthesis" /\ pc = "reduce"
          /\ Cardinality(all_attrs) <= MaxSynthesized
          /\ result \in Splits(fds) /\ queue = <<>>
       \/ /\ job = "bcnf" /\ pc = "bcnf"
          /\ result = <<>>
          /\ queue = <<[attrs |-> all_attrs, fds |-> fds]>>

Judge ==
    /\ pc = "judge" /\ pc' = "done"
    /\ verdict' = [nf2 |-> is_2nf(all_attrs, fds), nf3 |-> is_3nf(all_attrs, fds),
                   bcnf |-> is_bcnf(all_attrs, fds)]
    /\ UNCHANGED <<job, all_attrs, fds, coverVars, keyVars, schemas, bcnfVars>>

-----------------------------------------------------------------------------
(* compute_minimal_cover                                                   *)

\* Mutant: an attribute is dropped if the rest determines it.
ReducibleAttrs(fd, list) ==
    {a \in fd.lhs : Cardinality(fd.lhs) > 1 /\ a \in closure(fd.lhs, list)}

\* The attributes the left side of a dependency can do without.
Extraneous(fd, list) ==
    {a \in fd.lhs : /\ Cardinality(fd.lhs) > 1
                    /\ fd.rhs \subseteq closure(fd.lhs \ {a}, list)}

\* One dependency of the list loses one attribute, or stays as it is.
Reduce ==
    /\ pc = "reduce" /\ Len(new) < Len(result)
    /\ LET fd == result[Len(new) + 1]
       IN \/ \E a \in Extraneous(fd, result) :
                 /\ new' = Append(new, [fd EXCEPT !.lhs = @ \ {a}])
                 /\ changed' = TRUE
          \/ /\ Extraneous(fd, result) = {}
             /\ new' = Append(new, fd)
             /\ UNCHANGED changed
    /\ UNCHANGED <<job, all_attrs, fds, pc, verdict, result, keyVars, schemas, bcnfVars>>

EndPass ==
    /\ pc = "reduce" /\ Len(new) = Len(result)
    /\ result' = new /\ new' = <<>> /\ changed' = FALSE
    /\ pc' = IF changed THEN "reduce" ELSE "remove"
    /\ UNCHANGED <<job, all_attrs, fds, verdict, keyVars, schemas, bcnfVars>>

Redundant(fd, kept, rest) == fd.rhs \subseteq closure(fd.lhs, kept \o rest)

\* Here new holds the dependencies kept so far and result those not seen yet.
RemoveRedundant ==
    /\ pc = "remove" /\ result # <<>>
    /\ result' = Tail(result)
    /\ new' = IF Redundant(Head(result), new, Tail(result))
              THEN new ELSE Append(new, Head(result))
    /\ UNCHANGED <<job, all_attrs, fds, pc, verdict, changed, keyVars, schemas, bcnfVars>>

-----------------------------------------------------------------------------
(* decompose_3nf                                                           *)

\* A relation for each left side of the cover.  Two groups with the same
\* attributes, which the code lists twice, are one here.
Groups(cover) ==
    {fd.lhs \union UNION {g.rhs : g \in {h \in ToSet(cover) : h.lhs = fd.lhs}} :
        fd \in ToSet(cover)}

Group ==
    /\ pc = "remove" /\ result = <<>>
    /\ pc' = "keys"
    /\ schemas' = Groups(new)
    /\ unseen' = superkeys(all_attrs, fds)
    /\ UNCHANGED <<job, all_attrs, fds, verdict, coverVars, keys, bcnfVars>>

\* candidate_keys looks at one more superkey.
VisitSuperkey(s) ==
    /\ pc = "keys"
    /\ s \in unseen
    /\ unseen' = unseen \ {s}
    /\ keys' = WithKey(keys, s)
    /\ UNCHANGED <<job, all_attrs, fds, pc, verdict, coverVars, schemas, bcnfVars>>

\* Mutant: any attribute of a key will do.
has_keyAttr == \E R \in schemas, k \in keys : k \intersect R # {}

has_key == \E R \in schemas, k \in keys : k \subseteq R

AddKey ==
    /\ pc = "keys" /\ unseen = {}
    /\ pc' = "done"
    /\ \/ has_key /\ UNCHANGED schemas
       \/ ~ has_key /\ \E k \in keys : schemas' = schemas \union {k}
    /\ UNCHANGED <<job, all_attrs, fds, verdict, coverVars, keyVars, bcnfVars>>

-----------------------------------------------------------------------------
(* decompose_bcnf                                                          *)

\* The dependencies that lie within some of the attributes.
Within(list, attrs) ==
    FoldLeft(LAMBDA kept, fd : IF fd.lhs \subseteq attrs /\ fd.rhs \subseteq attrs
                               THEN Append(kept, fd) ELSE kept,
             <<>>, list)

\* The dependency to split by: the first that violates BCNF.
Violator(rel) == rel.fds[CHOOSE i \in Violators(rel.attrs, rel.fds) :
                           \A j \in Violators(rel.attrs, rel.fds) : i <= j]

R1(fd) == fd.lhs \union fd.rhs

\* Mutant: the left side leaves the second relation too.
R2Rest(attrs, fd) == attrs \ R1(fd)

R2(attrs, fd) == attrs \ fd.rhs

Split ==
    /\ pc = "bcnf" /\ queue # <<>>
    /\ LET rel == Last(queue)
           r1 == R1(Violator(rel))
           r2 == R2(rel.attrs, Violator(rel))
       IN /\ ~ is_bcnf(rel.attrs, rel.fds) /\ {} \notin {r1, r2}
          /\ queue' = Front(queue) \o <<[attrs |-> r1, fds |-> Within(rel.fds, r1)],
                                        [attrs |-> r2, fds |-> Within(rel.fds, r2)]>>
    /\ UNCHANGED <<job, all_attrs, fds, pc, verdict, coverVars, keyVars, schemas, relations>>

\* No dependency is violated, or the split would leave nothing on one side.
Keep ==
    /\ pc = "bcnf" /\ queue # <<>>
    /\ LET rel == Last(queue)
       IN /\ ~ is_bcnf(rel.attrs, rel.fds) =>
                {} \in {R1(Violator(rel)), R2(rel.attrs, Violator(rel))}
          /\ relations' = relations \union {rel}
    /\ queue' = Front(queue)
    /\ UNCHANGED <<job, all_attrs, fds, pc, verdict, coverVars, keyVars, schemas>>

EndSplits ==
    /\ pc = "bcnf" /\ queue = <<>>
    /\ pc' = "done"
    /\ UNCHANGED <<job, all_attrs, fds, verdict, coverVars, keyVars, schemas, bcnfVars>>

-----------------------------------------------------------------------------
Finished == pc = "done" /\ UNCHANGED vars

Next ==
    \/ Judge
    \/ Reduce \/ EndPass \/ RemoveRedundant
    \/ Group \/ (\E s \in SUBSET all_attrs : VisitSuperkey(s)) \/ AddKey
    \/ Split \/ Keep \/ EndSplits
    \/ Finished

Spec == Init /\ [][Next]_vars

-----------------------------------------------------------------------------
Closed(list) == ClosedSets(all_attrs, list)

\* No dependency holds unconditionally.
Conditional == \A i \in DOMAIN fds : fds[i].lhs # {}

\* No attribute is on both sides of a dependency.
Disjoint == \A i \in DOMAIN fds : fds[i].lhs \intersect fds[i].rhs = {}

\* What the checks of the normal forms say of the given dependencies is true
\* of all that follow from them: is_bcnf always, is_3nf if no dependency
\* repeats an attribute of its left side, is_2nf when it says no.
VerdictsExact ==
    job = "judge" /\ pc = "done" /\ Conditional =>
        /\ verdict.bcnf <=> InBCNF(all_attrs, Closed(fds))
        /\ Disjoint => (verdict.nf3 <=> In3NF(all_attrs, Closed(fds)))
        /\ ~ verdict.nf2 => ~ In2NF(all_attrs, Closed(fds))

\* compute_minimal_cover never changes what the dependencies mean, in the
\* middle of a pass included, and what it returns has no dependency and, as
\* long as none holds unconditionally, no attribute on a left side to spare.
CoverMinimal ==
    job = "synthesis" =>
        /\ CASE pc = "reduce" -> Closed(new \o SubSeq(result, Len(new) + 1, Len(result)))
                                    = Closed(fds)
             [] OTHER -> Closed(new \o result) = Closed(fds)
        /\ pc \in {"keys", "done"} => \A i \in DOMAIN new :
               /\ Closed(RemoveAt(new, i)) # Closed(fds)
               /\ Conditional => \A a \in new[i].lhs :
                      Closed([new EXCEPT ![i].lhs = @ \ {a}]) # Closed(fds)

\* However the hash map orders them, candidate_keys ends with the minimal
\* sets of attributes that determine the relation, all of them.
KeysExact ==
    pc = "done" /\ job = "synthesis" => keys = Keys(all_attrs, Closed(fds))

\* decompose_3nf returns relations in third normal form that lose no
\* information and no dependency.
SynthesisSound ==
    pc = "done" /\ job = "synthesis" /\ Conditional =>
        /\ \A R \in schemas : In3NF(R, Closed(fds))
        /\ Lossless(schemas, all_attrs, fds)
        /\ Preserving(schemas, all_attrs, Closed(fds))

Parts == {rel.attrs : rel \in relations \union ToSet(queue)}

\* decompose_bcnf never loses information, as long as no dependency repeats
\* an attribute of its left side: whatever is still to be split and whatever
\* is done join to the original relation.
SplitsLossless ==
    job = "bcnf" /\ Disjoint => Lossless(Parts, all_attrs, fds)

\* README.md, BCNF Decomposition: "Repeat until all relations are in BCNF."
BcnfReached ==
    job = "bcnf" /\ pc = "done" /\ Conditional /\ Disjoint =>
        \A R \in Parts : InBCNF(R, Closed(fds))
=============================================================================
