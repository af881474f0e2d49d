--------------------------- MODULE QueryOptimizer ---------------------------
(***************************************************************************)
(* optimize_join_order of query_opt.rs: a dynamic programme over the       *)
(* subsets of the relations of a query, as bit masks in the order of       *)
(* Gosper's hack; each subset is given the cheapest hash join of two of    *)
(* its parts.  One step per iteration of the loops.                        *)
(*                                                                         *)
(* Costs are counted in hundredths, which makes them integers.  The code   *)
(* adds floats: two plans that cost the same may differ there in the last  *)
(* bit, either way.                                                        *)
(***************************************************************************)
EXTENDS Integers, FiniteSets, SequencesExt, Bitwise

CONSTANTS WordBits,     \* the width of usize
          Name,         \* the relations
          Stats,        \* the statistics given to add_relation
          Queries       \* the lists of names given to optimize_join_order

None == [op |-> "None"]

VARIABLES relations,    \* the statistics by name
          names,        \* the query
          dp,           \* the best plan of each subset done
          size, mask,   \* the subset in work and its size
          sub,          \* the part of it in work, or 0
          best,         \* the best join found for it, if any
          phase         \* "idle", "subsets", "splits" or "done"

optVars == <<relations, names, dp, size, mask, sub, best, phase>>

TableScan(name) == [op |-> "TableScan", relation |-> name, stats |-> relations[name]]
HashJoin(l, r) == [op |-> "HashJoin", left |-> l, right |-> r]

Larger(m, n) == IF m >= n THEN m ELSE n

\* The size of a hash join's output.
JoinSize(l, r) == (3 * Larger(l, r)) \div 2

RECURSIVE estimate_output_size(_)
estimate_output_size(plan) ==
    IF plan.op = "TableScan" THEN plan.stats.num_tuples
    ELSE JoinSize(estimate_output_size(plan.left), estimate_output_size(plan.right))

\* What a hash join costs beside its inputs: 3 * (l + r) / 100 and 3 * max.
JoinCost(l, r) == 3 * (l + r) + 300 * Larger(l, r)

\* The total of estimate_cost, in hundredths.
RECURSIVE estimate_cost(_)
estimate_cost(plan) ==
    IF plan.op = "TableScan" THEN 100 * (plan.stats.num_pages + plan.stats.num_tuples)
    ELSE estimate_cost(plan.left) + estimate_cost(plan.right)
           + JoinCost(estimate_output_size(plan.left), estimate_output_size(plan.right))

OptInit ==
    /\ relations = <<>> /\ names = <<>> /\ dp = <<>>
    /\ size = 0 /\ mask = 0 /\ sub = 0 /\ best = None
    /\ phase = "idle"

add_relation(name, stats) ==
    /\ phase = "idle"
    /\ relations' = [other \in DOMAIN relations \union {name} |->
                       IF other = name THEN stats ELSE relations[other]]
    /\ UNCHANGED <<names, dp, size, mask, sub, best, phase>>

n == Len(names)

\* An empty query, or one with an unknown name, has no plan.
RefuseQuery(query) ==
    /\ phase = "idle"
    /\ query = <<>> \/ ~ ToSet(query) \subseteq DOMAIN relations
    /\ names' = query /\ phase' = "done"
    /\ UNCHANGED <<relations, dp, size, mask, sub, best>>

StartQuery(query) ==
    /\ phase = "idle"
    /\ query # <<>> /\ ToSet(query) \subseteq DOMAIN relations
    /\ names' = query
    /\ dp' = [m \in {2^(i - 1) : i \in DOMAIN query} |->
                TableScan(query[CHOOSE i \in DOMAIN query : m = 2^(i - 1)])]
    /\ size' = 2 /\ mask' = 2^2 - 1
    /\ phase' = "subsets"
    /\ UNCHANGED <<relations, sub, best>>

\* Gosper's hack for the next mask with as many bits, with one shift more.
NextMask(m) ==
    LET c == m & (2^WordBits - m)
        r == m + c
    IN ((((r ^^ m) \div 4) \div c) \div 2) | r

StartSubset ==
    /\ phase = "subsets"
    /\ size <= n /\ mask < 2^n
    /\ sub' = (mask - 1) & mask
    /\ best' = None
    /\ phase' = "splits"
    /\ UNCHANGED <<relations, names, dp, size, mask>>

\* Mutant: the part is taken from all relations of the query.
ComplementInQuery(part) == (2^n - 1) ^^ part

Complement(part) == mask ^^ part

\* Have both parts got a plan?
Planned == sub \in DOMAIN dp /\ Complement(sub) \in DOMAIN dp

Candidate == HashJoin(dp[sub], dp[Complement(sub)])

Mirror(join) == HashJoin(join.right, join.left)

TakeSplit ==
    /\ phase = "splits" /\ sub # 0
    /\ Planned
    /\ best # None => /\ estimate_cost(Candidate) <= estimate_cost(best)
                     /\ best # Mirror(Candidate)
    /\ best' = Candidate
    /\ sub' = (sub - 1) & mask
    /\ UNCHANGED <<relations, names, dp, size, mask, phase>>

SkipSplit ==
    /\ phase = "splits" /\ sub # 0
    /\ Planned => best # None /\ estimate_cost(Candidate) >= estimate_cost(best)
    /\ sub' = (sub - 1) & mask
    /\ UNCHANGED <<relations, names, dp, size, mask, best, phase>>

EndSubset ==
    /\ phase = "splits" /\ sub = 0
    /\ dp' = IF best = None THEN dp
              ELSE [m \in DOMAIN dp \union {mask} |-> IF m = mask THEN best ELSE dp[m]]
    /\ mask' = NextMask(mask)
    /\ phase' = "subsets"
    /\ UNCHANGED <<relations, names, size, sub, best>>

NextSize ==
    /\ phase = "subsets"
    /\ size <= n /\ mask >= 2^n
    /\ size' = size + 1
    /\ mask' = 2^(size + 1) - 1
    /\ UNCHANGED <<relations, names, dp, sub, best, phase>>

Finish ==
    /\ phase = "subsets" /\ size > n
    /\ phase' = "done"
    /\ UNCHANGED <<relations, names, dp, size, mask, sub, best>>

\* What the call returns once it is done.
optimize_join_order ==
    IF 2^n - 1 \in DOMAIN dp THEN dp[2^n - 1] ELSE None

OptNext ==
    \/ \E name \in Name, stats \in Stats : add_relation(name, stats)
    \/ \E query \in Queries : RefuseQuery(query) \/ StartQuery(query)
    \/ StartSubset \/ TakeSplit \/ SkipSplit \/ EndSubset \/ NextSize \/ Finish

-----------------------------------------------------------------------------
\* The positions in the query that a mask stands for.
Members(m) == {i \in DOMAIN names : (m \div 2^(i - 1)) % 2 = 1}

RECURSIVE relations_of(_)
relations_of(plan) ==
    IF plan.op = "TableScan" THEN <<plan.relation>>
    ELSE relations_of(plan.left) \o relations_of(plan.right)

Occurrences(x, s, S) == Cardinality({i \in S : s[i] = x})

\* Whatever masks the enumeration gives and skips, the plan kept for a mask
\* joins each of its relations once, and a query of known names always ends
\* with a plan for all of them; no word overflows on the way.
PlansSound ==
    /\ mask < 2^WordBits
    /\ \A m \in DOMAIN dp, name \in Name :
         LET list == relations_of(dp[m])
         IN Occurrences(name, list, DOMAIN list) = Occurrences(name, names, Members(m))
    /\ phase = "done" =>
         (optimize_join_order = None <=>
            names = <<>> \/ ~ ToSet(names) \subseteq DOMAIN relations)

\* The size and the cost of every way to join the relations at S, both
\* orders of each join and all shapes of the tree.
RECURSIVE Estimates(_)
Estimates(S) ==
    IF Cardinality(S) = 1
    THEN LET scan == TableScan(names[CHOOSE i \in S : TRUE])
         IN {<<estimate_output_size(scan), estimate_cost(scan)>>}
    ELSE UNION {{<<JoinSize(l[1], r[1]), l[2] + r[2] + JoinCost(l[1], r[1])>> :
                   l \in Estimates(L), r \in Estimates(S \ L)} :
                L \in (SUBSET S) \ {{}, S}}

\* query_opt.rs:247, "Find optimal join order using dynamic programming.
\* Returns the best plan for joining all given relations": no join tree of
\* the relations has a smaller estimated cost than the plan returned.
JoinOrderOptimal ==
    phase = "done" /\ optimize_join_order # None =>
        \A e \in Estimates(DOMAIN names) : estimate_cost(optimize_join_order) <= e[2]
=============================================================================
