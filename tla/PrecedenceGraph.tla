--------------------------- MODULE PrecedenceGraph ---------------------------
(***************************************************************************)
(* struct PrecedenceGraph of transactions.rs: a graph of transactions that *)
(* is built with add_node and add_edge, searched for a cycle by            *)
(* depth-first search (has_cycle, dfs_cycle) and sorted by Kahn's          *)
(* algorithm (topological_sort).                                           *)
(*                                                                         *)
(* Nodes and edges are hash sets, iterated in an order the program does    *)
(* not control: every loop over them takes its elements in any order.  The *)
(* recursion of dfs_cycle is an explicit stack.  Only serial_order sorts   *)
(* after searching; topological_sort is public, so the module sorts cyclic *)
(* graphs too.                                                             *)
(***************************************************************************)
EXTENDS Schedules, Integers, FiniteSets, SequencesExt

CONSTANTS Txn,       \* transaction ids
          MaxEdges   \* bound on the number of edges added

ASSUME MaxEdgesAssumption == MaxEdges \in Nat

VARIABLES nodes, edges,             \* the graph
          pc,                       \* build, search, sort or done
          roots,                    \* has_cycle: nodes its loop has not seen
          white, gray, black,       \* has_cycle: the colours
          stack,                    \* dfs_cycle: the active calls
          verdict,                  \* what has_cycle returned
          in_degree, queue, result, \* topological_sort
          todo                      \* topological_sort: edges left to drop

graphVars == <<nodes, edges>>
searchVars == <<roots, white, gray, black, stack, verdict>>
sortVars == <<in_degree, queue, result, todo>>
vars == <<graphVars, pc, searchVars, sortVars>>

Init ==
    /\ nodes = {} /\ edges = {}
    /\ pc = "build"
    /\ roots = {} /\ white = {} /\ gray = {} /\ black = {} /\ stack = <<>>
    /\ verdict = FALSE
    /\ in_degree = <<>> /\ queue = <<>> /\ result = <<>> /\ todo = {}

successors(n) == {e[2] : e \in {f \in edges : f[1] = n}}

-----------------------------------------------------------------------------
add_node(n) ==
    /\ pc = "build"
    /\ nodes' = nodes \union {n}
    /\ UNCHANGED <<edges, pc, searchVars, sortVars>>

add_edge(from, to) ==
    /\ pc = "build"
    /\ Cardinality(edges) < MaxEdges
    /\ nodes' = nodes \union {from, to}
    /\ edges' = edges \union {<<from, to>>}
    /\ UNCHANGED <<pc, searchVars, sortVars>>

-----------------------------------------------------------------------------
(* has_cycle                                                               *)

StartSearch ==
    /\ pc = "build"
    /\ pc' = "search"
    /\ roots' = nodes /\ white' = nodes /\ gray' = {} /\ black' = {}
    /\ UNCHANGED <<graphVars, stack, verdict, sortVars>>

\* A call of dfs_cycle begins: its node turns gray, its edges are yet to see.
Enter(n, callers) ==
    /\ white' = white \ {n}
    /\ gray' = gray \union {n}
    /\ stack' = Append(callers, [node |-> n, todo |-> successors(n)])

VisitRoot(n) ==
    /\ pc = "search" /\ stack = <<>>
    /\ n \in roots
    /\ roots' = roots \ {n}
    /\ IF n \in white THEN Enter(n, stack) ELSE UNCHANGED <<white, gray, stack>>
    /\ UNCHANGED <<graphVars, pc, black, verdict, sortVars>>

\* Mutant: edges are counted at their other end.
OutDegrees ==
    [n \in nodes |-> Cardinality({e \in edges : e[1] = n})]

\* The search is over; sorting begins with all edges counted.
InDegrees ==
    [n \in nodes |-> Cardinality({e \in edges : e[2] = n})]

\* The nodes that no edge enters, in the order the hash map yields them.
InitialQueues ==
    SetToSeqs({n \in nodes : \A e \in edges : e[2] # n})

Return(cyclic) ==
    /\ verdict' = cyclic
    /\ pc' = "sort"
    /\ in_degree' = InDegrees
    /\ queue' \in InitialQueues
    /\ UNCHANGED <<graphVars, roots, black, result, todo>>

\* Mutant: any node seen before closes a cycle.
ClosesCycleIfSeen(to) == to \notin white

\* The edge to a node leads back into the active calls.
ClosesCycle(to) == to \in gray

Advanced(call, to) == [call EXCEPT !.todo = @ \ {to}]

\* The top call of dfs_cycle looks at one more edge of its node.
FollowEdge(to) ==
    /\ pc = "search" /\ stack # <<>>
    /\ LET top == Last(stack)
           waiting == Append(Front(stack), Advanced(top, to))
       IN /\ to \in top.todo
          /\ \/ /\ ClosesCycle(to)
                /\ Return(TRUE)
                /\ UNCHANGED <<white, gray, stack>>
             \/ /\ ~ ClosesCycle(to)
                /\ IF to \in white
                   THEN Enter(to, waiting)
                   ELSE stack' = waiting /\ UNCHANGED <<white, gray>>
                /\ UNCHANGED <<graphVars, pc, roots, black, verdict, sortVars>>

\* Mutant: the node stays gray.
LeaveGray ==
    /\ pc = "search" /\ stack # <<>>
    /\ Last(stack).todo = {}
    /\ black' = black \union {Last(stack).node}
    /\ stack' = Front(stack)
    /\ UNCHANGED <<graphVars, pc, roots, white, gray, verdict, sortVars>>

Leave ==
    /\ pc = "search" /\ stack # <<>>
    /\ Last(stack).todo = {}
    /\ gray' = gray \ {Last(stack).node}
    /\ black' = black \union {Last(stack).node}
    /\ stack' = Front(stack)
    /\ UNCHANGED <<graphVars, pc, roots, white, verdict, sortVars>>

NoCycleFound ==
    /\ pc = "search" /\ stack = <<>> /\ roots = {}
    /\ Return(FALSE)
    /\ UNCHANGED <<white, gray, stack>>

-----------------------------------------------------------------------------
(* topological_sort                                                        *)

PopFront ==
    /\ pc = "sort" /\ todo = {} /\ queue # <<>>
    /\ result' = Append(result, Head(queue))
    /\ queue' = Tail(queue)
    /\ todo' = {e \in edges : e[1] = Head(queue)}
    /\ UNCHANGED <<graphVars, pc, searchVars, in_degree>>

\* Mutant: a node is queued with one predecessor to go.
ReadyEarly(deg) == deg = 1

\* Mutant: a node is queued with one predecessor to go and once more with none.
ReadyTwice(deg) == deg <= 1

Ready(deg) == deg = 0

\* `*deg -= 1` on an unsigned counter, and the node is queued at zero.  A
\* counter that is zero already panics: the call goes no further.  (A release
\* build wraps instead; CountersExact rules out both.)
DropEdge(e) ==
    /\ pc = "sort"
    /\ e \in todo
    /\ in_degree[e[2]] > 0
    /\ todo' = todo \ {e}
    /\ in_degree' = [in_degree EXCEPT ![e[2]] = @ - 1]
    /\ queue' = IF Ready(in_degree'[e[2]]) THEN Append(queue, e[2]) ELSE queue
    /\ UNCHANGED <<graphVars, pc, searchVars, result>>

Sorted ==
    /\ pc = "sort" /\ todo = {} /\ queue = <<>>
    /\ pc' = "done"
    /\ UNCHANGED <<graphVars, searchVars, sortVars>>

Build == \E n \in Txn : add_node(n) \/ \E m \in Txn : add_edge(n, m)

Work ==
    \/ StartSearch
    \/ \E n \in Txn : VisitRoot(n)
    \/ \E n \in Txn : FollowEdge(n)
    \/ Leave
    \/ NoCycleFound
    \/ PopFront
    \/ \E e \in Txn \X Txn : DropEdge(e)
    \/ Sorted

Next == Build \/ Work

\* The functions run to their end once they are called.
Spec == Init /\ [][Next]_vars /\ WF_vars(Work)

-----------------------------------------------------------------------------
\* The colours tell the truth about the recursion in every order of the hash
\* sets: gray are exactly the active calls, each reached by an edge from its
\* caller, and no edge leads from a finished node back to a white or gray one
\* (so a black node never needs a second visit).
ColoursMeanCalls ==
    pc = "search" =>
        /\ black = nodes \ (white \union gray) /\ white \intersect gray = {}
        /\ gray = {stack[i].node : i \in DOMAIN stack}
        /\ \A i \in 1 .. Len(stack) - 1 :
             <<stack[i].node, stack[i + 1].node>> \in edges
        /\ \A n \in black : successors(n) \subseteq black

\* has_cycle answers what the reference definition of acyclicity says, for
\* self-loops, for unconnected parts and for every iteration order.
VerdictCorrect ==
    pc \in {"sort", "done"} => (verdict <=> ~ IsAcyclic(nodes, edges))

Position(n) == {i \in DOMAIN result : result[i] = n}

\* The counters of topological_sort count exactly the edges from nodes not
\* yet output (or being processed), so the unsigned decrement cannot
\* underflow; and a node is queued or output once, when its count is zero.
CountersExact ==
    pc \in {"sort", "done"} =>
        /\ \A n \in nodes :
             in_degree[n] = Cardinality({e \in edges : e[2] = n /\
                                           (Position(e[1]) = {} \/ e \in todo)})
        /\ \A n \in nodes :
             Cardinality(Position(n)) + Cardinality({i \in DOMAIN queue : queue[i] = n})
                = IF in_degree[n] = 0 THEN 1 ELSE 0

\* The nodes that lie on a cycle or are reached from one: the largest set of
\* nodes that each have a predecessor in the set.
Unsortable ==
    UNION {S \in SUBSET nodes : \A m \in S : \E n \in S : <<n, m>> \in edges}

\* The sort of an acyclic graph is a serial order: it has every transaction
\* once, after all its predecessors.  Of a cyclic graph it silently yields
\* exactly the transactions that no cycle leads to.
SortCorrect ==
    pc = "done" =>
        /\ ToSet(result) = nodes \ Unsortable
        /\ \A i, j \in DOMAIN result :
             /\ result[i] = result[j] => i = j
             /\ <<result[i], result[j]>> \in edges => i < j

\* Once started, the search and the sort come to an end, whatever the graph,
\* without a panic: no node is visited, queued or counted down so often that
\* a counter underflows or a loop stays with it.
Terminates == pc = "search" ~> pc = "done"
=============================================================================
