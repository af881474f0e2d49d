----------------------- MODULE PrecedenceGraphProofs -----------------------
(***************************************************************************)
(* TLAPS proofs about the precedence graph, for any transactions and any   *)
(* number of edges: the depth-first search decides acyclicity and Kahn's   *)
(* algorithm yields the serial order, in every iteration order of the hash *)
(* sets.                                                                   *)
(***************************************************************************)
EXTENDS PrecedenceGraph, SchedulesProofs, FiniteSetTheorems, SequenceTheorems

Call == [node : nodes, todo : SUBSET nodes]

(***************************************************************************)
(* What holds between all steps.                                           *)
(***************************************************************************)
GraphInv ==
    /\ edges \subseteq nodes \X nodes /\ IsFiniteSet(nodes) /\ IsFiniteSet(edges)
    /\ pc \in {"build", "search", "sort", "done"}
    /\ pc = "build" => stack = <<>>
    /\ pc \in {"build", "search"} => result = <<>> /\ todo = {}

\* Every node has one colour.
Coloured ==
    /\ white \union gray \union black = nodes
    /\ white \intersect gray = {} /\ white \intersect black = {} /\ gray \intersect black = {}

\* The active calls: a path of distinct nodes.  The edges a call has looked
\* at lead to finished nodes, but for the one to the next call.
CallsPath ==
    /\ stack \in Seq(Call)
    /\ \A i, j \in DOMAIN stack : stack[i].node = stack[j].node => i = j
    /\ \A i \in 1 .. Len(stack) - 1 : <<stack[i].node, stack[i + 1].node>> \in edges

CallsSeen ==
    \A i \in DOMAIN stack :
        /\ stack[i].todo \subseteq successors(stack[i].node)
        /\ \A m \in successors(stack[i].node) \ stack[i].todo :
             m \in black \/ (i < Len(stack) /\ m = stack[i + 1].node)

\* No edge leaves the finished nodes, and no cycle is among them.
Finalised ==
    /\ \A n \in black : successors(n) \subseteq black
    /\ IsAcyclic(black, edges)

\* The loop of has_cycle leaves no white node behind it.
RootsSeen == roots \subseteq nodes /\ white \subseteq roots

GrayAreCalls == gray = {stack[i].node : i \in DOMAIN stack}

SearchInv ==
    pc = "search" =>
        Coloured /\ GrayAreCalls /\ CallsPath /\ CallsSeen /\ Finalised /\ RootsSeen

-----------------------------------------------------------------------------
(* Lemmas about lists and graphs.                                          *)

\* The list without its last element.
LEMMA FrontProperties ==
    ASSUME NEW S, NEW s \in Seq(S), s # <<>>
    PROVE  /\ Front(s) \in Seq(S)
           /\ Len(s) \in Nat \ {0} /\ DOMAIN s = 1 .. Len(s)
           /\ Len(Front(s)) = Len(s) - 1 /\ DOMAIN Front(s) = 1 .. Len(s) - 1
           /\ \A i \in 1 .. Len(s) - 1 : Front(s)[i] = s[i]
           /\ Last(s) = s[Len(s)] /\ Last(s) \in S
<1>1. Len(s) \in Nat /\ DOMAIN s = 1 .. Len(s)
  BY LenProperties
<1>2. Len(s) # 0
  BY EmptySeq
<1>3. \A i \in 1 .. Len(s) : s[i] \in S
  BY ElementOfSeq
<1>4. /\ SubSeq(s, 1, Len(s) - 1) \in Seq(S)
      /\ Len(SubSeq(s, 1, Len(s) - 1)) = IF 1 <= Len(s) - 1 THEN Len(s) - 1 - 1 + 1 ELSE 0
      /\ \A i \in 1 .. Len(s) - 1 - 1 + 1 : SubSeq(s, 1, Len(s) - 1)[i] = s[1 + i - 1]
  <2>1. 1 \in Int /\ Len(s) - 1 \in Int /\ \A j \in 1 .. Len(s) - 1 : s[j] \in S
    BY <1>1, <1>3
  <2>2. QED BY <2>1, SubSeqProperties
<1>5. Len(Front(s)) = Len(s) - 1 /\ Front(s) \in Seq(S)
  BY <1>1, <1>2, <1>4 DEF Front
<1>6. \A i \in 1 .. Len(s) - 1 : Front(s)[i] = s[i]
  BY <1>1, <1>4 DEF Front
<1>7. DOMAIN Front(s) = 1 .. Len(s) - 1
  BY <1>5, LenProperties
<1>8. QED BY <1>1, <1>2, <1>3, <1>5, <1>6, <1>7 DEF Last

\* The list with its last element replaced.
LEMMA ReplaceLast ==
    ASSUME NEW S, NEW s \in Seq(S), s # <<>>, NEW x \in S
    PROVE  /\ Append(Front(s), x) \in Seq(S)
           /\ Len(Append(Front(s), x)) = Len(s)
           /\ DOMAIN Append(Front(s), x) = DOMAIN s
           /\ \A i \in DOMAIN s :
                Append(Front(s), x)[i] = IF i = Len(s) THEN x ELSE s[i]
<1> DEFINE t == Front(s)
           k == Len(s)
           u == Append(t, x)
<1>1. /\ t \in Seq(S) /\ k \in Nat \ {0} /\ DOMAIN s = 1 .. k
      /\ Len(t) = k - 1
      /\ \A i \in 1 .. k - 1 : t[i] = s[i]
  BY FrontProperties
<1> HIDE DEF t, k
<1>2. /\ u \in Seq(S)
      /\ Len(u) = Len(t) + 1
      /\ \A i \in 1 .. Len(t) : u[i] = t[i]
      /\ u[Len(t) + 1] = x
  <2>1. t \in Seq(S) /\ x \in S
    BY <1>1
  <2>2. QED BY ONLY <2>1, AppendProperties
<1> HIDE DEF u
<1>3. Len(u) = k /\ u[k] = x /\ \A i \in 1 .. k - 1 : u[i] = s[i]
  BY <1>1, <1>2
<1>4. DOMAIN u = 1 .. k
  BY <1>2, <1>3, LenProperties
<1>5. \A i \in 1 .. k : i = k \/ i \in 1 .. k - 1
  BY <1>1
<1>6. QED BY <1>1, <1>2, <1>3, <1>4, <1>5 DEF t, u, k

LEMMA SuccessorsAreNodes ==
    ASSUME GraphInv, NEW n
    PROVE  /\ successors(n) \subseteq nodes
           /\ \A m : m \in successors(n) <=> <<n, m>> \in edges
<1>1. \A e \in edges : e = <<e[1], e[2]>> /\ e[2] \in nodes
  BY DEF GraphInv
<1>2. QED BY <1>1 DEF successors

\* A node that is finished last lies on no cycle: no edge of the graph leads
\* from it to itself or to it from the nodes finished before.
LEMMA AcyclicWithNode ==
    ASSUME NEW B, NEW E, NEW n, IsAcyclic(B, E),
           \A m \in B \union {n} : <<m, n>> \notin E
    PROVE  IsAcyclic(B \union {n}, E)
<1> SUFFICES ASSUME NEW S \in SUBSET (B \union {n}), S # {}
             PROVE  \E m \in S : \A l \in S : <<l, m>> \notin E
  BY DEF IsAcyclic
<1>1. CASE n \in S
  BY <1>1
<1>2. CASE n \notin S
  <2>1. S \in SUBSET B
    BY <1>2
  <2>2. QED BY <2>1 DEF IsAcyclic
<1>3. QED BY <1>1, <1>2

\* An edge from the last node of a path back to one of its nodes closes a
\* cycle.
LEMMA PathCloses ==
    ASSUME NEW N, NEW E, NEW k \in Nat, NEW path \in [1 .. k -> N],
           \A i \in 1 .. k - 1 : <<path[i], path[i + 1]>> \in E,
           NEW p \in 1 .. k, <<path[k], path[p]>> \in E
    PROVE  ~ IsAcyclic(N, E)
<1> DEFINE S == {path[i] : i \in p .. k}
<1>1. S \in SUBSET N /\ path[p] \in S
  <2>1. \A i \in p .. k : i \in 1 .. k
    OBVIOUS
  <2>2. p \in p .. k
    OBVIOUS
  <2>3. QED BY <2>1, <2>2
<1>2. \A m \in S : \E n \in S : <<n, m>> \in E
  <2> SUFFICES ASSUME NEW i \in p .. k PROVE \E n \in S : <<n, path[i]>> \in E
    OBVIOUS
  <2>1. CASE i = p
    <3>1. k \in p .. k
      OBVIOUS
    <3>2. QED BY <2>1, <3>1
  <2>2. CASE i # p
    <3>1. i - 1 \in p .. k /\ i - 1 \in 1 .. k - 1 /\ (i - 1) + 1 = i
      BY <2>2
    <3>2. <<path[i - 1], path[i]>> \in E
      BY <3>1
    <3>3. QED BY <3>1, <3>2
  <2>3. QED BY <2>1, <2>2
<1> HIDE DEF S
<1>3. QED BY <1>1, <1>2 DEF IsAcyclic

-----------------------------------------------------------------------------
(* The search.                                                             *)

\* A call ends or begins only at the top of the stack: what a call below
\* has seen stays as it was.
LEMMA EnterFromRoot ==
    ASSUME GraphInv, SearchInv, NEW n \in Txn, VisitRoot(n)
    PROVE  SearchInv'
<1> DEFINE c == [node |-> n, todo |-> successors(n)]
<1>1. /\ pc = "search" /\ stack = <<>> /\ n \in roots
      /\ roots' = roots \ {n} /\ nodes' = nodes /\ edges' = edges /\ black' = black
      /\ Coloured /\ GrayAreCalls /\ CallsPath /\ CallsSeen /\ Finalised /\ RootsSeen
  BY DEF VisitRoot, SearchInv, graphVars
<1>2. \A m : successors(m)' = successors(m)
  BY <1>1 DEF successors
<1>3. Finalised'
  BY <1>1, <1>2 DEF Finalised
<1>4. CASE n \notin white
  <2>1. white' = white /\ gray' = gray /\ stack' = stack
    BY <1>4 DEF VisitRoot
  <2>2. Coloured' /\ GrayAreCalls' /\ RootsSeen'
    BY <1>1, <1>4, <2>1 DEF Coloured, GrayAreCalls, RootsSeen
  <2>3. CallsPath' /\ CallsSeen'
    BY <1>1, <2>1 DEF CallsPath, CallsSeen, Call
  <2>4. QED BY <1>3, <2>2, <2>3 DEF SearchInv
<1>5. CASE n \in white
  <2>1. white' = white \ {n} /\ gray' = gray \union {n} /\ stack' = <<c>>
    <3>1. stack' = Append(<<>>, c)
      BY <1>1, <1>5 DEF VisitRoot, Enter
    <3>2. QED BY <1>5, <3>1 DEF VisitRoot, Enter
  <2>2. Coloured' /\ RootsSeen'
    BY <1>1, <1>5, <2>1 DEF Coloured, RootsSeen
  <2>3. c \in Call /\ c.node = n /\ c.todo = successors(n)
    BY <1>1, SuccessorsAreNodes DEF Call, RootsSeen
  <2> HIDE DEF c
  <2>4. gray = {}
    BY <1>1 DEF GrayAreCalls
  <2>5. DOMAIN stack' = {1} /\ stack'[1] = c /\ Len(stack') = 1
    BY <2>1
  <2>6. GrayAreCalls'
    BY <2>1, <2>3, <2>4, <2>5 DEF GrayAreCalls
  <2>7. CallsPath'
    BY <1>1, <2>1, <2>3, <2>5 DEF CallsPath, Call
  <2>8. CallsSeen'
    BY <1>2, <2>3, <2>5 DEF CallsSeen
  <2>9. QED BY <1>3, <2>2, <2>6, <2>7, <2>8 DEF SearchInv
<1>6. QED BY <1>4, <1>5

\* What an active call knows of the calls above it.
LEMMA TopCall ==
    ASSUME GraphInv, SearchInv, pc = "search", stack # <<>>
    PROVE  /\ Len(stack) \in Nat \ {0} /\ DOMAIN stack = 1 .. Len(stack)
           /\ stack \in Seq(Call)
           /\ Last(stack) = stack[Len(stack)] /\ Last(stack) \in Call
           /\ Last(stack).todo \subseteq successors(Last(stack).node)
           /\ \A m \in successors(Last(stack).node) \ Last(stack).todo : m \in black
           /\ Last(stack).node \in gray
<1>1. stack \in Seq(Call)
  BY DEF SearchInv, CallsPath
<1>2. /\ Len(stack) \in Nat \ {0} /\ DOMAIN stack = 1 .. Len(stack)
      /\ Last(stack) = stack[Len(stack)] /\ Last(stack) \in Call
  BY <1>1, FrontProperties
<1>3. Len(stack) \in DOMAIN stack /\ ~ (Len(stack) < Len(stack))
  BY <1>2
<1>4. /\ Last(stack).todo \subseteq successors(Last(stack).node)
      /\ \A m \in successors(Last(stack).node) \ Last(stack).todo : m \in black
  BY <1>2, <1>3 DEF SearchInv, CallsSeen
<1>5. Last(stack).node \in gray
  BY <1>2, <1>3 DEF SearchInv, GrayAreCalls
<1>6. QED BY <1>1, <1>2, <1>4, <1>5

\* The last call is done: its node has only finished successors.
LEMMA LeaveStep ==
    ASSUME GraphInv, SearchInv, Leave
    PROVE  SearchInv'
<1> DEFINE top == Last(stack)
           k == Len(stack)
<1>1. /\ pc = "search" /\ stack # <<>> /\ top.todo = {}
      /\ gray' = gray \ {top.node} /\ black' = black \union {top.node}
      /\ stack' = Front(stack)
      /\ nodes' = nodes /\ edges' = edges /\ roots' = roots /\ white' = white
      /\ Coloured /\ GrayAreCalls /\ CallsPath /\ CallsSeen /\ Finalised /\ RootsSeen
  BY DEF Leave, SearchInv, graphVars
<1>2. \A m : successors(m)' = successors(m)
  BY <1>1 DEF successors
<1>3. /\ k \in Nat \ {0} /\ DOMAIN stack = 1 .. k
      /\ top = stack[k]
      /\ successors(top.node) \subseteq black
      /\ top.node \in gray
  BY <1>1, TopCall
<1>4. /\ stack' \in Seq(Call) /\ Len(stack') = k - 1 /\ DOMAIN stack' = 1 .. k - 1
      /\ \A i \in 1 .. k - 1 : stack'[i] = stack[i]
  BY <1>1, FrontProperties DEF CallsPath
<1> HIDE DEF top, k
<1>5. Coloured' /\ RootsSeen'
  BY <1>1, <1>3 DEF Coloured, RootsSeen
<1>6. GrayAreCalls'
  <2>1. \A i \in 1 .. k - 1 : stack[i].node # top.node
    BY <1>1, <1>3 DEF CallsPath
  <2>2. \A i \in DOMAIN stack : i \in 1 .. k - 1 \/ i = k
    BY <1>3
  <2>3. QED BY <1>1, <1>3, <1>4, <2>1, <2>2 DEF GrayAreCalls
<1>7. CallsPath'
  <2>1. Call' = Call
    BY <1>1 DEF Call
  <2>2. \A i \in 1 .. k - 1 - 1 : i \in 1 .. k - 1 /\ i + 1 \in 1 .. k - 1
    BY <1>3
  <2>3. \A i \in 1 .. k - 1 : i \in DOMAIN stack
    BY <1>3
  <2>4. QED BY <1>1, <1>4, <2>1, <2>2, <2>3 DEF CallsPath, k
<1>8. CallsSeen'
  <2> SUFFICES ASSUME NEW i \in 1 .. k - 1
               PROVE  /\ stack[i].todo \subseteq successors(stack[i].node)
                      /\ \A m \in successors(stack[i].node) \ stack[i].todo :
                           m \in black' \/ (i < k - 1 /\ m = stack[i + 1].node)
    BY <1>2, <1>4 DEF CallsSeen
  <2>1. i \in DOMAIN stack /\ (i < k - 1 \/ i + 1 = k)
    BY <1>3
  <2>2. QED BY <1>1, <1>3, <2>1 DEF CallsSeen
<1>9. Finalised'
  <2>1. \A n \in black' : successors(n) \subseteq black'
    BY <1>1, <1>3 DEF Finalised
  <2>2. top.node \notin black
    BY <1>1, <1>3 DEF Coloured
  <2>3. \A m \in black \union {top.node} : <<m, top.node>> \notin edges
    <3>1. \A m : <<m, top.node>> \in edges => top.node \in successors(m)
      BY SuccessorsAreNodes
    <3>2. QED BY <1>1, <1>3, <2>2, <3>1 DEF Finalised
  <2>4. IsAcyclic(black', edges)
    BY <1>1, <2>3, AcyclicWithNode DEF Finalised
  <2>5. QED BY <1>1, <1>2, <2>1, <2>4 DEF Finalised
<1>10. QED BY <1>5, <1>6, <1>7, <1>8, <1>9 DEF SearchInv

\* An edge to a gray node leads back into the path of the active calls.
LEMMA GrayClosesCycle ==
    ASSUME GraphInv, SearchInv, pc = "search", stack # <<>>,
           NEW to \in Last(stack).todo, to \in gray
    PROVE  ~ IsAcyclic(nodes, edges)
<1> DEFINE k == Len(stack)
           path == [i \in 1 .. k |-> stack[i].node]
<1>1. /\ k \in Nat \ {0} /\ DOMAIN stack = 1 .. k /\ stack \in Seq(Call)
      /\ Last(stack) = stack[k]
      /\ to \in successors(Last(stack).node)
  BY TopCall
<1>2. \A i \in 1 .. k : stack[i] \in Call
  BY <1>1, ElementOfSeq
<1>3. PICK p \in 1 .. k : to = stack[p].node
  BY <1>1 DEF SearchInv, GrayAreCalls
<1>4. path \in [1 .. k -> nodes]
  BY <1>2 DEF Call
<1>5. \A i \in 1 .. k - 1 : <<path[i], path[i + 1]>> \in edges
  <2>1. \A i \in 1 .. k - 1 : i \in 1 .. k /\ i + 1 \in 1 .. k
    BY <1>1
  <2>2. QED BY <2>1 DEF SearchInv, CallsPath
<1>6. <<path[k], path[p]>> \in edges
  <2>1. k \in 1 .. k
    BY <1>1
  <2>2. QED BY <1>1, <1>3, <2>1, SuccessorsAreNodes
<1> HIDE DEF path, k
<1>7. QED BY <1>1, <1>4, <1>5, <1>6, PathCloses

\* The top call has looked at one more of its edges, which leads to a
\* finished node.
LEMMA FollowBlack ==
    ASSUME GraphInv, SearchInv, NEW to \in Txn, FollowEdge(to),
           to \notin gray, to \notin white
    PROVE  SearchInv'
<1> DEFINE top == Last(stack)
           k == Len(stack)
           c == [top EXCEPT !.todo = @ \ {to}]
<1>1. /\ pc = "search" /\ stack # <<>> /\ to \in top.todo
      /\ gray' = gray /\ white' = white /\ black' = black
      /\ stack' = Append(Front(stack), c)
      /\ nodes' = nodes /\ edges' = edges /\ roots' = roots /\ pc' = pc
      /\ Coloured /\ GrayAreCalls /\ CallsPath /\ CallsSeen /\ Finalised /\ RootsSeen
  BY DEF FollowEdge, SearchInv, graphVars, ClosesCycle, Advanced
<1>2. \A m : successors(m)' = successors(m)
  BY <1>1 DEF successors
<1>3. /\ k \in Nat \ {0} /\ DOMAIN stack = 1 .. k
      /\ stack \in Seq(Call) /\ top = stack[k] /\ top \in Call
      /\ top.todo \subseteq successors(top.node)
      /\ \A m \in successors(top.node) \ top.todo : m \in black
  BY <1>1, TopCall
<1>4. c \in Call /\ c.node = top.node /\ c.todo = top.todo \ {to}
  BY <1>3 DEF Call
<1>5. to \in black
  BY <1>1, <1>3, SuccessorsAreNodes DEF Coloured
<1> HIDE DEF c, top
<1>6. /\ stack' \in Seq(Call) /\ Len(stack') = k /\ DOMAIN stack' = 1 .. k
      /\ \A i \in 1 .. k : stack'[i] = IF i = k THEN c ELSE stack[i]
  <2>1. stack \in Seq(Call) /\ stack # <<>> /\ c \in Call
    BY <1>1, <1>3, <1>4
  <2> DEFINE u == Append(Front(stack), c)
  <2>2. /\ u \in Seq(Call) /\ Len(u) = Len(stack) /\ DOMAIN u = DOMAIN stack
        /\ \A i \in DOMAIN stack : u[i] = IF i = Len(stack) THEN c ELSE stack[i]
    BY ONLY <2>1, ReplaceLast
  <2> HIDE DEF u
  <2>3. stack' = u
    BY <1>1 DEF u
  <2>4. QED BY <1>3, <2>2, <2>3
<1>7. \A i \in 1 .. k : stack'[i].node = stack[i].node
  BY <1>3, <1>4, <1>6
<1> HIDE DEF k
<1>8. Coloured' /\ RootsSeen' /\ Finalised'
  BY <1>1, <1>2 DEF Coloured, RootsSeen, Finalised
<1>9. GrayAreCalls'
  BY <1>1, <1>3, <1>6, <1>7 DEF GrayAreCalls
<1>10. CallsPath'
  <2>1. Call' = Call
    BY <1>1 DEF Call
  <2>2. \A i \in 1 .. k - 1 : i \in 1 .. k /\ i + 1 \in 1 .. k
    BY <1>3
  <2>3. QED BY <1>1, <1>3, <1>6, <1>7, <2>1, <2>2 DEF CallsPath, k
<1>11. CallsSeen'
  <2> SUFFICES ASSUME NEW i \in 1 .. k
               PROVE  /\ stack'[i].todo \subseteq successors(stack[i].node)
                      /\ \A m \in successors(stack[i].node) \ stack'[i].todo :
                           m \in black \/ (i < k /\ m = stack'[i + 1].node)
    BY <1>1, <1>2, <1>6, <1>7 DEF CallsSeen
  <2>1. CASE i = k
    BY <1>3, <1>4, <1>5, <1>6, <2>1
  <2>2. CASE i # k
    <3>1. i < k /\ i + 1 \in 1 .. k
      BY <1>3, <2>2
    <3>2. stack'[i + 1].node = stack[i + 1].node /\ stack'[i] = stack[i]
      BY <1>6, <1>7, <2>2, <3>1
    <3>3. QED BY <1>1, <1>3, <3>1, <3>2 DEF CallsSeen, k
  <2>3. QED BY <2>1, <2>2
<1>12. QED BY <1>8, <1>9, <1>10, <1>11 DEF SearchInv

\* The top call has looked at one more of its edges and calls itself for the
\* white node it leads to.
LEMMA FollowWhite ==
    ASSUME GraphInv, SearchInv, NEW to \in Txn, FollowEdge(to),
           to \notin gray, to \in white
    PROVE  SearchInv'
<1> DEFINE top == Last(stack)
           k == Len(stack)
           c == [top EXCEPT !.todo = @ \ {to}]
           d == [node |-> to, todo |-> successors(to)]
<1>1. /\ pc = "search" /\ stack # <<>> /\ to \in top.todo
      /\ gray' = gray \union {to} /\ white' = white \ {to} /\ black' = black
      /\ stack' = Append(Append(Front(stack), c), d)
      /\ nodes' = nodes /\ edges' = edges /\ roots' = roots /\ pc' = pc
      /\ Coloured /\ GrayAreCalls /\ CallsPath /\ CallsSeen /\ Finalised /\ RootsSeen
  BY DEF FollowEdge, SearchInv, graphVars, ClosesCycle, Advanced, Enter
<1>2. \A m : successors(m)' = successors(m)
  BY <1>1 DEF successors
<1>3. /\ k \in Nat \ {0} /\ DOMAIN stack = 1 .. k
      /\ stack \in Seq(Call) /\ top = stack[k] /\ top \in Call
      /\ top.todo \subseteq successors(top.node)
      /\ \A m \in successors(top.node) \ top.todo : m \in black
  BY <1>1, TopCall
<1>4. c \in Call /\ c.node = top.node /\ c.todo = top.todo \ {to}
  BY <1>3 DEF Call
<1>5. d \in Call /\ d.node = to /\ d.todo = successors(to)
  BY <1>1, <1>3, SuccessorsAreNodes DEF Call
<1>6. <<top.node, to>> \in edges
  BY <1>1, <1>3, SuccessorsAreNodes
<1> HIDE DEF c, d, top
<1> DEFINE u == Append(Front(stack), c)
<1>7. /\ u \in Seq(Call) /\ Len(u) = k
      /\ \A i \in 1 .. k : u[i] = IF i = k THEN c ELSE stack[i]
  <2>1. stack \in Seq(Call) /\ stack # <<>> /\ c \in Call
    BY <1>1, <1>3, <1>4
  <2>2. /\ u \in Seq(Call) /\ Len(u) = Len(stack) /\ DOMAIN u = DOMAIN stack
        /\ \A i \in DOMAIN stack : u[i] = IF i = Len(stack) THEN c ELSE stack[i]
    BY ONLY <2>1, ReplaceLast
  <2> HIDE DEF u
  <2>3. QED BY <1>3, <2>2
<1>8. /\ stack' \in Seq(Call) /\ Len(stack') = k + 1 /\ stack'[k + 1] = d
      /\ \A i \in 1 .. k : stack'[i] = u[i]
  <2> DEFINE w == Append(u, d)
  <2> HIDE DEF u
  <2>1. u \in Seq(Call) /\ d \in Call
    BY <1>5, <1>7
  <2>2. /\ w \in Seq(Call) /\ Len(w) = Len(u) + 1
        /\ \A i \in 1 .. Len(u) : w[i] = u[i]
        /\ w[Len(u) + 1] = d
    BY ONLY <2>1, AppendProperties
  <2>3. stack' = w
    BY <1>1 DEF u
  <2> HIDE DEF w
  <2>4. QED BY <1>7, <2>2, <2>3
<1> HIDE DEF u
<1> HIDE DEF k
<1>9. DOMAIN stack' = 1 .. k + 1
  BY <1>8, LenProperties
<1>10. /\ \A i \in 1 .. k : stack'[i].node = stack[i].node
       /\ \A i \in 1 .. k : i # k => stack'[i] = stack[i]
       /\ stack'[k].todo = top.todo \ {to}
       /\ stack'[k + 1].node = to /\ stack'[k + 1].todo = successors(to)
  BY <1>3, <1>4, <1>5, <1>7, <1>8
<1>11. \A i \in 1 .. k + 1 : i = k + 1 \/ i \in 1 .. k
  BY <1>3
<1>12. Coloured' /\ RootsSeen' /\ Finalised'
  BY <1>1, <1>2 DEF Coloured, RootsSeen, Finalised
<1>13. GrayAreCalls'
  <2>1. k + 1 \in 1 .. k + 1 /\ \A i \in 1 .. k : i \in 1 .. k + 1
    BY <1>3
  <2>2. QED BY <1>1, <1>3, <1>9, <1>10, <1>11, <2>1 DEF GrayAreCalls
<1>14. CallsPath'
  <2>1. Call' = Call
    BY <1>1 DEF Call
  <2>2. \A i, j \in 1 .. k + 1 : stack'[i].node = stack'[j].node => i = j
    <3>1. \A i \in 1 .. k : stack[i].node # to
      BY <1>1, <1>3 DEF GrayAreCalls
    <3>2. \A i, j \in 1 .. k : stack[i].node = stack[j].node => i = j
      BY <1>1, <1>3 DEF CallsPath
    <3>3. QED BY <1>10, <1>11, <3>1, <3>2
  <2>3. ASSUME NEW i \in 1 .. (k + 1) - 1
        PROVE  <<stack'[i].node, stack'[i + 1].node>> \in edges
    <3>1. i \in 1 .. k
      BY <1>3
    <3>2. CASE i = k
      BY <1>3, <1>6, <1>10, <3>1, <3>2
    <3>3. CASE i # k
      <4>1. i \in 1 .. k - 1 /\ i + 1 \in 1 .. k
        BY <1>3, <3>3
      <4>2. QED BY <1>1, <1>10, <3>1, <4>1 DEF CallsPath, k
    <3>4. QED BY <3>2, <3>3
  <2>4. QED BY <1>1, <1>8, <1>9, <2>1, <2>2, <2>3 DEF CallsPath
<1>15. CallsSeen'
  <2> SUFFICES ASSUME NEW i \in 1 .. k + 1
               PROVE  /\ stack'[i].todo \subseteq successors(stack'[i].node)
                      /\ \A m \in successors(stack'[i].node) \ stack'[i].todo :
                           m \in black \/ (i < k + 1 /\ m = stack'[i + 1].node)
    BY <1>1, <1>2, <1>8, <1>9 DEF CallsSeen
  <2>1. CASE i = k + 1
    BY <1>10, <2>1
  <2>2. CASE i = k
    <3>1. k \in 1 .. k /\ k < k + 1
      BY <1>3
    <3>2. QED BY <1>3, <1>10, <2>2, <3>1
  <2>3. CASE i # k /\ i # k + 1
    <3>1. i \in 1 .. k /\ i < k /\ i < k + 1 /\ i + 1 \in 1 .. k
      BY <1>3, <2>3
    <3>2. stack'[i + 1].node = stack[i + 1].node /\ stack'[i] = stack[i]
      BY <1>10, <2>3, <3>1
    <3>3. QED BY <1>1, <1>3, <3>1, <3>2 DEF CallsSeen, k
  <2>4. QED BY <2>1, <2>2, <2>3
<1>16. QED BY <1>12, <1>13, <1>14, <1>15 DEF SearchInv

VerdictInv == pc \in {"sort", "done"} => (verdict <=> ~ IsAcyclic(nodes, edges))

FinalSearchInv == GraphInv /\ SearchInv /\ VerdictInv

\* The search begins with all nodes white.
LEMMA SearchStarts ==
    ASSUME GraphInv, StartSearch
    PROVE  SearchInv'
<1>1. /\ stack = <<>> /\ stack' = stack /\ nodes' = nodes /\ edges' = edges
      /\ white' = nodes /\ gray' = {} /\ black' = {} /\ roots' = nodes
  BY DEF StartSearch, GraphInv, graphVars
<1>2. Coloured' /\ GrayAreCalls' /\ RootsSeen'
  BY <1>1 DEF Coloured, GrayAreCalls, RootsSeen
<1>3. stack' \in Seq(Call') /\ DOMAIN stack' = {} /\ Len(stack') = 0
  BY <1>1
<1>4. CallsPath'
  BY <1>3 DEF CallsPath
<1>5. CallsSeen'
  BY <1>3 DEF CallsSeen
<1>6. Finalised'
  BY <1>1 DEF Finalised, IsAcyclic
<1>7. QED BY <1>2, <1>4, <1>5, <1>6 DEF SearchInv

\* When no call is active and no node is left, all are finished.
LEMMA NoneLeft ==
    ASSUME SearchInv, pc = "search", stack = <<>>, roots = {}
    PROVE  IsAcyclic(nodes, edges)
<1>1. gray = {} /\ white = {}
  BY DEF SearchInv, GrayAreCalls, RootsSeen
<1>2. black = nodes
  BY <1>1 DEF SearchInv, Coloured
<1>3. QED BY <1>2 DEF SearchInv, Finalised

LEMMA GraphStarts == Init => GraphInv /\ SearchInv /\ VerdictInv
<1>1. IsFiniteSet({})
  BY FS_EmptySet
<1>2. QED BY <1>1 DEF Init, GraphInv, SearchInv, VerdictInv

LEMMA GraphStep == GraphInv /\ [Next]_vars => GraphInv'
<1> SUFFICES ASSUME GraphInv, [Next]_vars PROVE GraphInv'
  OBVIOUS
<1> USE DEF GraphInv
<1>1. ASSUME NEW n \in Txn, add_node(n) PROVE GraphInv'
  <2>1. IsFiniteSet(nodes')
    BY <1>1, FS_AddElement DEF add_node
  <2>2. QED BY <1>1, <2>1 DEF add_node, searchVars, sortVars
<1>2. ASSUME NEW n \in Txn, NEW m \in Txn, add_edge(n, m) PROVE GraphInv'
  <2>1. IsFiniteSet(nodes \union {n}) /\ IsFiniteSet((nodes \union {n}) \union {m})
    BY FS_AddElement
  <2>2. nodes' = (nodes \union {n}) \union {m} /\ edges' = edges \union {<<n, m>>}
    BY <1>2 DEF add_edge
  <2>3. IsFiniteSet(edges')
    BY <2>2, FS_AddElement
  <2>4. edges' \subseteq nodes' \X nodes'
    BY <2>2
  <2>5. pc' = pc /\ stack' = stack /\ result' = result /\ todo' = todo
    BY <1>2 DEF add_edge, searchVars, sortVars
  <2>6. QED BY <2>1, <2>2, <2>3, <2>4, <2>5
<1>3. CASE StartSearch
  BY <1>3 DEF StartSearch, graphVars, sortVars
<1>4. ASSUME NEW n \in Txn, VisitRoot(n) PROVE GraphInv'
  BY <1>4 DEF VisitRoot, graphVars, sortVars
<1>5. ASSUME NEW n \in Txn, FollowEdge(n) PROVE GraphInv'
  BY <1>5 DEF FollowEdge, Return, graphVars, sortVars
<1>6. CASE Leave
  BY <1>6 DEF Leave, graphVars, sortVars
<1>7. CASE NoCycleFound
  BY <1>7 DEF NoCycleFound, Return, graphVars
<1>8. CASE PopFront
  BY <1>8 DEF PopFront, graphVars, searchVars
<1>9. ASSUME NEW e \in Txn \X Txn, DropEdge(e) PROVE GraphInv'
  BY <1>9 DEF DropEdge, graphVars, searchVars
<1>10. CASE Sorted
  BY <1>10 DEF Sorted, graphVars, searchVars, sortVars
<1>11. CASE UNCHANGED vars
  BY <1>11 DEF vars, graphVars, searchVars, sortVars
<1>12. QED
  BY <1>1, <1>2, <1>3, <1>4, <1>5, <1>6, <1>7, <1>8, <1>9, <1>10, <1>11
  DEF Next, Build, Work

LEMMA SearchStep == FinalSearchInv /\ [Next]_vars => SearchInv' /\ VerdictInv'
<1> SUFFICES ASSUME GraphInv, SearchInv, VerdictInv, [Next]_vars
             PROVE  SearchInv' /\ VerdictInv'
  BY DEF FinalSearchInv
<1>1. ASSUME NEW n \in Txn, add_node(n) PROVE SearchInv' /\ VerdictInv'
  BY <1>1 DEF add_node, SearchInv, VerdictInv
<1>2. ASSUME NEW n \in Txn, NEW m \in Txn, add_edge(n, m) PROVE SearchInv' /\ VerdictInv'
  BY <1>2 DEF add_edge, SearchInv, VerdictInv
<1>3. CASE StartSearch
  BY <1>3, SearchStarts DEF StartSearch, VerdictInv
<1>4. ASSUME NEW n \in Txn, VisitRoot(n) PROVE SearchInv' /\ VerdictInv'
  BY <1>4, EnterFromRoot DEF VisitRoot, VerdictInv
<1>5. ASSUME NEW n \in Txn, FollowEdge(n) PROVE SearchInv' /\ VerdictInv'
  <2>1. CASE n \in gray
    <3>1. ~ IsAcyclic(nodes, edges)
      BY <1>5, <2>1, GrayClosesCycle DEF FollowEdge
    <3>2. pc' = "sort" /\ verdict' = TRUE /\ nodes' = nodes /\ edges' = edges
      BY <1>5, <2>1 DEF FollowEdge, ClosesCycle, Return, graphVars
    <3>3. QED BY <3>1, <3>2 DEF SearchInv, VerdictInv
  <2>2. CASE n \notin gray
    <3>1. pc' = "search"
      BY <1>5, <2>2 DEF FollowEdge, ClosesCycle
    <3>2. SearchInv'
      BY <1>5, <2>2, FollowBlack, FollowWhite
    <3>3. QED BY <3>1, <3>2 DEF VerdictInv
  <2>3. QED BY <2>1, <2>2
<1>6. CASE Leave
  BY <1>6, LeaveStep DEF Leave, VerdictInv
<1>7. CASE NoCycleFound
  <2>1. IsAcyclic(nodes, edges)
    BY <1>7, NoneLeft DEF NoCycleFound
  <2>2. pc' = "sort" /\ verdict' = FALSE /\ nodes' = nodes /\ edges' = edges
    BY <1>7 DEF NoCycleFound, Return, graphVars
  <2>3. QED BY <2>1, <2>2 DEF SearchInv, VerdictInv
<1>8. CASE PopFront \/ Sorted \/ \E e \in Txn \X Txn : DropEdge(e)
  <2>1. /\ pc \in {"sort"} /\ pc' \in {"sort", "done"}
        /\ verdict' = verdict /\ nodes' = nodes /\ edges' = edges
    BY <1>8 DEF PopFront, Sorted, DropEdge, graphVars, searchVars
  <2>2. QED BY <2>1 DEF SearchInv, VerdictInv
<1>9. CASE UNCHANGED vars
  <2>1. /\ pc' = pc /\ verdict' = verdict /\ nodes' = nodes /\ edges' = edges
        /\ white' = white /\ gray' = gray /\ black' = black /\ roots' = roots /\ stack' = stack
    BY <1>9 DEF vars, graphVars, searchVars
  <2>2. \A m : successors(m)' = successors(m)
    BY <2>1 DEF successors
  <2>3. QED
    BY <2>1, <2>2 DEF SearchInv, VerdictInv, Coloured, GrayAreCalls, CallsPath, CallsSeen,
                      Finalised, RootsSeen, Call
<1>10. QED
  BY <1>1, <1>2, <1>3, <1>4, <1>5, <1>6, <1>7, <1>8, <1>9 DEF Next, Build, Work

LEMMA SearchInvariant == Spec => []FinalSearchInv
<1>1. Init => FinalSearchInv
  BY GraphStarts DEF FinalSearchInv
<1>2. FinalSearchInv /\ [Next]_vars => FinalSearchInv'
  BY GraphStep, SearchStep DEF FinalSearchInv
<1>3. QED BY <1>1, <1>2, PTL DEF Spec

\* At every point of every search the gray nodes are exactly the active
\* calls, a path, and the finished nodes are closed under the edges.
THEOREM ColoursAlwaysMeanCalls == Spec => []ColoursMeanCalls
<1>1. FinalSearchInv => ColoursMeanCalls
  BY DEF FinalSearchInv, SearchInv, ColoursMeanCalls, Coloured, GrayAreCalls, CallsPath, Finalised
<1>2. QED BY <1>1, SearchInvariant, PTL

\* has_cycle decides whether the graph has a cycle.
THEOREM VerdictAlwaysCorrect == Spec => []VerdictCorrect
<1>1. FinalSearchInv => VerdictCorrect
  BY DEF FinalSearchInv, VerdictInv, VerdictCorrect
<1>2. QED BY <1>1, SearchInvariant, PTL

-----------------------------------------------------------------------------
(* The sort.                                                               *)

\* The edges that the counter of a node still counts.
Remaining(n) == {e \in edges : e[2] = n /\ (Position(e[1]) = {} \/ e \in todo)}

SortTypes ==
    /\ in_degree \in [nodes -> Nat]
    /\ queue \in Seq(nodes) /\ result \in Seq(nodes)
    /\ todo \subseteq edges /\ \A e \in todo : e[1] \in ToSet(result)

DegreesExact == \A n \in nodes : in_degree[n] = Cardinality(Remaining(n))

\* A node is queued or output once.
OnceEach ==
    /\ \A i, j \in DOMAIN queue : queue[i] = queue[j] => i = j
    /\ \A i, j \in DOMAIN result : result[i] = result[j] => i = j
    /\ ToSet(queue) \intersect ToSet(result) = {}

\* Queued or output are the nodes that no remaining edge enters.
QueuedAtZero ==
    ToSet(queue) \union ToSet(result) = {n \in nodes : in_degree[n] = 0}

\* A node is output after all its predecessors.
OutputInOrder ==
    \A e \in edges, i \in DOMAIN result :
        e[2] = result[i] => \E j \in DOMAIN result : j < i /\ result[j] = e[1]

SortInv ==
    pc \in {"sort", "done"} =>
        /\ SortTypes /\ DegreesExact /\ OnceEach /\ QueuedAtZero /\ OutputInOrder
        /\ pc = "done" => todo = {} /\ queue = <<>>

\* A list without repetitions loses its head.
LEMMA TailOnce ==
    ASSUME NEW S, NEW s \in Seq(S), s # <<>>,
           \A i, j \in DOMAIN s : s[i] = s[j] => i = j
    PROVE  /\ Tail(s) \in Seq(S)
           /\ Head(s) \in S /\ Head(s) \in ToSet(s)
           /\ ToSet(Tail(s)) = ToSet(s) \ {Head(s)}
           /\ \A i, j \in DOMAIN Tail(s) : Tail(s)[i] = Tail(s)[j] => i = j
<1> DEFINE k == Len(s)
           t == Tail(s)
<1>1. k \in Nat \ {0} /\ DOMAIN s = 1 .. k /\ Head(s) = s[1]
  BY LenProperties, EmptySeq
<1>2. /\ t \in Seq(S) /\ Head(s) \in S /\ Len(t) = k - 1
      /\ \A i \in 1 .. Len(t) : t[i] = s[i + 1]
  BY HeadTailProperties
<1> HIDE DEF t, k
<1>3. DOMAIN t = 1 .. k - 1
  BY <1>2, LenProperties
<1>4. \A i \in 1 .. k - 1 : i + 1 \in 1 .. k /\ i + 1 # 1 /\ t[i] = s[i + 1]
  BY <1>1, <1>2
<1>5. \A i \in 1 .. k : i = 1 \/ \E j \in 1 .. k - 1 : i = j + 1
  <2> SUFFICES ASSUME NEW i \in 1 .. k, i # 1 PROVE i - 1 \in 1 .. k - 1 /\ i = (i - 1) + 1
    OBVIOUS
  <2>1. QED BY <1>1
<1>6. ToSet(t) = ToSet(s) \ {s[1]}
  <2>1. 1 \in 1 .. k
    BY <1>1
  <2>2. ASSUME NEW i \in 1 .. k - 1 PROVE t[i] \in ToSet(s) /\ t[i] # s[1]
    <3>1. i + 1 \in 1 .. k /\ i + 1 # 1 /\ t[i] = s[i + 1]
      BY <1>4
    <3>2. QED BY <1>1, <2>1, <3>1 DEF ToSet
  <2>3. ASSUME NEW i \in 1 .. k, s[i] # s[1] PROVE s[i] \in ToSet(t)
    <3>1. PICK j \in 1 .. k - 1 : i = j + 1
      BY <1>5, <2>3
    <3>2. QED BY <1>3, <1>4, <3>1 DEF ToSet
  <2>4. QED BY <1>1, <1>3, <2>2, <2>3 DEF ToSet
<1>7. ASSUME NEW i \in 1 .. k - 1, NEW j \in 1 .. k - 1, t[i] = t[j] PROVE i = j
  <2>1. /\ i + 1 \in DOMAIN s /\ j + 1 \in DOMAIN s
        /\ t[i] = s[i + 1] /\ t[j] = s[j + 1]
    BY <1>1, <1>4
  <2>2. s[i + 1] = s[j + 1]
    BY <1>7, <2>1
  <2>3. i + 1 = j + 1
    BY <2>1, <2>2
  <2>4. QED BY <2>3
<1>8. Head(s) \in ToSet(s)
  BY <1>1 DEF ToSet
<1>9. QED BY <1>1, <1>2, <1>3, <1>6, <1>7, <1>8 DEF t

\* A list without repetitions gains an element.
LEMMA AppendOnce ==
    ASSUME NEW S, NEW s \in Seq(S), NEW x \in S, x \notin ToSet(s),
           \A i, j \in DOMAIN s : s[i] = s[j] => i = j
    PROVE  /\ Append(s, x) \in Seq(S)
           /\ ToSet(Append(s, x)) = ToSet(s) \union {x}
           /\ DOMAIN s = 1 .. Len(s) /\ Len(s) \in Nat
           /\ DOMAIN Append(s, x) = 1 .. Len(s) + 1
           /\ Append(s, x)[Len(s) + 1] = x
           /\ \A i \in DOMAIN s : Append(s, x)[i] = s[i]
           /\ \A i, j \in DOMAIN Append(s, x) : Append(s, x)[i] = Append(s, x)[j] => i = j
<1> DEFINE k == Len(s)
           t == Append(s, x)
<1>1. k \in Nat /\ DOMAIN s = 1 .. k
  BY LenProperties
<1>2. /\ t \in Seq(S) /\ Len(t) = k + 1 /\ t[k + 1] = x
      /\ \A i \in 1 .. k : t[i] = s[i]
  BY AppendProperties
<1> HIDE DEF t, k
<1>3. DOMAIN t = 1 .. k + 1
  BY <1>2, LenProperties
<1>4. \A i : i \in 1 .. k + 1 <=> i = k + 1 \/ i \in 1 .. k
  BY <1>1
<1>5. ToSet(t) = ToSet(s) \union {x}
  BY <1>1, <1>2, <1>3, <1>4 DEF ToSet
<1>6. \A i \in 1 .. k : s[i] # x
  BY <1>1 DEF ToSet
<1>7. \A i, j \in DOMAIN t : t[i] = t[j] => i = j
  BY <1>1, <1>2, <1>3, <1>4, <1>6
<1>8. QED BY <1>1, <1>2, <1>3, <1>5, <1>7 DEF t, k

\* The lists of a finite set have each of its elements once.
LEMMA SetToSeqsProperties ==
    ASSUME NEW S, IsFiniteSet(S), NEW f \in SetToSeqs(S)
    PROVE  /\ f \in Seq(S)
           /\ \A i, j \in DOMAIN f : f[i] = f[j] => i = j
           /\ ToSet(f) = S
<1> DEFINE n == Cardinality(S)
<1>1. n \in Nat
  BY FS_CardinalityType
<1>2. f \in [1 .. n -> S] /\ \A i, j \in 1 .. n : i # j => f[i] # f[j]
  BY DEF SetToSeqs
<1>3. f \in Injection(1 .. n, S)
  BY <1>2 DEF Injection, IsInjective
<1>4. Cardinality(1 .. n) = n
  <2>1. 1 \in Int /\ n \in Int
    BY <1>1
  <2>2. Cardinality(1 .. n) = IF 1 > n THEN 0 ELSE n - 1 + 1
    <3> HIDE DEF n
    <3>1. QED BY <2>1, FS_Interval
  <2>3. QED BY <1>1, <2>2
<1> HIDE DEF n
<1>5. f \in Surjection(1 .. n, S)
  BY <1>3, <1>4, FS_Injection DEF n
<1>6. ToSet(f) = S
  BY <1>2, <1>5 DEF Surjection, ToSet
<1>7. f \in Seq(S)
  BY <1>1, <1>2, SeqDef
<1>8. QED BY <1>2, <1>6, <1>7

LEMMA PositionEmpty == \A n : Position(n) = {} <=> n \notin ToSet(result)
  BY DEF Position, ToSet

LEMMA RemainingFinite ==
    ASSUME GraphInv, NEW n
    PROVE  IsFiniteSet(Remaining(n)) /\ Cardinality(Remaining(n)) \in Nat
<1>1. Remaining(n) \subseteq edges
  BY DEF Remaining
<1>2. QED BY <1>1, FS_Subset, FS_CardinalityType DEF GraphInv

\* The counters and the queue that has_cycle leaves to the sort.
LEMMA SortStarts ==
    ASSUME GraphInv, pc = "search", NEW cyclic, Return(cyclic)
    PROVE  SortInv'
<1> DEFINE into(n) == {e \in edges : e[2] = n}
           Z == {n \in nodes : \A e \in edges : e[2] # n}
<1>1. /\ pc' = "sort" /\ nodes' = nodes /\ edges' = edges
      /\ result' = <<>> /\ todo' = {} /\ queue' \in SetToSeqs(Z)
      /\ in_degree' = [n \in nodes |-> Cardinality(into(n))]
  BY DEF Return, GraphInv, graphVars, InDegrees, InitialQueues
<1>2. \A n : IsFiniteSet(into(n)) /\ Cardinality(into(n)) \in Nat
  <2>1. \A n : into(n) \subseteq edges
    OBVIOUS
  <2> HIDE DEF into
  <2>2. QED BY <2>1, FS_Subset, FS_CardinalityType DEF GraphInv
<1>3. Z = {n \in nodes : Cardinality(into(n)) = 0}
  <2>1. \A n : Cardinality(into(n)) = 0 <=> into(n) = {}
    <3> HIDE DEF into
    <3>1. QED BY <1>2, FS_EmptySet
  <2>2. \A n : into(n) = {} <=> \A e \in edges : e[2] # n
    OBVIOUS
  <2> HIDE DEF into
  <2>3. QED BY <2>1, <2>2
<1>4. IsFiniteSet(Z)
  BY FS_Subset DEF GraphInv
<1> HIDE DEF Z
<1>5. /\ queue' \in Seq(Z) /\ ToSet(queue') = Z
      /\ \A i, j \in DOMAIN queue' : queue'[i] = queue'[j] => i = j
  BY <1>1, <1>4, SetToSeqsProperties
<1>6. queue' \in Seq(nodes)
  <2>1. Z \subseteq nodes
    BY DEF Z
  <2>2. QED BY <1>5, <2>1, SeqMonotonic
<1>7. \A n : Remaining(n)' = into(n)
  BY <1>1 DEF Remaining, Position
<1> HIDE DEF into
<1>8. SortTypes'
  BY <1>1, <1>2, <1>6 DEF SortTypes
<1>9. DegreesExact'
  BY <1>1, <1>7 DEF DegreesExact
<1>10. ToSet(result') = {} /\ DOMAIN result' = {}
  BY <1>1 DEF ToSet
<1>11. OnceEach'
  BY <1>5, <1>10 DEF OnceEach, ToSet
<1>12. QueuedAtZero'
  <2>1. Z = {n \in nodes : in_degree'[n] = 0}
    BY <1>1, <1>3
  <2>2. ToSet(queue)' = Z /\ ToSet(result)' = {}
    BY <1>5, <1>10 DEF ToSet
  <2>3. QED BY <1>1, <2>1, <2>2 DEF QueuedAtZero
<1>13. OutputInOrder'
  BY <1>10 DEF OutputInOrder
<1>14. QED BY <1>1, <1>8, <1>9, <1>11, <1>12, <1>13 DEF SortInv

\* The next node is output: what is still counted stays the same, for its
\* edges are now to be dropped.
LEMMA PopStep ==
    ASSUME GraphInv, SortInv, PopFront
    PROVE  SortInv'
<1> DEFINE h == Head(queue)
<1>1. /\ pc = "sort" /\ pc' = pc /\ todo = {} /\ queue # <<>>
      /\ result' = Append(result, h) /\ queue' = Tail(queue)
      /\ todo' = {e \in edges : e[1] = h}
      /\ nodes' = nodes /\ edges' = edges /\ in_degree' = in_degree
      /\ SortTypes /\ DegreesExact /\ OnceEach /\ QueuedAtZero /\ OutputInOrder
  BY DEF PopFront, SortInv, graphVars
<1>2. /\ queue' \in Seq(nodes) /\ h \in nodes /\ h \in ToSet(queue)
      /\ ToSet(queue') = ToSet(queue) \ {h}
      /\ \A i, j \in DOMAIN queue' : queue'[i] = queue'[j] => i = j
  BY <1>1, TailOnce DEF SortTypes, OnceEach
<1>3. h \notin ToSet(result)
  BY <1>1, <1>2 DEF OnceEach
<1> DEFINE k == Len(result)
<1> HIDE DEF h
<1>4. /\ result' \in Seq(nodes)
      /\ ToSet(result') = ToSet(result) \union {h}
      /\ DOMAIN result = 1 .. k /\ k \in Nat
      /\ DOMAIN result' = 1 .. k + 1
      /\ result'[k + 1] = h
      /\ \A i \in DOMAIN result : result'[i] = result[i]
      /\ \A i, j \in DOMAIN result' : result'[i] = result'[j] => i = j
  BY <1>1, <1>2, <1>3, AppendOnce DEF SortTypes, OnceEach
<1> HIDE DEF k
<1>5. \A n : Remaining(n)' = Remaining(n)
  <2>1. \A n : Position(n) = {} <=> n \notin ToSet(result)
    BY PositionEmpty
  <2>2. \A n : Position(n)' = {} <=> n \notin ToSet(result')
    BY DEF Position, ToSet
  <2>3. QED BY <1>1, <1>3, <1>4, <2>1, <2>2 DEF Remaining
<1>6. SortTypes'
  <2>1. \A e \in todo' : e \in edges /\ e[1] = h
    BY <1>1
  <2>2. ToSet(result)' = ToSet(result')
    BY DEF ToSet
  <2>3. QED BY <1>1, <1>2, <1>4, <2>1, <2>2 DEF SortTypes
<1>7. DegreesExact'
  BY <1>1, <1>5 DEF DegreesExact
<1>8. ToSet(queue)' = ToSet(queue') /\ ToSet(result)' = ToSet(result')
  BY DEF ToSet
<1>9. OnceEach'
  BY <1>1, <1>2, <1>4, <1>8 DEF OnceEach
<1>10. QueuedAtZero'
  BY <1>1, <1>2, <1>4, <1>8 DEF QueuedAtZero
<1>11. OutputInOrder'
  <2> SUFFICES ASSUME NEW e \in edges, NEW i \in 1 .. k + 1, e[2] = result'[i]
               PROVE  \E j \in 1 .. k + 1 : j < i /\ result'[j] = e[1]
    BY <1>1, <1>4 DEF OutputInOrder
  <2>1. CASE i \in 1 .. k
    <3>1. PICK j \in 1 .. k : j < i /\ result[j] = e[1]
      BY <1>1, <1>4, <2>1 DEF OutputInOrder
    <3>2. j \in 1 .. k + 1 /\ result'[j] = e[1]
      BY <1>4, <3>1
    <3>3. QED BY <3>1, <3>2
  <2>2. CASE i = k + 1
    <3>1. e[2] = h /\ in_degree[h] = 0
      BY <1>1, <1>2, <1>4, <2>2 DEF QueuedAtZero
    <3>2. Remaining(h) = {}
      BY <1>1, <1>2, <3>1, RemainingFinite, FS_EmptySet DEF DegreesExact
    <3>3. Position(e[1]) # {}
      BY <3>1, <3>2 DEF Remaining
    <3>4. PICK j \in 1 .. k : result[j] = e[1]
      BY <1>4, <3>3 DEF Position
    <3>5. j \in 1 .. k + 1 /\ j < k + 1 /\ result'[j] = e[1]
      BY <1>4, <3>4
    <3>6. QED BY <2>2, <3>5
  <2>3. QED BY <1>4, <2>1, <2>2
<1>12. QED BY <1>1, <1>6, <1>7, <1>9, <1>10, <1>11 DEF SortInv

\* An edge is dropped: its end is counted once less, and is queued when it
\* is the last.
LEMMA DropStep ==
    ASSUME GraphInv, SortInv, NEW e \in Txn \X Txn, DropEdge(e)
    PROVE  SortInv'
<1> DEFINE n == e[2]
           R == Remaining(n)
<1>1. /\ pc = "sort" /\ pc' = pc /\ e \in todo /\ todo' = todo \ {e}
      /\ in_degree' = [in_degree EXCEPT ![n] = @ - 1]
      /\ queue' = IF in_degree'[n] = 0 THEN Append(queue, n) ELSE queue
      /\ nodes' = nodes /\ edges' = edges /\ result' = result
      /\ SortTypes /\ DegreesExact /\ OnceEach /\ QueuedAtZero /\ OutputInOrder
  BY DEF DropEdge, SortInv, graphVars, Ready
<1>2. e \in edges /\ n \in nodes /\ Position(e[1]) # {}
  BY <1>1, PositionEmpty DEF SortTypes, GraphInv
<1>3. e \in R
  BY <1>1, <1>2 DEF Remaining
<1>4. /\ Remaining(n)' = R \ {e}
      /\ \A m : m # n => Remaining(m)' = Remaining(m)
  <2>1. \A m : Position(m)' = Position(m)
    BY <1>1 DEF Position
  <2>2. QED BY <1>1, <1>2, <2>1 DEF Remaining
<1> HIDE DEF R
<1>5. /\ in_degree[n] = Cardinality(R) /\ Cardinality(R) \in Nat \ {0}
      /\ Cardinality(R \ {e}) = Cardinality(R) - 1
  <2>1. IsFiniteSet(R) /\ Cardinality(R) \in Nat
    BY RemainingFinite DEF R
  <2>2. QED BY <1>1, <1>2, <1>3, <2>1, FS_RemoveElement, FS_EmptySet DEF DegreesExact, R
<1> HIDE DEF n
<1>6. /\ in_degree' \in [nodes -> Nat] /\ in_degree'[n] = in_degree[n] - 1
      /\ \A m \in nodes : m # n => in_degree'[m] = in_degree[m]
  BY <1>1, <1>2, <1>5 DEF SortTypes
<1>7. DegreesExact'
  BY <1>1, <1>4, <1>5, <1>6 DEF DegreesExact
<1>8. n \notin ToSet(queue) /\ n \notin ToSet(result)
  BY <1>1, <1>5 DEF QueuedAtZero
<1>9. /\ queue' \in Seq(nodes)
      /\ ToSet(queue') = ToSet(queue) \union (IF in_degree'[n] = 0 THEN {n} ELSE {})
      /\ \A i, j \in DOMAIN queue' : queue'[i] = queue'[j] => i = j
  <2>1. CASE in_degree'[n] = 0
    <3>1. queue' = Append(queue, n)
      BY <1>1, <2>1
    <3>2. /\ Append(queue, n) \in Seq(nodes)
          /\ ToSet(Append(queue, n)) = ToSet(queue) \union {n}
          /\ \A i, j \in DOMAIN Append(queue, n) :
               Append(queue, n)[i] = Append(queue, n)[j] => i = j
      BY <1>1, <1>2, <1>8, AppendOnce DEF SortTypes, OnceEach
    <3>3. QED BY <2>1, <3>1, <3>2
  <2>2. CASE in_degree'[n] # 0
    BY <1>1, <2>2 DEF SortTypes, OnceEach
  <2>3. QED BY <2>1, <2>2
<1>10. ToSet(queue)' = ToSet(queue') /\ ToSet(result)' = ToSet(result)
  BY <1>1 DEF ToSet
<1>11. SortTypes'
  BY <1>1, <1>6, <1>9, <1>10 DEF SortTypes
<1>12. OnceEach'
  BY <1>1, <1>8, <1>9, <1>10 DEF OnceEach
<1>13. QueuedAtZero'
  BY <1>1, <1>2, <1>5, <1>6, <1>9, <1>10 DEF QueuedAtZero
<1>14. OutputInOrder'
  BY <1>1 DEF OutputInOrder
<1>15. QED BY <1>1, <1>7, <1>11, <1>12, <1>13, <1>14 DEF SortInv

LEMMA SortStep == GraphInv /\ SortInv /\ [Next]_vars => SortInv'
<1> SUFFICES ASSUME GraphInv, SortInv, [Next]_vars PROVE SortInv'
  OBVIOUS
<1>1. CASE \/ Build \/ StartSearch \/ Leave \/ \E n \in Txn : VisitRoot(n)
  <2>1. pc' \in {"build", "search"}
    BY <1>1 DEF Build, add_node, add_edge, StartSearch, Leave, VisitRoot
  <2>2. QED BY <2>1 DEF SortInv
<1>2. ASSUME NEW n \in Txn, FollowEdge(n) PROVE SortInv'
  <2>1. CASE Return(TRUE)
    BY <1>2, <2>1, SortStarts DEF FollowEdge
  <2>2. CASE pc' = pc
    BY <1>2, <2>2 DEF FollowEdge, SortInv
  <2>3. QED BY <1>2, <2>1, <2>2 DEF FollowEdge
<1>3. CASE NoCycleFound
  BY <1>3, SortStarts DEF NoCycleFound
<1>4. CASE PopFront
  BY <1>4, PopStep
<1>5. ASSUME NEW e \in Txn \X Txn, DropEdge(e) PROVE SortInv'
  BY <1>5, DropStep
<1>6. CASE Sorted \/ UNCHANGED vars
  <2>1. /\ nodes' = nodes /\ edges' = edges /\ in_degree' = in_degree
        /\ queue' = queue /\ result' = result /\ todo' = todo
        /\ pc' \in {"sort", "done"} => pc \in {"sort", "done"}
        /\ pc' = "done" => pc = "done" \/ (todo = {} /\ queue = <<>>)
    BY <1>6 DEF Sorted, vars, graphVars, sortVars
  <2>2. \A n : Position(n)' = Position(n)
    BY <2>1 DEF Position
  <2>3. \A n : Remaining(n)' = Remaining(n)
    BY <2>1, <2>2 DEF Remaining
  <2>4. ToSet(queue)' = ToSet(queue) /\ ToSet(result)' = ToSet(result)
    BY <2>1 DEF ToSet
  <2>5. QED
    BY <2>1, <2>3, <2>4
    DEF SortInv, SortTypes, DegreesExact, OnceEach, QueuedAtZero, OutputInOrder
<1>7. QED
  BY <1>1, <1>2, <1>3, <1>4, <1>5, <1>6 DEF Next, Work

LEMMA SortInvariant == Spec => [](GraphInv /\ SortInv)
<1>1. Init => GraphInv /\ SortInv
  BY GraphStarts DEF Init, SortInv
<1>2. (GraphInv /\ SortInv) /\ [Next]_vars => (GraphInv /\ SortInv)'
  BY GraphStep, SortStep
<1>3. QED BY <1>1, <1>2, PTL DEF Spec

\* The positions of a node in a list without repetitions.
LEMMA PositionsOnce ==
    ASSUME NEW s, \A i, j \in DOMAIN s : s[i] = s[j] => i = j, NEW n
    PROVE  Cardinality({i \in DOMAIN s : s[i] = n}) = IF n \in ToSet(s) THEN 1 ELSE 0
<1> DEFINE P == {i \in DOMAIN s : s[i] = n}
<1>1. CASE n \in ToSet(s)
  <2>1. PICK i \in DOMAIN s : s[i] = n
    BY <1>1 DEF ToSet
  <2>2. P = {i}
    BY <2>1
  <2>3. QED BY <1>1, <2>2, FS_Singleton
<1>2. CASE n \notin ToSet(s)
  <2>1. P = {}
    BY <1>2 DEF ToSet
  <2>2. QED BY <1>2, <2>1, FS_EmptySet
<1>3. QED BY <1>1, <1>2

\* The counters of topological_sort count the edges not yet dropped, never
\* go below zero, and no node is queued or output twice.
THEOREM CountersAlwaysExact == Spec => []CountersExact
<1>1. ASSUME GraphInv, SortInv PROVE CountersExact
  <2> SUFFICES ASSUME pc \in {"sort", "done"}, NEW n \in nodes
               PROVE  /\ in_degree[n] = Cardinality(Remaining(n))
                      /\ Cardinality(Position(n)) + Cardinality({i \in DOMAIN queue : queue[i] = n})
                           = IF in_degree[n] = 0 THEN 1 ELSE 0
    BY DEF CountersExact, Remaining
  <2>1. SortTypes /\ DegreesExact /\ OnceEach /\ QueuedAtZero
    BY <1>1 DEF SortInv
  <2>2. Cardinality(Position(n)) = IF n \in ToSet(result) THEN 1 ELSE 0
    BY <2>1, PositionsOnce DEF OnceEach, Position
  <2>3. Cardinality({i \in DOMAIN queue : queue[i] = n}) = IF n \in ToSet(queue) THEN 1 ELSE 0
    BY <2>1, PositionsOnce DEF OnceEach
  <2>4. /\ in_degree[n] = 0 <=> n \in ToSet(queue) \/ n \in ToSet(result)
        /\ ~ (n \in ToSet(queue) /\ n \in ToSet(result))
    BY <2>1 DEF OnceEach, QueuedAtZero
  <2>5. QED BY <2>1, <2>2, <2>3, <2>4 DEF DegreesExact
<1>2. QED BY <1>1, SortInvariant, PTL

\* The decrement of an unsigned counter in topological_sort never meets a
\* zero: it neither panics nor wraps, in any order of the hash sets.
THEOREM CountersNeverUnderflow ==
    Spec => [](pc = "sort" => \A e \in todo : in_degree[e[2]] > 0)
<1>1. ASSUME GraphInv, SortInv PROVE pc = "sort" => \A e \in todo : in_degree[e[2]] > 0
  <2> SUFFICES ASSUME pc = "sort", NEW e \in todo PROVE in_degree[e[2]] > 0
    OBVIOUS
  <2>1. SortTypes /\ DegreesExact
    BY <1>1 DEF SortInv
  <2>2. e \in edges /\ e[2] \in nodes /\ Position(e[1]) # {}
    BY <1>1, <2>1, PositionEmpty DEF SortTypes, GraphInv
  <2>3. e \in Remaining(e[2])
    BY <2>2 DEF Remaining
  <2>4. IsFiniteSet(Remaining(e[2])) /\ Cardinality(Remaining(e[2])) \in Nat
    BY <1>1, <2>1, RemainingFinite
  <2>5. Cardinality(Remaining(e[2])) # 0
    BY <2>3, <2>4, FS_EmptySet
  <2>6. in_degree[e[2]] = Cardinality(Remaining(e[2]))
    BY <2>1, <2>2 DEF DegreesExact
  <2>7. QED BY <2>4, <2>5, <2>6
<1>2. (GraphInv /\ SortInv) => (pc = "sort" => \A e \in todo : in_degree[e[2]] > 0)
  BY <1>1
<1>3. QED BY <1>2, SortInvariant, PTL

\* The sort of any graph yields, each once and after its predecessors, the
\* nodes that no cycle leads to: of an acyclic graph all, in a serial order.
THEOREM SortAlwaysCorrect == Spec => []SortCorrect
<1>1. ASSUME GraphInv, SortInv PROVE SortCorrect
  <2> SUFFICES ASSUME pc = "done" PROVE
                 /\ ToSet(result) = nodes \ Unsortable
                 /\ \A i, j \in DOMAIN result :
                      /\ result[i] = result[j] => i = j
                      /\ <<result[i], result[j]>> \in edges => i < j
    BY DEF SortCorrect
  <2>1. /\ SortTypes /\ DegreesExact /\ OnceEach /\ QueuedAtZero /\ OutputInOrder
        /\ todo = {} /\ queue = <<>>
    BY <1>1 DEF SortInv
  <2>2. ToSet(result) = {n \in nodes : in_degree[n] = 0}
    BY <2>1 DEF QueuedAtZero, ToSet
  <2>3. nodes \ ToSet(result) \subseteq Unsortable
    <3> DEFINE S == nodes \ ToSet(result)
    <3>1. ASSUME NEW m \in S PROVE \E n \in S : <<n, m>> \in edges
      <4>1. Cardinality(Remaining(m)) # 0
        BY <2>1, <2>2 DEF DegreesExact
      <4>2. Remaining(m) # {}
        BY <4>1, FS_EmptySet
      <4>3. PICK e \in edges : e[2] = m /\ Position(e[1]) = {}
        BY <2>1, <4>2 DEF Remaining
      <4>4. e = <<e[1], m>> /\ e[1] \in nodes
        BY <1>1, <4>3 DEF GraphInv
      <4>5. QED BY <4>3, <4>4, PositionEmpty
    <3>2. S \in SUBSET nodes
      OBVIOUS
    <3> HIDE DEF S
    <3>3. S \subseteq Unsortable
      BY <3>1, <3>2 DEF Unsortable
    <3>4. QED BY <3>3 DEF S
  <2>4. DOMAIN result \subseteq Nat
    BY <2>1, LenProperties DEF SortTypes
  <2>5. ASSUME NEW S \in SUBSET nodes, \A m \in S : \E n \in S : <<n, m>> \in edges
        PROVE  S \intersect ToSet(result) = {}
    <3> DEFINE P == {i \in DOMAIN result : result[i] \in S}
    <3> SUFFICES ASSUME P # {} PROVE FALSE
      BY DEF ToSet
    <3>1. PICK i \in P : \A j \in P : i <= j
      <4>1. P \subseteq Nat
        BY <2>4
      <4> HIDE DEF P
      <4>2. QED BY <4>1, LeastNat
    <3>2. PICK n \in S : <<n, result[i]>> \in edges
      BY <2>5
    <3>3. PICK j \in DOMAIN result : j < i /\ result[j] = n
      <4>1. <<n, result[i]>>[1] = n /\ <<n, result[i]>>[2] = result[i]
        OBVIOUS
      <4>2. QED BY <2>1, <3>2, <4>1 DEF OutputInOrder
    <3>4. QED BY <2>4, <3>1, <3>3
  <2>6. Unsortable \intersect ToSet(result) = {}
    BY <2>5 DEF Unsortable
  <2>7. ToSet(result) \subseteq nodes
    BY <2>2
  <2>8. ASSUME NEW i \in DOMAIN result, NEW j \in DOMAIN result,
               <<result[i], result[j]>> \in edges
        PROVE  i < j
    <3>1. <<result[i], result[j]>>[1] = result[i] /\ <<result[i], result[j]>>[2] = result[j]
      OBVIOUS
    <3>2. PICK p \in DOMAIN result : p < j /\ result[p] = result[i]
      BY <2>1, <2>8, <3>1 DEF OutputInOrder
    <3>3. QED BY <2>1, <3>2 DEF OnceEach
  <2>9. QED BY <2>1, <2>3, <2>6, <2>7, <2>8 DEF OnceEach
<1>2. QED BY <1>1, SortInvariant, PTL

\* An acyclic graph has no node that cannot be sorted.
LEMMA AcyclicAllSortable ==
    ASSUME IsAcyclic(nodes, edges)
    PROVE  Unsortable = {}
  BY DEF IsAcyclic, Unsortable

\* What serial_order hands out when has_cycle found no cycle has every
\* transaction.
THEOREM SerialOrderComplete ==
    Spec => [](pc = "done" /\ ~ verdict => ToSet(result) = nodes)
<1>1. VerdictCorrect /\ SortCorrect => (pc = "done" /\ ~ verdict => ToSet(result) = nodes)
  BY AcyclicAllSortable DEF VerdictCorrect, SortCorrect
<1>2. QED BY <1>1, VerdictAlwaysCorrect, SortAlwaysCorrect, PTL
=============================================================================
