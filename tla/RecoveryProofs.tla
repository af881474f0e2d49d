---------------------------- MODULE RecoveryProofs ----------------------------
(***************************************************************************)
(* TLAPS proofs about the write-ahead log in use, for any transactions,    *)
(* pages and cells, logs of any length and any number of crashes.          *)
(***************************************************************************)
EXTENDS Recovery, SequenceTheorems, WellFoundedInduction, TLAPS

-----------------------------------------------------------------------------
(* Positions in the log.                                                   *)

LEMMA LeastPosition ==
    ASSUME NEW R, R \subseteq Nat, R # {}
    PROVE  \E m \in R : \A n \in R : m <= n
<1> DEFINE Below == {p \in Nat \X Nat : p[1] < p[2]}
<1>1. IsWellFoundedOn(Below, Nat)
  BY NatLessThanWellFounded DEF OpToRel
<1> HIDE DEF Below
<1>2. PICK m \in R : \A n \in R : <<n, m>> \notin Below
  BY <1>1, WFMin
<1>3. \A n \in R : ~ (n < m)
  BY <1>2 DEF Below
<1>4. QED BY <1>3

LEMMA GreatestPosition ==
    ASSUME NEW n \in Nat, NEW R, R \subseteq 1 .. n, R # {}
    PROVE  \E m \in R : \A k \in R : k <= m
<1> DEFINE D == {n - k : k \in R}
<1>1. D \subseteq Nat /\ D # {}
  OBVIOUS
<1> HIDE DEF D
<1>2. PICK d \in D : \A e \in D : d <= e
  BY <1>1, LeastPosition
<1>3. PICK m \in R : d = n - m
  BY <1>2 DEF D
<1>4. ASSUME NEW k \in R PROVE k <= m
  <2>1. n - k \in D
    BY DEF D
  <2>2. n - m <= n - k
    BY <1>2, <1>3, <2>1
  <2>3. QED BY <2>2
<1>5. QED BY <1>4

\* The scan of analyze starts inside the log.
LEMMA StartIdxType ==
    ASSUME NEW recs, Len(recs) \in Nat, DOMAIN recs = 1 .. Len(recs)
    PROVE  /\ StartIdx(recs) \in Nat \ {0}
           /\ Checkpoints(recs) # {} =>
                /\ StartIdx(recs) \in Checkpoints(recs)
                /\ \A i \in Checkpoints(recs) : i <= StartIdx(recs)
<1>1. CASE Checkpoints(recs) = {}
  BY <1>1 DEF StartIdx
<1>2. CASE Checkpoints(recs) # {}
  <2>1. Checkpoints(recs) \subseteq 1 .. Len(recs)
    BY DEF Checkpoints
  <2>2. \E m \in Checkpoints(recs) : \A k \in Checkpoints(recs) : k <= m
    BY <1>2, <2>1, GreatestPosition
  <2>3. PICK m \in Checkpoints(recs) : \A k \in Checkpoints(recs) : m >= k
    BY <2>1, <2>2
  <2>4. /\ Max(Checkpoints(recs)) \in Checkpoints(recs)
        /\ \A k \in Checkpoints(recs) : Max(Checkpoints(recs)) >= k
    BY <2>3 DEF Max
  <2>5. QED BY <1>2, <2>1, <2>4 DEF StartIdx
<1>3. QED BY <1>1, <1>2

-----------------------------------------------------------------------------
(* The three passes as recursive functions.                                *)

NothingSeen(recs) ==
    [active_txns |-> InitialActive(recs), dirty_pages |-> <<>>,
     committed |-> {}, aborted |-> {}]

Scan(recs) ==
    CHOOSE f : f = [i \in 0 .. Len(recs) |->
                      IF i < StartIdx(recs) THEN NothingSeen(recs)
                      ELSE AnalyzeStep(f[i - 1], recs[i])]

\* The recursion of analyze is well-defined.
LEMMA ScanUnfolds ==
    ASSUME NEW recs, Len(recs) \in Nat, DOMAIN recs = 1 .. Len(recs)
    PROVE  /\ analyze(recs) = Scan(recs)[Len(recs)]
           /\ \A i \in 0 .. Len(recs) :
                Scan(recs)[i] = IF i < StartIdx(recs) THEN NothingSeen(recs)
                                ELSE AnalyzeStep(Scan(recs)[i - 1], recs[i])
<1> DEFINE n == Len(recs)
           s == StartIdx(recs)
           Step(g, i) == IF i < s THEN NothingSeen(recs) ELSE AnalyzeStep(g, recs[i])
           Upto(f, m) == f = [i \in 0 .. m |-> Step(f[i - 1], i)]
           Bad == {m \in 0 .. n : ~ \E f : Upto(f, m)}
<1>1. n \in Nat /\ s \in Nat \ {0}
  BY StartIdxType
<1> HIDE DEF n, s
<1>2. Bad = {}
  <2> SUFFICES ASSUME Bad # {} PROVE FALSE
    OBVIOUS
  <2>1. PICK m \in Bad : \A k \in Bad : m <= k
    <3>1. Bad \subseteq Nat
      BY <1>1
    <3> HIDE DEF Bad
    <3>2. QED BY <3>1, LeastPosition
  <2>2. m \in 0 .. n /\ ~ \E f : Upto(f, m)
    OBVIOUS
  <2>3. CASE m = 0
    <3> DEFINE f == [i \in 0 .. 0 |-> NothingSeen(recs)]
    <3>1. f = [i \in 0 .. 0 |-> Step(f[i - 1], i)]
      BY <1>1
    <3>2. QED BY <2>2, <2>3, <3>1
  <2>4. CASE m # 0
    <3>1. m - 1 \in 0 .. n /\ ~ (m <= m - 1)
      BY <1>1, <2>2, <2>4
    <3>2. PICK g : Upto(g, m - 1)
      BY <2>1, <3>1
    <3> DEFINE f == [i \in 0 .. m |-> Step(g[i - 1], i)]
    <3>3. \A i \in 0 .. m - 1 : g[i] = Step(g[i - 1], i)
      BY <3>2
    <3> HIDE DEF Step
    <3>4. \A i \in 0 .. m - 1 : f[i] = g[i]
      BY <1>1, <2>2, <3>3
    <3>5. \A i \in 0 .. m : Step(g[i - 1], i) = Step(f[i - 1], i)
      <4> SUFFICES ASSUME NEW i \in 0 .. m PROVE Step(g[i - 1], i) = Step(f[i - 1], i)
        OBVIOUS
      <4>1. CASE i = 0
        BY <1>1, <4>1 DEF Step
      <4>2. CASE i # 0
        <5>1. i - 1 \in 0 .. m - 1
          BY <1>1, <2>2, <4>2
        <5> HIDE DEF f
        <5>2. QED BY <3>4, <5>1
      <4>3. QED BY <4>1, <4>2
    <3>6. f = [i \in 0 .. m |-> Step(f[i - 1], i)]
      BY <3>5
    <3> HIDE DEF f
    <3>7. QED BY <2>2, <3>6
  <2>5. QED BY <2>3, <2>4
<1>3. PICK f : Upto(f, n)
  BY <1>1, <1>2
<1>4. Scan(recs) = CHOOSE h : Upto(h, n)
  BY DEF Scan, n, s
<1>5. Upto(Scan(recs), n)
  BY <1>3, <1>4
<1>6. analyze(recs) = Scan(recs)[n]
  BY DEF analyze, Scan, NothingSeen, n
<1>7. QED BY <1>5, <1>6 DEF n, s

\* A recursion over the positions of a log has a solution.
Solvable(n, S, base, step) ==
    \E f \in [0 .. n -> S] :
        f[0] = base /\ \A i \in 1 .. n : f[i] = step[<<f[i - 1], i>>]

LEMMA RecursionExists ==
    ASSUME NEW n \in Nat, NEW S, NEW base \in S, NEW step \in [S \X (1 .. n) -> S]
    PROVE  Solvable(n, S, base, step)
<1> DEFINE Upto(f, m) == f[0] = base /\ \A i \in 1 .. m : f[i] = step[<<f[i - 1], i>>]
           Bad == {m \in 0 .. n : ~ \E f \in [0 .. m -> S] : Upto(f, m)}
<1>1. Bad = {}
  <2> SUFFICES ASSUME Bad # {} PROVE FALSE
    OBVIOUS
  <2>1. PICK m \in Bad : \A k \in Bad : m <= k
    <3>1. Bad \subseteq Nat
      OBVIOUS
    <3> HIDE DEF Bad
    <3>2. QED BY <3>1, LeastPosition
  <2>2. m \in 0 .. n /\ ~ \E f \in [0 .. m -> S] : Upto(f, m)
    OBVIOUS
  <2>3. CASE m = 0
    <3> DEFINE f == [i \in 0 .. 0 |-> base]
    <3>1. f \in [0 .. 0 -> S] /\ Upto(f, 0)
      OBVIOUS
    <3>2. QED BY <2>2, <2>3, <3>1
  <2>4. CASE m # 0
    <3>1. m - 1 \in 0 .. n /\ ~ (m <= m - 1)
      BY <2>2, <2>4
    <3>2. PICK g \in [0 .. m - 1 -> S] : Upto(g, m - 1)
      BY <2>1, <3>1
    <3> DEFINE f == [i \in 0 .. m |-> IF i = m THEN step[<<g[m - 1], m>>] ELSE g[i]]
    <3>3. step[<<g[m - 1], m>>] \in S
      <4>1. g[m - 1] \in S /\ m \in 1 .. n
        BY <2>2, <2>4
      <4>2. QED BY <4>1
    <3>4. f \in [0 .. m -> S]
      <4>1. \A i \in 0 .. m : i # m => i \in 0 .. m - 1
        BY <2>2
      <4>2. QED BY <3>3, <4>1
    <3>5. f[0] = base
      BY <2>2, <2>4, <3>2
    <3>6. \A i \in 1 .. m : f[i] = step[<<f[i - 1], i>>]
      <4> SUFFICES ASSUME NEW i \in 1 .. m PROVE f[i] = step[<<f[i - 1], i>>]
        OBVIOUS
      <4>1. i - 1 \in 0 .. m - 1 /\ i - 1 # m /\ i - 1 \in 0 .. m /\ i \in 0 .. m
        BY <2>2
      <4>2. f[i - 1] = g[i - 1]
        BY <4>1
      <4>3. CASE i = m
        BY <4>1, <4>2, <4>3
      <4>4. CASE i # m
        <5>1. i \in 1 .. m - 1
          BY <2>2, <4>4
        <5>2. f[i] = g[i]
          BY <4>1, <4>4
        <5>3. g[i] = step[<<g[i - 1], i>>]
          BY <3>2, <5>1
        <5>4. QED BY <4>2, <5>2, <5>3
      <4>5. QED BY <4>3, <4>4
    <3> HIDE DEF f
    <3>7. QED BY <2>2, <3>4, <3>5, <3>6
  <2>5. QED BY <2>3, <2>4
<1>2. n \notin Bad
  BY <1>1
<1>3. QED BY <1>2 DEF Solvable

-----------------------------------------------------------------------------
(* Pages.                                                                  *)

PageSet == [Page -> Seq(Byte)]

There(pages, c) == Len(pages[c[1]]) >= c[2]

\* What writing one byte does to a page.
PutOK(page, o, v, t) ==
    /\ t \in Seq(Byte)
    /\ Len(t) >= o /\ Len(t) >= Len(page)
    /\ t[o] = v
    /\ \A i \in 1 .. Len(t) : i # o => t[i] = IF i <= Len(page) THEN page[i] ELSE 0

LEMMA PutProperties ==
    ASSUME NEW page \in Seq(Byte), NEW o \in Nat \ {0}, NEW v \in Byte
    PROVE  PutOK(page, o, v, Put(page, o, v))
<1> DEFINE k == Len(page)
           zeros == [i \in 1 .. o - k |-> 0]
           g == Grown(page, o)
<1>1. k \in Nat /\ 0 \in Byte
  BY LenProperties, WALAssumption
<1> HIDE DEF k
<1>2. /\ g \in Seq(Byte) /\ Len(g) >= o /\ Len(g) >= k
      /\ \A i \in 1 .. Len(g) : g[i] = IF i <= k THEN page[i] ELSE 0
  <2>1. CASE k >= o
    <3>1. g = page
      BY <2>1 DEF Grown, k
    <3>2. \A i \in 1 .. k : i <= k
      BY <1>1
    <3>3. QED BY <1>1, <2>1, <3>1, <3>2 DEF k
  <2>2. CASE ~ (k >= o)
    <3>1. o - k \in Nat
      BY <1>1, <2>2
    <3>2. zeros \in [1 .. o - k -> Byte]
      BY <1>1
    <3> HIDE DEF zeros
    <3>3. zeros \in Seq(Byte) /\ Len(zeros) = o - k
      BY <3>1, <3>2, SeqDef, LenProperties
    <3>4. /\ page \o zeros \in Seq(Byte)
          /\ Len(page \o zeros) = k + Len(zeros)
          /\ \A i \in 1 .. k + Len(zeros) :
               (page \o zeros)[i] = IF i <= k THEN page[i] ELSE zeros[i - k]
      BY <3>3, ConcatProperties DEF k
    <3>5. g = page \o zeros
      BY <2>2 DEF Grown, k, zeros
    <3>6. \A i \in 1 .. o : ~ (i <= k) => i - k \in 1 .. o - k
      BY <1>1
    <3>7. \A j \in 1 .. o - k : zeros[j] = 0
      BY DEF zeros
    <3>8. k + Len(zeros) = o
      BY <1>1, <3>3
    <3>9. QED BY <1>1, <2>2, <3>4, <3>5, <3>6, <3>7, <3>8
  <2>3. QED BY <2>1, <2>2
<1> HIDE DEF g
<1>3. Len(g) \in Nat /\ o \in 1 .. Len(g)
  BY <1>2, LenProperties
<1>4. /\ [g EXCEPT ![o] = v] \in Seq(Byte)
      /\ Len([g EXCEPT ![o] = v]) = Len(g)
      /\ \A j \in 1 .. Len(g) : [g EXCEPT ![o] = v][j] = IF j = o THEN v ELSE g[j]
  BY <1>2, <1>3, ExceptSeq
<1>5. Put(page, o, v) = [g EXCEPT ![o] = v]
  BY DEF Put, g
<1> HIDE DEF g
<1>6. QED BY <1>2, <1>3, <1>4, <1>5 DEF k, PutOK

WriteTo(pages, c, v) == [pages EXCEPT ![c[1]] = Put(@, c[2], v)]

\* Writing a cell changes what is read at that cell and nowhere else.
Wrote(pages, c, v, after) ==
    /\ after \in PageSet
    /\ \A d \in Cell : Get(after, d) = IF d = c THEN v ELSE Get(pages, d)
    /\ There(after, c)
    /\ \A d \in Cell : There(pages, d) => There(after, d)

LEMMA WriteCell ==
    ASSUME NEW pages \in PageSet, NEW c \in Cell, NEW v \in Byte
    PROVE  Wrote(pages, c, v, WriteTo(pages, c, v))
<1> DEFINE after == WriteTo(pages, c, v)
<1>1. \A d \in Cell : d[1] \in Page /\ d[2] \in Nat \ {0} /\ d = <<d[1], d[2]>>
  BY WALAssumption
<1> DEFINE p == c[1]
           o == c[2]
           s == pages[p]
           t == Put(s, o, v)
<1>2. p \in Page /\ o \in Nat \ {0} /\ s \in Seq(Byte)
  BY <1>1 DEF PageSet
<1> HIDE DEF p, o
<1>3. /\ t \in Seq(Byte)
      /\ Len(t) >= o /\ Len(t) >= Len(s)
      /\ t[o] = v
      /\ \A i \in 1 .. Len(t) : i # o => t[i] = IF i <= Len(s) THEN s[i] ELSE 0
  <2>1. s \in Seq(Byte) /\ o \in Nat \ {0} /\ v \in Byte
    BY <1>2
  <2> HIDE DEF s
  <2>2. PutOK(s, o, v, t)
    BY <2>1, PutProperties
  <2>3. QED BY <2>2 DEF PutOK
<1>4. Len(s) \in Nat /\ Len(t) \in Nat
  BY <1>2, <1>3, LenProperties
<1>5. after = [pages EXCEPT ![p] = t]
  BY DEF p, o, WriteTo
<1> HIDE DEF s, t, after
<1>6. after \in PageSet /\ \A q \in Page : after[q] = IF q = p THEN t ELSE pages[q]
  BY <1>2, <1>3, <1>5 DEF PageSet
<1>7. ASSUME NEW d \in Cell
      PROVE  /\ Get(after, d) = IF d = c THEN v ELSE Get(pages, d)
             /\ There(pages, d) => There(after, d)
             /\ d = c => There(after, d)
  <2>1. CASE d[1] # p
    <3>1. after[d[1]] = pages[d[1]] /\ d # c
      BY <1>1, <1>6, <2>1 DEF p
    <3>2. QED BY <3>1 DEF Get, There
  <2>2. CASE d[1] = p /\ d[2] = o
    <3>1. d = c /\ after[d[1]] = t
      BY <1>1, <1>2, <1>6, <2>2 DEF p, o
    <3>2. QED BY <1>3, <2>2, <3>1 DEF Get, There
  <2>3. CASE d[1] = p /\ d[2] # o
    <3>1. d # c /\ after[d[1]] = t /\ pages[d[1]] = s
      BY <1>1, <1>2, <1>6, <2>3 DEF p, o, s
    <3>2. d[2] \in Nat \ {0}
      BY <1>1
    <3>3. Len(t) >= d[2] => t[d[2]] = IF d[2] <= Len(s) THEN s[d[2]] ELSE 0
      BY <1>3, <1>4, <2>3, <3>2
    <3>4. Len(s) >= d[2] => Len(t) >= d[2]
      BY <1>3, <1>4, <3>2
    <3>5. QED BY <1>4, <3>1, <3>2, <3>3, <3>4 DEF Get, There
  <2>4. QED BY <2>1, <2>2, <2>3
<1>8. Wrote(pages, c, v, after)
  BY <1>6, <1>7 DEF Wrote
<1>9. QED BY <1>8 DEF after

-----------------------------------------------------------------------------
(* redo.                                                                   *)

\* The fields of the log records.
LEMMA RecordFields ==
    ASSUME NEW r \in LogRecord
    PROVE  /\ r.kind \in {"Begin", "Commit", "Abort", "Checkpoint", "Update", "CLR"}
           /\ r.kind \in {"Begin", "Commit", "Abort", "Update", "CLR"} => r.txn \in Txn
           /\ r.kind \in {"Update", "CLR"} => r.cell \in Cell /\ r.after \in Byte
           /\ r.kind = "Update" => r.before \in Byte
           /\ r.kind = "Checkpoint" => r.active_txns \in SUBSET Txn
  BY DEF LogRecord

Replays(recs, a, pages) ==
    CHOOSE f : f = [i \in 0 .. Len(recs) |->
                      IF i = 0 THEN pages
                      ELSE IF Replayed(a, recs[i]) THEN Replay(f[i - 1], recs[i])
                      ELSE f[i - 1]]

\* The recursion of redo is well-defined.
LEMMA ReplaysUnfold ==
    ASSUME NEW recs \in Seq(LogRecord), NEW a, NEW pages \in PageSet
    PROVE  LET f == Replays(recs, a, pages)
           IN /\ redo(recs, a, pages) = f[Len(recs)]
              /\ f[0] = pages
              /\ \A i \in 1 .. Len(recs) :
                   f[i] = IF Replayed(a, recs[i]) THEN Replay(f[i - 1], recs[i]) ELSE f[i - 1]
<1> DEFINE n == Len(recs)
           step == [x \in PageSet \X (1 .. n) |->
                      IF Replayed(a, recs[x[2]]) THEN Replay(x[1], recs[x[2]]) ELSE x[1]]
           Solves(f) == f = [i \in 0 .. n |->
                               IF i = 0 THEN pages
                               ELSE IF Replayed(a, recs[i]) THEN Replay(f[i - 1], recs[i])
                               ELSE f[i - 1]]
<1>1. n \in Nat /\ \A i \in 1 .. n : recs[i] \in LogRecord
  BY LenProperties, ElementOfSeq
<1>2. \A ps \in PageSet, i \in 1 .. n : Replayed(a, recs[i]) => Replay(ps, recs[i]) \in PageSet
  <2> SUFFICES ASSUME NEW ps \in PageSet, NEW i \in 1 .. n, Replayed(a, recs[i])
               PROVE  Replay(ps, recs[i]) \in PageSet
    OBVIOUS
  <2>1. recs[i].cell \in Cell /\ recs[i].after \in Byte
    BY <1>1, RecordFields DEF Replayed
  <2>2. Wrote(ps, recs[i].cell, recs[i].after, WriteTo(ps, recs[i].cell, recs[i].after))
    BY <2>1, WriteCell
  <2>3. QED BY <2>2 DEF Replay, WriteTo, Wrote
<1> HIDE DEF n
<1>3. step \in [PageSet \X (1 .. n) -> PageSet]
  BY <1>2
<1>4. PICK f \in [0 .. n -> PageSet] :
        f[0] = pages /\ \A i \in 1 .. n : f[i] = step[<<f[i - 1], i>>]
  <2> HIDE DEF step
  <2>1. Solvable(n, PageSet, pages, step)
    BY <1>1, <1>3, RecursionExists
  <2>2. QED BY <2>1 DEF Solvable
<1>5. \A i \in 1 .. n :
        f[i] = IF Replayed(a, recs[i]) THEN Replay(f[i - 1], recs[i]) ELSE f[i - 1]
  <2> SUFFICES ASSUME NEW i \in 1 .. n
               PROVE  f[i] = IF Replayed(a, recs[i]) THEN Replay(f[i - 1], recs[i]) ELSE f[i - 1]
    OBVIOUS
  <2>1. i - 1 \in 0 .. n
    BY <1>1
  <2>2. f[i - 1] \in PageSet
    BY <2>1
  <2>3. QED BY <1>4, <2>2
<1>6. Solves(f)
  <2>1. \A i \in 0 .. n : i # 0 => i \in 1 .. n
    BY <1>1
  <2>2. QED BY <1>4, <1>5, <2>1
<1>7. Replays(recs, a, pages) = CHOOSE g : Solves(g)
  BY DEF Replays, n
<1>8. Solves(Replays(recs, a, pages))
  BY <1>6, <1>7
<1>9. redo(recs, a, pages) = Replays(recs, a, pages)[n]
  BY DEF redo, Replays, n
<1>10. 0 \in 0 .. n /\ \A i \in 1 .. n : i \in 0 .. n /\ i # 0
  BY <1>1
<1>11. QED BY <1>8, <1>9, <1>10 DEF n

\* The records up to position m that redo replays on a cell.
ReplaysOn(recs, a, c, m) == {j \in 1 .. m : Replayed(a, recs[j]) /\ recs[j].cell = c}

\* What the pages hold then: the after image of the last such record, or what
\* they held before.
RedoneUpto(recs, a, pages, ps, m) ==
    /\ ps \in PageSet
    /\ \A c \in Cell :
         /\ There(pages, c) => There(ps, c)
         /\ ReplaysOn(recs, a, c, m) = {} => Get(ps, c) = Get(pages, c)
         /\ \A j \in ReplaysOn(recs, a, c, m) :
              (\A k \in ReplaysOn(recs, a, c, m) : k <= j) =>
                 Get(ps, c) = recs[j].after /\ There(ps, c)

LEMMA RedoOutcome ==
    ASSUME NEW recs \in Seq(LogRecord), NEW a, NEW pages \in PageSet
    PROVE  RedoneUpto(recs, a, pages, redo(recs, a, pages), Len(recs))
<1> DEFINE n == Len(recs)
           f == Replays(recs, a, pages)
           OK(i) == RedoneUpto(recs, a, pages, f[i], i)
           Bad == {i \in 0 .. n : ~ OK(i)}
<1>1. /\ redo(recs, a, pages) = f[n]
      /\ f[0] = pages
      /\ \A i \in 1 .. n :
           f[i] = IF Replayed(a, recs[i]) THEN Replay(f[i - 1], recs[i]) ELSE f[i - 1]
  BY ReplaysUnfold
<1>2. n \in Nat /\ \A i \in 1 .. n : recs[i] \in LogRecord
  BY LenProperties, ElementOfSeq
<1> HIDE DEF n, f
<1>3. OK(0)
  <2>1. \A c : ReplaysOn(recs, a, c, 0) = {}
    BY DEF ReplaysOn
  <2>2. QED BY <1>1, <2>1 DEF RedoneUpto
<1>4. ASSUME NEW i \in 1 .. n, OK(i - 1) PROVE OK(i)
  <2>1. f[i - 1] \in PageSet
    BY <1>4 DEF RedoneUpto
  <2>2. \A j : j \in 1 .. i <=> j = i \/ j \in 1 .. i - 1
    BY <1>2
  <2>3. \A c : ReplaysOn(recs, a, c, i) =
               ReplaysOn(recs, a, c, i - 1)
                 \union (IF Replayed(a, recs[i]) /\ recs[i].cell = c THEN {i} ELSE {})
    BY <2>2 DEF ReplaysOn
  <2>4. CASE ~ Replayed(a, recs[i])
    <3>1. f[i] = f[i - 1]
      BY <1>1, <2>4
    <3>2. \A c : ReplaysOn(recs, a, c, i) = ReplaysOn(recs, a, c, i - 1)
      BY <2>3, <2>4
    <3>3. QED BY <1>4, <3>1, <3>2 DEF RedoneUpto
  <2>5. CASE Replayed(a, recs[i])
    <3> DEFINE d == recs[i].cell
               v == recs[i].after
    <3>1. d \in Cell /\ v \in Byte
      BY <1>2, <2>5, RecordFields DEF Replayed
    <3>2. f[i] = WriteTo(f[i - 1], d, v)
      BY <1>1, <2>5 DEF Replay, WriteTo
    <3> HIDE DEF d, v
    <3>3. /\ f[i] \in PageSet
          /\ \A c \in Cell : Get(f[i], c) = IF c = d THEN v ELSE Get(f[i - 1], c)
          /\ There(f[i], d)
          /\ \A c \in Cell : There(f[i - 1], c) => There(f[i], c)
      BY <2>1, <3>1, <3>2, WriteCell DEF Wrote
    <3> SUFFICES ASSUME NEW c \in Cell
                 PROVE  /\ There(pages, c) => There(f[i], c)
                        /\ ReplaysOn(recs, a, c, i) = {} => Get(f[i], c) = Get(pages, c)
                        /\ \A j \in ReplaysOn(recs, a, c, i) :
                             (\A k \in ReplaysOn(recs, a, c, i) : k <= j) =>
                                Get(f[i], c) = recs[j].after /\ There(f[i], c)
      BY <3>3 DEF RedoneUpto
    <3>4. There(pages, c) => There(f[i], c)
      BY <1>4, <3>3 DEF RedoneUpto
    <3>5. CASE c = d
      <4>1. i \in ReplaysOn(recs, a, c, i) /\ \A j \in ReplaysOn(recs, a, c, i) : j <= i /\ j \in Nat
        BY <2>2, <2>3, <2>5, <3>5 DEF d, ReplaysOn
      <4>2. \A j \in ReplaysOn(recs, a, c, i) :
              (\A k \in ReplaysOn(recs, a, c, i) : k <= j) => j = i
        BY <4>1
      <4>3. QED BY <3>3, <3>4, <3>5, <4>1, <4>2 DEF v
    <3>6. CASE c # d
      <4>1. ReplaysOn(recs, a, c, i) = ReplaysOn(recs, a, c, i - 1)
        BY <2>3, <3>6 DEF d
      <4>2. Get(f[i], c) = Get(f[i - 1], c)
        BY <3>3, <3>6
      <4>3. QED BY <1>4, <3>3, <3>4, <4>1, <4>2 DEF RedoneUpto
    <3>7. QED BY <3>5, <3>6
  <2>6. QED BY <2>4, <2>5
<1>5. Bad = {}
  <2> SUFFICES ASSUME Bad # {} PROVE FALSE
    OBVIOUS
  <2>1. PICK m \in Bad : \A k \in Bad : m <= k
    <3>1. Bad \subseteq Nat
      BY <1>2
    <3> HIDE DEF Bad
    <3>2. QED BY <3>1, LeastPosition
  <2> HIDE DEF OK
  <2>2. m \in 0 .. n /\ ~ OK(m) /\ m # 0
    BY <1>3
  <2>3. m \in 1 .. n /\ m - 1 \in 0 .. n /\ ~ (m <= m - 1)
    BY <1>2, <2>2
  <2>4. OK(m - 1)
    BY <2>1, <2>3
  <2>5. QED BY <1>4, <2>2, <2>3, <2>4
<1>6. OK(n)
  <2> HIDE DEF OK
  <2>1. n \in 0 .. n
    BY <1>2
  <2>2. QED BY <1>5, <2>1
<1>7. QED BY <1>1, <1>6 DEF n

-----------------------------------------------------------------------------
(* undo.                                                                   *)

UpdateRecord ==
    [kind : {"Update"}, lsn : Nat, txn : Txn, cell : Cell, before : Byte, after : Byte]

IsUpdateOf(r, t) == r.kind = "Update" /\ r.txn = t

LEMMA UpdateRecordFields ==
    ASSUME NEW r \in LogRecord, r.kind = "Update"
    PROVE  r \in UpdateRecord
  BY DEF LogRecord, UpdateRecord

Collected(recs, t) ==
    CHOOSE f : f = [i \in 0 .. Len(recs) |->
                      IF i = 0 THEN <<>>
                      ELSE IF recs[i].kind = "Update" /\ recs[i].txn = t
                           THEN <<recs[i]>> \o f[i - 1]
                      ELSE f[i - 1]]

\* The list with an element put in front.
LEMMA PrependProperties ==
    ASSUME NEW S, NEW s \in Seq(S), NEW x \in S
    PROVE  /\ <<x>> \o s \in Seq(S)
           /\ Len(s) \in Nat /\ DOMAIN s = 1 .. Len(s)
           /\ DOMAIN (<<x>> \o s) = 1 .. Len(s) + 1
           /\ (<<x>> \o s)[1] = x
           /\ \A i \in 1 .. Len(s) : (<<x>> \o s)[i + 1] = s[i]
<1> DEFINE u == <<x>> \o s
           h == <<x>>
           k == Len(s)
<1>1. k \in Nat /\ DOMAIN s = 1 .. k
  BY LenProperties
<1>2. h \in Seq(S) /\ Len(h) = 1 /\ h[1] = x
  OBVIOUS
<1> HIDE DEF h, k
<1>3. /\ h \o s \in Seq(S)
      /\ Len(h \o s) = Len(h) + Len(s)
      /\ \A i \in 1 .. Len(h) + Len(s) :
           (h \o s)[i] = IF i <= Len(h) THEN h[i] ELSE s[i - Len(h)]
  BY <1>2, ConcatProperties
<1>4. u = h \o s
  BY DEF h
<1> HIDE DEF u
<1>5. u \in Seq(S) /\ Len(u) = k + 1
  BY <1>1, <1>2, <1>3, <1>4 DEF k
<1>6. DOMAIN u = 1 .. k + 1
  BY <1>5, LenProperties
<1>7. \A i \in 1 .. k + 1 : u[i] = IF i <= 1 THEN h[i] ELSE s[i - 1]
  BY <1>1, <1>2, <1>3, <1>4 DEF k
<1>8. u[1] = x
  <2>1. 1 \in 1 .. k + 1
    BY <1>1
  <2>2. QED BY <1>2, <1>7, <2>1
<1>9. \A i \in 1 .. k : u[i + 1] = s[i]
  <2>1. \A i \in 1 .. k : i + 1 \in 1 .. k + 1 /\ ~ (i + 1 <= 1) /\ (i + 1) - 1 = i
    BY <1>1
  <2>2. QED BY <1>7, <2>1
<1>10. QED BY <1>1, <1>5, <1>6, <1>8, <1>9 DEF u, k

\* The recursion that collects the updates is well-defined.
LEMMA CollectedUnfolds ==
    ASSUME NEW recs \in Seq(LogRecord), NEW t
    PROVE  LET f == Collected(recs, t)
           IN /\ UndoOps(recs, t) = f[Len(recs)]
              /\ f[0] = <<>>
              /\ \A i \in 1 .. Len(recs) :
                   f[i] = IF IsUpdateOf(recs[i], t) THEN <<recs[i]>> \o f[i - 1] ELSE f[i - 1]
<1> DEFINE n == Len(recs)
           S == Seq(UpdateRecord)
           step == [x \in S \X (1 .. n) |->
                      IF IsUpdateOf(recs[x[2]], t) THEN <<recs[x[2]]>> \o x[1] ELSE x[1]]
           Solves(f) == f = [i \in 0 .. n |->
                               IF i = 0 THEN <<>>
                               ELSE IF IsUpdateOf(recs[i], t) THEN <<recs[i]>> \o f[i - 1]
                               ELSE f[i - 1]]
<1>1. n \in Nat /\ \A i \in 1 .. n : recs[i] \in LogRecord
  BY LenProperties, ElementOfSeq
<1>2. <<>> \in S
  OBVIOUS
<1>3. \A s \in S, i \in 1 .. n : IsUpdateOf(recs[i], t) => <<recs[i]>> \o s \in S
  <2> SUFFICES ASSUME NEW s \in S, NEW i \in 1 .. n, IsUpdateOf(recs[i], t)
               PROVE  <<recs[i]>> \o s \in S
    OBVIOUS
  <2>1. recs[i] \in UpdateRecord
    BY <1>1, UpdateRecordFields DEF IsUpdateOf
  <2>2. QED BY <2>1, PrependProperties
<1> HIDE DEF n, S
<1>4. step \in [S \X (1 .. n) -> S]
  BY <1>3
<1>5. PICK f \in [0 .. n -> S] :
        f[0] = <<>> /\ \A i \in 1 .. n : f[i] = step[<<f[i - 1], i>>]
  <2> HIDE DEF step
  <2>1. Solvable(n, S, <<>>, step)
    BY <1>1, <1>2, <1>4, RecursionExists
  <2>2. QED BY <2>1 DEF Solvable
<1>6. \A i \in 1 .. n :
        f[i] = IF IsUpdateOf(recs[i], t) THEN <<recs[i]>> \o f[i - 1] ELSE f[i - 1]
  <2> SUFFICES ASSUME NEW i \in 1 .. n
               PROVE  f[i] = IF IsUpdateOf(recs[i], t) THEN <<recs[i]>> \o f[i - 1] ELSE f[i - 1]
    OBVIOUS
  <2>1. i - 1 \in 0 .. n
    BY <1>1
  <2>2. f[i - 1] \in S
    BY <2>1
  <2>3. QED BY <1>5, <2>2
<1>7. Solves(f)
  <2>1. \A i \in 0 .. n : i # 0 => i \in 1 .. n
    BY <1>1
  <2>2. QED BY <1>5, <1>6, <2>1
<1>8. Collected(recs, t) = CHOOSE g : Solves(g)
  BY DEF Collected, n, IsUpdateOf
<1>9. Solves(Collected(recs, t))
  BY <1>7, <1>8
<1>10. UndoOps(recs, t) = Collected(recs, t)[n]
  BY DEF UndoOps, Collected, n
<1>11. 0 \in 0 .. n /\ \A i \in 1 .. n : i \in 0 .. n /\ i # 0
  BY <1>1
<1>12. QED BY <1>9, <1>10, <1>11 DEF n

\* The updates of a transaction among the first m records, and those of a
\* cell.
UpdatesOn(recs, t, c, m) == {j \in 1 .. m : IsUpdateOf(recs[j], t) /\ recs[j].cell = c}

\* The last operation of the list on a cell is the first update of it.
CollectedUpto(recs, t, ops, m) ==
    /\ ops \in Seq(UpdateRecord)
    /\ \A k \in DOMAIN ops : \E j \in 1 .. m : IsUpdateOf(recs[j], t) /\ ops[k] = recs[j]
    /\ \A c \in Cell : \A j \in UpdatesOn(recs, t, c, m) :
         (\A l \in UpdatesOn(recs, t, c, m) : j <= l) =>
            \E k \in DOMAIN ops :
               /\ ops[k] = recs[j]
               /\ \A l \in DOMAIN ops : ops[l].cell = c => l <= k

LEMMA UndoOpsOutcome ==
    ASSUME NEW recs \in Seq(LogRecord), NEW t
    PROVE  CollectedUpto(recs, t, UndoOps(recs, t), Len(recs))
<1> DEFINE n == Len(recs)
           f == Collected(recs, t)
           OK(i) == CollectedUpto(recs, t, f[i], i)
           Bad == {i \in 0 .. n : ~ OK(i)}
<1>1. /\ UndoOps(recs, t) = f[n]
      /\ f[0] = <<>>
      /\ \A i \in 1 .. n :
           f[i] = IF IsUpdateOf(recs[i], t) THEN <<recs[i]>> \o f[i - 1] ELSE f[i - 1]
  BY CollectedUnfolds
<1>2. n \in Nat /\ \A i \in 1 .. n : recs[i] \in LogRecord
  BY LenProperties, ElementOfSeq
<1> HIDE DEF n, f
<1>3. OK(0)
  <2>1. f[0] \in Seq(UpdateRecord) /\ DOMAIN f[0] = {}
    BY <1>1
  <2>2. \A c : UpdatesOn(recs, t, c, 0) = {}
    BY DEF UpdatesOn
  <2>3. QED BY <2>1, <2>2 DEF CollectedUpto
<1>4. ASSUME NEW i \in 1 .. n, OK(i - 1) PROVE OK(i)
  <2> DEFINE old == f[i - 1]
             ops == f[i]
  <2>1. \A j : j \in 1 .. i <=> j = i \/ j \in 1 .. i - 1
    BY <1>2
  <2>2. \A c : UpdatesOn(recs, t, c, i) =
               UpdatesOn(recs, t, c, i - 1)
                 \union (IF IsUpdateOf(recs[i], t) /\ recs[i].cell = c THEN {i} ELSE {})
    BY <2>1 DEF UpdatesOn
  <2>3. CASE ~ IsUpdateOf(recs[i], t)
    <3>1. ops = old
      BY <1>1, <2>3
    <3>2. \A c : UpdatesOn(recs, t, c, i) = UpdatesOn(recs, t, c, i - 1)
      BY <2>2, <2>3
    <3>3. QED BY <1>4, <2>1, <3>1, <3>2 DEF CollectedUpto
  <2>4. CASE IsUpdateOf(recs[i], t)
    <3>1. old \in Seq(UpdateRecord) /\ recs[i] \in UpdateRecord
      BY <1>2, <1>4, <2>4, UpdateRecordFields DEF CollectedUpto, IsUpdateOf
    <3>2. ops = <<recs[i]>> \o old
      BY <1>1, <2>4
    <3> HIDE DEF ops, old
    <3>3. /\ ops \in Seq(UpdateRecord)
          /\ Len(old) \in Nat /\ DOMAIN old = 1 .. Len(old)
          /\ DOMAIN ops = 1 .. Len(old) + 1
          /\ ops[1] = recs[i]
          /\ \A k \in 1 .. Len(old) : ops[k + 1] = old[k]
      BY <3>1, <3>2, PrependProperties
    <3>4. \A k \in DOMAIN ops : k = 1 \/ (k - 1 \in DOMAIN old /\ ops[k] = old[k - 1] /\ k = (k - 1) + 1)
      BY <3>3
    <3>5. \A k \in DOMAIN ops : \E j \in 1 .. i : IsUpdateOf(recs[j], t) /\ ops[k] = recs[j]
      <4>1. \A k \in DOMAIN old : \E j \in 1 .. i - 1 : IsUpdateOf(recs[j], t) /\ old[k] = recs[j]
        BY <1>4 DEF CollectedUpto, old
      <4>2. QED BY <2>1, <2>4, <3>3, <3>4, <4>1
    <3>6. ASSUME NEW c \in Cell, NEW j \in UpdatesOn(recs, t, c, i),
                 \A l \in UpdatesOn(recs, t, c, i) : j <= l
          PROVE  \E k \in DOMAIN ops :
                    /\ ops[k] = recs[j]
                    /\ \A l \in DOMAIN ops : ops[l].cell = c => l <= k
      <4>1. CASE UpdatesOn(recs, t, c, i - 1) = {}
        <5>1. j = i /\ recs[i].cell = c
          BY <2>2, <4>1
        <5>2. \A k \in DOMAIN old : old[k].cell # c
          <6> SUFFICES ASSUME NEW k \in DOMAIN old, old[k].cell = c PROVE FALSE
            OBVIOUS
          <6>1. PICK m \in 1 .. i - 1 : IsUpdateOf(recs[m], t) /\ old[k] = recs[m]
            BY <1>4 DEF CollectedUpto, old
          <6>2. m \in UpdatesOn(recs, t, c, i - 1)
            BY <6>1 DEF UpdatesOn
          <6>3. QED BY <4>1, <6>2
        <5>3. 1 \in DOMAIN ops /\ ops[1] = recs[j]
          BY <3>3, <5>1
        <5>4. \A l \in DOMAIN ops : ops[l].cell = c => l <= 1
          BY <3>4, <5>2
        <5>5. QED BY <5>3, <5>4
      <4>2. CASE UpdatesOn(recs, t, c, i - 1) # {}
        <5>1. j # i /\ j \in UpdatesOn(recs, t, c, i - 1)
          <6>1. PICK m \in UpdatesOn(recs, t, c, i - 1) : TRUE
            BY <4>2
          <6>2. m \in UpdatesOn(recs, t, c, i) /\ m \in 1 .. i - 1
            BY <2>2 DEF UpdatesOn
          <6>3. j <= m /\ j \in 1 .. i
            BY <3>6, <6>2 DEF UpdatesOn
          <6>4. QED BY <1>2, <2>2, <6>2, <6>3
        <5>2. \A l \in UpdatesOn(recs, t, c, i - 1) : j <= l
          BY <2>2, <3>6
        <5>3. PICK k \in DOMAIN old : /\ old[k] = recs[j]
                                      /\ \A l \in DOMAIN old : old[l].cell = c => l <= k
          BY <1>4, <5>1, <5>2 DEF CollectedUpto, old
        <5>4. k + 1 \in DOMAIN ops /\ ops[k + 1] = recs[j]
          BY <3>3, <5>3
        <5>5. ASSUME NEW l \in DOMAIN ops, ops[l].cell = c PROVE l <= k + 1
          <6>1. CASE l = 1
            BY <3>3, <6>1
          <6>2. CASE l # 1
            BY <3>3, <3>4, <5>3, <5>5, <6>2
          <6>3. QED BY <6>1, <6>2
        <5>6. QED BY <5>4, <5>5
      <4>3. QED BY <4>1, <4>2
    <3>7. CollectedUpto(recs, t, ops, i)
      BY <3>3, <3>5, <3>6 DEF CollectedUpto
    <3>8. QED BY <3>7 DEF ops
  <2>5. QED BY <2>3, <2>4
<1>5. Bad = {}
  <2> SUFFICES ASSUME Bad # {} PROVE FALSE
    OBVIOUS
  <2>1. PICK m \in Bad : \A k \in Bad : m <= k
    <3>1. Bad \subseteq Nat
      BY <1>2
    <3> HIDE DEF Bad
    <3>2. QED BY <3>1, LeastPosition
  <2> HIDE DEF OK
  <2>2. m \in 0 .. n /\ ~ OK(m) /\ m # 0
    BY <1>3
  <2>3. m \in 1 .. n /\ m - 1 \in 0 .. n /\ ~ (m <= m - 1)
    BY <1>2, <2>2
  <2>4. OK(m - 1)
    BY <2>1, <2>3
  <2>5. QED BY <1>4, <2>2, <2>3, <2>4
<1>6. OK(n)
  <2> HIDE DEF OK
  <2>1. n \in 0 .. n
    BY <1>2
  <2>2. QED BY <1>5, <2>1
<1>7. QED BY <1>1, <1>6 DEF n

-----------------------------------------------------------------------------
(* The inductive invariant: the log and the stages of recovery.            *)

WritesIn(recs, c) ==
    {i \in 1 .. Len(recs) : recs[i].kind \in {"Update", "CLR"} /\ recs[i].cell = c}

UpdatesIn(recs, t, c) == UpdatesOn(recs, t, c, Len(recs))

RecordsOf(recs, t) ==
    {i \in 1 .. Len(recs) : recs[i].kind # "Checkpoint" /\ recs[i].txn = t}

Writes == UNION {[D -> Byte] : D \in SUBSET Cell}

TypeInv ==
    /\ last_lsn \in [Txn -> Nat]
    /\ status \in [Txn -> {"idle", "live", "rolling", "committed", "aborted"}]
    /\ toUndo \in [Txn -> Seq(UpdateRecord)]
    /\ buffer \in PageSet /\ disk \in PageSet
    /\ stage \in {"running", "crashed", "analyzed", "redone", "undoing"}
    /\ losers \in SUBSET Txn
    /\ undoing \in [txn : SUBSET Txn, ops : Seq(UpdateRecord)]
    /\ durable \in [Cell -> Byte] /\ crashed \in [Cell -> Byte]
    /\ pending \in [Txn -> Writes]

\* The log is numbered by position.
LogInv ==
    /\ records \in Seq(LogRecord)
    /\ next_lsn = Len(records) + 1
    /\ \A i \in 1 .. Len(records) : records[i].lsn = i

\* What the stages of recovery know, and what a crash has erased.
StageInv ==
    /\ stage \in {"analyzed", "redone"} => analysis = analyze(records)
    /\ stage # "undoing" => losers = {} /\ undoing = Nobody
    /\ stage = "undoing" => losers \union undoing.txn = Live
    /\ losers \cap undoing.txn = {}
    /\ undoing = Nobody \/ \E t \in Txn : undoing.txn = {t}
    /\ stage # "running" => \A t \in Txn : toUndo[t] = <<>> /\ pending[t] = NoWrites

\* A scan of the log finds the live transactions and covers what was written
\* since the last checkpoint.
ScanInv(recs, a) ==
    /\ DOMAIN a = {"active_txns", "dirty_pages", "committed", "aborted"}
    /\ \A p \in DOMAIN a.dirty_pages : a.dirty_pages[p] \in 1 .. Len(recs)
    /\ \A i \in 1 .. Len(recs) :
         recs[i].kind \in {"Update", "CLR"} /\ i >= StartIdx(recs) =>
            /\ recs[i].cell[1] \in DOMAIN a.dirty_pages
            /\ a.dirty_pages[recs[i].cell[1]] <= i

AnalysisInv ==
    /\ DOMAIN analyze(records).active_txns = Live
    /\ ScanInv(records, analyze(records))

\* The entries of last_lsn and page_lsn: all records after the one that an
\* entry names can be by undo, that is of a transaction that is Behind.
PageRecordsOf(recs, p) ==
    {i \in 1 .. Len(recs) : recs[i].kind \in {"Update", "CLR"} /\ recs[i].cell[1] = p}

Behind(t) ==
    /\ crashes > 0
    /\ status[t] \in {"aborted"} \union (IF stage = "running" THEN {} ELSE {"live", "rolling"})

UndoSet == {i \in 1 .. Len(records) : records[i].kind \in {"CLR", "Abort"} /\ Behind(records[i].txn)}

Named(lsn, S, B) == lsn \in S \union {0} /\ \A i \in S : i > lsn => i \in B

NamesInv ==
    /\ page_lsn \in [Page -> Nat]
    /\ crashes \in Nat
    /\ stage # "running" => crashes > 0
    /\ \A t \in Txn : Named(last_lsn[t], RecordsOf(records, t), UndoSet)
    /\ \A p \in Page : Named(page_lsn[p], PageRecordsOf(records, p), UndoSet)

\* A transaction that has not begun has logged nothing.
IdleInv == \A t \in Txn : status[t] = "idle" => \A c \in Cell : UpdatesIn(records, t, c) = {}

ControlInv == TypeInv /\ LogInv /\ StageInv /\ AnalysisInv /\ NamesInv /\ IdleInv

-----------------------------------------------------------------------------
(* The inductive invariant: what the pages, the log and the histories say  *)
(* of each other, when checkpoints write the pages out.                    *)

\* v is what the log says of the cell.
LogHas(recs, c, v) ==
    /\ WritesIn(recs, c) = {} => v = 0
    /\ \A i \in WritesIn(recs, c) :
         (\A k \in WritesIn(recs, c) : k <= i) => recs[i].after = v

\* What is in the cells, or was when the crash came.
Now == IF stage \in {"crashed", "analyzed"} THEN crashed ELSE Contents(buffer)

\* The pages in memory are those of the log, and as long.
BufferInv ==
    \A c \in Cell :
        /\ LogHas(records, c, Now[c])
        /\ stage \notin {"crashed", "analyzed"} /\ WritesIn(records, c) # {} => There(buffer, c)

\* So are the pages on disk, where nothing was written since the checkpoint.
DiskInv ==
    \A c \in Cell :
        (\A i \in WritesIn(records, c) : i < StartIdx(records)) =>
            /\ LogHas(records, c, Get(disk, c))
            /\ WritesIn(records, c) # {} => There(disk, c)

\* A cell belongs to one live transaction, whose first update saved the
\* committed value; a cell of no live transaction has the committed value.
Owned ==
    \A t, u \in Live, c \in Cell :
        UpdatesIn(records, t, c) # {} /\ UpdatesIn(records, u, c) # {} => t = u

SavesIn(recs, saved, t) ==
    \A c \in Cell : \A j \in UpdatesIn(recs, t, c) :
        (\A k \in UpdatesIn(recs, t, c) : j <= k) => recs[j].before = saved[c]

CellInv ==
    /\ Owned
    /\ \A t \in Live : SavesIn(records, durable, t)
    /\ \A c \in Cell : (\A t \in Live : UpdatesIn(records, t, c) = {}) => Now[c] = durable[c]

\* The uncommitted writes are those that were logged.
PendingInv ==
    stage = "running" =>
        \A t \in Txn :
            /\ t \in Live => DOMAIN pending[t] = {c \in Cell : UpdatesIn(records, t, c) # {}}
            /\ t \notin Live => pending[t] = NoWrites
            /\ status[t] = "live" => \A c \in DOMAIN pending[t] : Now[c] = pending[t][c]

\* The operations left restore the saved value of every cell that the
\* transaction updated and that does not have it yet.
Restores(recs, now, saved, ops, t) ==
    /\ \A k \in DOMAIN ops : UpdatesIn(recs, t, ops[k].cell) # {}
    /\ \A c \in Cell : UpdatesIn(recs, t, c) # {} =>
         \/ \E k \in DOMAIN ops :
              /\ ops[k].cell = c /\ ops[k].before = saved[c]
              /\ \A l \in DOMAIN ops : ops[l].cell = c => l <= k
         \/ (\A l \in DOMAIN ops : ops[l].cell # c) /\ now[c] = saved[c]

UndoInv ==
    \A t \in Txn :
        /\ stage = "running" /\ status[t] = "rolling" =>
             Restores(records, Now, durable, toUndo[t], t)
        /\ undoing.txn = {t} => Restores(records, Now, durable, undoing.ops, t)

DataInv == BufferInv /\ DiskInv /\ CellInv /\ PendingInv /\ UndoInv

-----------------------------------------------------------------------------
(* Appending to the log.                                                   *)

IsWriteOn(r, c) == r.kind \in {"Update", "CLR"} /\ r.cell = c

IfThen(P, x) == IF P THEN {x} ELSE {}

\* What the log with one more record has, position by position.
Extended(recs, r, log) ==
    /\ Len(recs) \in Nat
    /\ log \in Seq(LogRecord)
    /\ Len(log) = Len(recs) + 1
    /\ \A i \in 1 .. Len(recs) : log[i] = recs[i]
    /\ log[Len(recs) + 1] = r
    /\ \A c : WritesIn(log, c) = WritesIn(recs, c) \union IfThen(IsWriteOn(r, c), Len(recs) + 1)
    /\ \A t, c : UpdatesIn(log, t, c) =
          UpdatesIn(recs, t, c) \union IfThen(IsUpdateOf(r, t) /\ r.cell = c, Len(recs) + 1)
    /\ \A t : RecordsOf(log, t) =
          RecordsOf(recs, t) \union IfThen(r.kind # "Checkpoint" /\ r.txn = t, Len(recs) + 1)
    /\ StartIdx(log) = IF r.kind = "Checkpoint" THEN Len(recs) + 1 ELSE StartIdx(recs)
    /\ StartIdx(recs) \in 1 .. Len(recs) + 1

LEMMA LogExtended ==
    ASSUME NEW recs \in Seq(LogRecord), NEW r \in LogRecord
    PROVE  Extended(recs, r, Append(recs, r))
<1> DEFINE log == Append(recs, r)
           n == Len(recs)
<1>1. n \in Nat /\ DOMAIN recs = 1 .. n
  BY LenProperties
<1>2. /\ log \in Seq(LogRecord) /\ Len(log) = n + 1
      /\ \A i \in 1 .. n : log[i] = recs[i]
      /\ log[n + 1] = r
  BY AppendProperties
<1>3. DOMAIN log = 1 .. n + 1
  BY <1>2, LenProperties
<1> HIDE DEF n, log
<1>4. \A j : j \in 1 .. n + 1 <=> j = n + 1 \/ j \in 1 .. n
  BY <1>1
<1>5. \A c : WritesIn(log, c) = WritesIn(recs, c) \union IfThen(IsWriteOn(r, c), n + 1)
  BY <1>2, <1>4 DEF WritesIn, IfThen, IsWriteOn, n
<1>6. \A t, c : UpdatesIn(log, t, c) =
          UpdatesIn(recs, t, c) \union IfThen(IsUpdateOf(r, t) /\ r.cell = c, n + 1)
  BY <1>2, <1>4 DEF UpdatesIn, UpdatesOn, IfThen, n
<1>7. \A t : RecordsOf(log, t) =
          RecordsOf(recs, t) \union IfThen(r.kind # "Checkpoint" /\ r.txn = t, n + 1)
  BY <1>2, <1>4 DEF RecordsOf, IfThen, n
<1>8. Checkpoints(log) = Checkpoints(recs) \union IfThen(r.kind = "Checkpoint", n + 1)
  BY <1>1, <1>2, <1>3, <1>4 DEF Checkpoints, IfThen
<1>9. StartIdx(recs) \in 1 .. n + 1
  <2>1. /\ StartIdx(recs) \in Nat \ {0}
        /\ Checkpoints(recs) # {} => StartIdx(recs) \in Checkpoints(recs)
    BY <1>1, StartIdxType DEF n
  <2>2. Checkpoints(recs) = {} => StartIdx(recs) = 1
    BY DEF StartIdx
  <2>3. Checkpoints(recs) \subseteq 1 .. n
    BY <1>1 DEF Checkpoints
  <2>4. QED BY <1>1, <2>1, <2>2, <2>3
<1>10. StartIdx(log) = IF r.kind = "Checkpoint" THEN n + 1 ELSE StartIdx(recs)
  <2>1. CASE r.kind = "Checkpoint"
    <3>1. Checkpoints(log) # {} /\ n + 1 \in Checkpoints(log)
      BY <1>8, <2>1 DEF IfThen
    <3>2. /\ StartIdx(log) \in Checkpoints(log)
          /\ \A i \in Checkpoints(log) : i <= StartIdx(log)
      BY <1>1, <1>2, <1>3, <3>1, StartIdxType
    <3>3. Checkpoints(log) \subseteq 1 .. n + 1
      BY <1>3 DEF Checkpoints
    <3>4. QED BY <1>1, <2>1, <3>1, <3>2, <3>3
  <2>2. CASE r.kind # "Checkpoint"
    <3>1. Checkpoints(log) = Checkpoints(recs)
      BY <1>8, <2>2 DEF IfThen
    <3>2. QED BY <2>2, <3>1 DEF StartIdx
  <2>3. QED BY <2>1, <2>2
<1>11. QED BY <1>1, <1>2, <1>5, <1>6, <1>7, <1>9, <1>10 DEF Extended, n, log

\* A write decides what the log says of its cell, and of no other.
LEMMA LogHasExtended ==
    ASSUME NEW recs, NEW r, NEW log, Extended(recs, r, log), NEW c, NEW v
    PROVE  /\ IsWriteOn(r, c) => LogHas(log, c, r.after)
           /\ ~ IsWriteOn(r, c) => (LogHas(log, c, v) <=> LogHas(recs, c, v))
<1> DEFINE n == Len(recs)
<1>1. /\ n \in Nat /\ log[n + 1] = r
      /\ WritesIn(log, c) = WritesIn(recs, c) \union IfThen(IsWriteOn(r, c), n + 1)
      /\ \A i \in 1 .. n : log[i] = recs[i]
      /\ WritesIn(recs, c) \subseteq 1 .. n
  BY DEF Extended, WritesIn
<1> HIDE DEF n
<1>2. CASE IsWriteOn(r, c)
  <2>1. n + 1 \in WritesIn(log, c)
    BY <1>1, <1>2 DEF IfThen
  <2>2. \A i \in WritesIn(log, c) : n + 1 <= i => i = n + 1
    BY <1>1, <1>2 DEF IfThen
  <2>3. QED BY <1>1, <1>2, <2>1, <2>2 DEF LogHas
<1>3. CASE ~ IsWriteOn(r, c)
  <2>1. WritesIn(log, c) = WritesIn(recs, c)
    BY <1>1, <1>3 DEF IfThen
  <2>2. \A i \in WritesIn(recs, c) : log[i] = recs[i]
    BY <1>1
  <2>3. QED BY <1>3, <2>1, <2>2 DEF LogHas
<1>4. QED BY <1>2, <1>3

\* The log says one thing of a cell.
LEMMA LogHasOne ==
    ASSUME NEW recs, Len(recs) \in Nat, NEW c, NEW v, NEW w, LogHas(recs, c, v), LogHas(recs, c, w)
    PROVE  v = w
<1>1. CASE WritesIn(recs, c) = {}
  BY <1>1 DEF LogHas
<1>2. CASE WritesIn(recs, c) # {}
  <2>1. WritesIn(recs, c) \subseteq 1 .. Len(recs)
    BY DEF WritesIn
  <2>2. PICK i \in WritesIn(recs, c) : \A k \in WritesIn(recs, c) : k <= i
    BY <1>2, <2>1, GreatestPosition
  <2>3. QED BY <2>2 DEF LogHas
<1>3. QED BY <1>1, <1>2

\* The scan goes on where it was, or begins anew at a checkpoint.
LEMMA AnalyzeExtended ==
    ASSUME NEW recs \in Seq(LogRecord), NEW r \in LogRecord
    PROVE  LET log == Append(recs, r)
           IN /\ r.kind # "Checkpoint" => analyze(log) = AnalyzeStep(analyze(recs), r)
              /\ r.kind = "Checkpoint" =>
                   analyze(log) = [active_txns |-> [t \in r.active_txns |-> 0],
                                   dirty_pages |-> <<>>, committed |-> {}, aborted |-> {}]
<1> DEFINE log == Append(recs, r)
           n == Len(recs)
           s == StartIdx(recs)
           f == Scan(recs)
           g == Scan(log)
<1>1. Extended(recs, r, log)
  BY LogExtended
<1>2. /\ n \in Nat /\ Len(log) = n + 1 /\ log[n + 1] = r
      /\ \A i \in 1 .. n : log[i] = recs[i]
      /\ s \in 1 .. n + 1
      /\ StartIdx(log) = IF r.kind = "Checkpoint" THEN n + 1 ELSE s
      /\ log \in Seq(LogRecord)
  BY <1>1 DEF Extended
<1>3. DOMAIN recs = 1 .. n /\ DOMAIN log = 1 .. n + 1
  BY <1>2, LenProperties
<1>4. /\ analyze(recs) = f[n]
      /\ \A i \in 0 .. n :
           f[i] = IF i < s THEN NothingSeen(recs) ELSE AnalyzeStep(f[i - 1], recs[i])
  BY <1>2, <1>3, ScanUnfolds
<1>5. /\ analyze(log) = g[n + 1]
      /\ \A i \in 0 .. n + 1 :
           g[i] = IF i < StartIdx(log) THEN NothingSeen(log) ELSE AnalyzeStep(g[i - 1], log[i])
  <2> HIDE DEF log
  <2>1. Len(log) \in Nat /\ DOMAIN log = 1 .. Len(log)
    BY <1>2, <1>3
  <2>2. /\ analyze(log) = Scan(log)[Len(log)]
        /\ \A i \in 0 .. Len(log) :
             Scan(log)[i] = IF i < StartIdx(log) THEN NothingSeen(log)
                            ELSE AnalyzeStep(Scan(log)[i - 1], log[i])
    BY ONLY <2>1, ScanUnfolds
  <2>3. QED BY <1>2, <2>2
<1>6. Checkpoints(log) = Checkpoints(recs) \union IfThen(r.kind = "Checkpoint", n + 1)
  <2>1. \A j : j \in 1 .. n + 1 <=> j = n + 1 \/ j \in 1 .. n
    BY <1>2
  <2>2. QED BY <1>2, <1>3, <2>1 DEF Checkpoints, IfThen
<1> HIDE DEF n, s, f, g, log
<1>7. CASE r.kind # "Checkpoint"
  <2>1. Checkpoints(log) = Checkpoints(recs) /\ StartIdx(log) = s
    BY <1>2, <1>6, <1>7 DEF IfThen
  <2>2. Checkpoints(recs) # {} => s \in 1 .. n /\ s = Max(Checkpoints(recs))
    <3>1. Checkpoints(recs) # {} => s \in Checkpoints(recs)
      <4>1. Len(recs) \in Nat /\ DOMAIN recs = 1 .. Len(recs)
        BY <1>2, <1>3 DEF n
      <4>2. QED BY <4>1, StartIdxType DEF s
    <3>2. QED BY <1>3, <3>1 DEF Checkpoints, s, StartIdx
  <2>3. InitialActive(log) = InitialActive(recs)
    <3>1. CASE Checkpoints(recs) = {}
      BY <2>1, <3>1 DEF InitialActive
    <3>2. CASE Checkpoints(recs) # {}
      <4>1. log[s] = recs[s]
        BY <1>2, <2>2, <3>2
      <4>2. QED BY <2>1, <2>2, <3>2, <4>1 DEF InitialActive
    <3>3. QED BY <3>1, <3>2
  <2>4. NothingSeen(log) = NothingSeen(recs)
    BY <2>3 DEF NothingSeen
  <2> DEFINE Bad == {i \in 0 .. n : g[i] # f[i]}
  <2>5. Bad = {}
    <3> SUFFICES ASSUME Bad # {} PROVE FALSE
      OBVIOUS
    <3>1. PICK m \in Bad : \A k \in Bad : m <= k
      <4>1. Bad \subseteq Nat
        BY <1>2
      <4> HIDE DEF Bad
      <4>2. QED BY <4>1, LeastPosition
    <3>2. m \in 0 .. n /\ g[m] # f[m] /\ m \in 0 .. n + 1
      BY <1>2
    <3>3. CASE m < s
      BY <1>4, <1>5, <2>1, <2>4, <3>2, <3>3
    <3>4. CASE ~ (m < s)
      <4>1. m \in 1 .. n /\ m - 1 \in 0 .. n /\ ~ (m <= m - 1)
        BY <1>2, <3>2, <3>4
      <4>2. g[m - 1] = f[m - 1]
        BY <3>1, <4>1
      <4>3. g[m] = AnalyzeStep(g[m - 1], log[m])
        BY <1>5, <2>1, <3>2, <3>4
      <4>4. f[m] = AnalyzeStep(f[m - 1], recs[m])
        BY <1>4, <3>2, <3>4
      <4>5. log[m] = recs[m]
        BY <1>2, <4>1
      <4>6. QED BY <3>2, <4>2, <4>3, <4>4, <4>5
    <3>5. QED BY <3>3, <3>4
  <2>6. g[n] = f[n]
    <3>1. n \in 0 .. n
      BY <1>2
    <3>2. QED BY <2>5, <3>1
  <2>7. n + 1 \in 0 .. n + 1 /\ ~ (n + 1 < s) /\ (n + 1) - 1 = n
    BY <1>2
  <2>8. g[n + 1] = AnalyzeStep(g[n], r)
    BY <1>2, <1>5, <2>1, <2>7
  <2>9. QED BY <1>4, <1>5, <1>7, <2>6, <2>8 DEF log
<1>8. CASE r.kind = "Checkpoint"
  <2>1. StartIdx(log) = n + 1 /\ n + 1 \in Checkpoints(log)
    BY <1>2, <1>6, <1>8 DEF IfThen
  <2>2. Max(Checkpoints(log)) = n + 1
    BY <2>1 DEF StartIdx
  <2>3. InitialActive(log) = [t \in r.active_txns |-> 0]
    BY <1>2, <2>1, <2>2 DEF InitialActive
  <2>4. g[n] = NothingSeen(log)
    <3>1. n \in 0 .. n + 1 /\ n < n + 1
      BY <1>2
    <3>2. QED BY <1>5, <2>1, <3>1
  <2>5. g[n + 1] = AnalyzeStep(g[n], r)
    <3>1. n + 1 \in 0 .. n + 1 /\ ~ (n + 1 < n + 1) /\ (n + 1) - 1 = n
      BY <1>2
    <3>2. QED BY <1>2, <1>5, <2>1, <3>1
  <2>6. AnalyzeStep(g[n], r) = g[n]
    BY <1>8 DEF AnalyzeStep
  <2>7. QED BY <1>5, <1>8, <2>3, <2>4, <2>5, <2>6 DEF NothingSeen, log
<1>9. QED BY <1>7, <1>8 DEF log

\* What one record does to the scan.
ActiveAfter(A, r) ==
    CASE r.kind = "Begin" -> A \union {r.txn}
      [] r.kind \in {"Commit", "Abort"} -> A \ {r.txn}
      [] r.kind = "Checkpoint" -> r.active_txns
      [] OTHER -> A

LEMMA ScanExtended ==
    ASSUME NEW recs \in Seq(LogRecord), NEW r \in LogRecord,
           r.lsn = Len(recs) + 1,
           ScanInv(recs, analyze(recs)),
           r.kind \in {"Update", "CLR"} => r.txn \in DOMAIN analyze(recs).active_txns
    PROVE  LET log == Append(recs, r)
           IN /\ ScanInv(log, analyze(log))
              /\ DOMAIN analyze(log).active_txns =
                   ActiveAfter(DOMAIN analyze(recs).active_txns, r)
<1> DEFINE log == Append(recs, r)
           n == Len(recs)
           a == analyze(recs)
           b == analyze(log)
<1>1. /\ n \in Nat /\ Len(log) = n + 1 /\ log[n + 1] = r
      /\ \A i \in 1 .. n : log[i] = recs[i]
      /\ StartIdx(log) = IF r.kind = "Checkpoint" THEN n + 1 ELSE StartIdx(recs)
  BY LogExtended DEF Extended
<1>2. /\ r.kind # "Checkpoint" => b = AnalyzeStep(a, r)
      /\ r.kind = "Checkpoint" =>
           b = [active_txns |-> [t \in r.active_txns |-> 0],
                dirty_pages |-> <<>>, committed |-> {}, aborted |-> {}]
  BY AnalyzeExtended
<1>3. /\ DOMAIN a = {"active_txns", "dirty_pages", "committed", "aborted"}
      /\ \A p \in DOMAIN a.dirty_pages : a.dirty_pages[p] \in 1 .. n
      /\ \A i \in 1 .. n :
           recs[i].kind \in {"Update", "CLR"} /\ i >= StartIdx(recs) =>
              /\ recs[i].cell[1] \in DOMAIN a.dirty_pages
              /\ a.dirty_pages[recs[i].cell[1]] <= i
  BY DEF ScanInv
<1>4. r.kind \in {"Begin", "Commit", "Abort", "Checkpoint", "Update", "CLR"}
  BY RecordFields
<1>5. r.lsn = n + 1 /\ (r.kind \in {"Update", "CLR"} => r.txn \in DOMAIN a.active_txns)
  OBVIOUS
<1> HIDE DEF n, a, b, log
<1>6. \A i : i \in 1 .. n + 1 <=> i = n + 1 \/ i \in 1 .. n
  BY <1>1
<1>7. CASE r.kind = "Checkpoint"
  <2>1. DOMAIN b.active_txns = r.active_txns /\ DOMAIN b.dirty_pages = {}
    BY <1>2, <1>7
  <2>2. DOMAIN b = {"active_txns", "dirty_pages", "committed", "aborted"}
    BY <1>2, <1>7
  <2>3. \A i \in 1 .. n + 1 : i >= n + 1 => i = n + 1
    BY <1>1
  <2>4. ScanInv(log, b)
    BY <1>1, <1>7, <2>1, <2>2, <2>3 DEF ScanInv
  <2>5. QED BY <1>7, <2>1, <2>4 DEF log, ActiveAfter, b
<1>8. CASE r.kind \in {"Begin", "Commit", "Abort"}
  <2>1. b = AnalyzeStep(a, r)
    BY <1>2, <1>8
  <2>2. DOMAIN b = DOMAIN a /\ b.dirty_pages = a.dirty_pages
    <3>1. CASE r.kind = "Begin"
      BY <1>3, <2>1, <3>1 DEF AnalyzeStep
    <3>2. CASE r.kind = "Commit"
      BY <1>3, <2>1, <3>2 DEF AnalyzeStep, Inactive
    <3>3. CASE r.kind = "Abort"
      BY <1>3, <2>1, <3>3 DEF AnalyzeStep, Inactive
    <3>4. QED BY <1>8, <3>1, <3>2, <3>3
  <2>3. DOMAIN b.active_txns = ActiveAfter(DOMAIN a.active_txns, r)
    <3>1. CASE r.kind = "Begin"
      <4>1. b.active_txns = Bind(a.active_txns, r.txn, r.lsn)
        BY <1>3, <2>1, <3>1 DEF AnalyzeStep
      <4>2. QED BY <3>1, <4>1 DEF Bind, ActiveAfter
    <3>2. CASE r.kind \in {"Commit", "Abort"}
      <4>1. b.active_txns = Restrict(a.active_txns, DOMAIN a.active_txns \ {r.txn})
        <5>1. CASE r.kind = "Commit"
          BY <1>3, <2>1, <5>1 DEF AnalyzeStep, Inactive
        <5>2. CASE r.kind = "Abort"
          BY <1>3, <2>1, <5>2 DEF AnalyzeStep, Inactive
        <5>3. QED BY <3>2, <5>1, <5>2
      <4>2. QED BY <3>2, <4>1 DEF Restrict, ActiveAfter
    <3>3. QED BY <1>8, <3>1, <3>2
  <2>4. ScanInv(log, b)
    BY <1>1, <1>3, <1>6, <1>8, <2>2 DEF ScanInv
  <2>5. QED BY <2>3, <2>4 DEF log, a, b
<1>9. CASE r.kind \in {"Update", "CLR"}
  <2> DEFINE q == r.cell[1]
  <2>1. b = [a EXCEPT !.active_txns = Bind(@, r.txn, r.lsn),
                      !.dirty_pages = BindNew(@, q, r.lsn)]
    BY <1>2, <1>5, <1>9 DEF AnalyzeStep
  <2>2. /\ DOMAIN b = DOMAIN a
        /\ b.active_txns = Bind(a.active_txns, r.txn, r.lsn)
        /\ b.dirty_pages = BindNew(a.dirty_pages, q, r.lsn)
    BY <1>3, <2>1
  <2>3. DOMAIN b.active_txns = DOMAIN a.active_txns
    BY <1>5, <1>9, <2>2 DEF Bind
  <2>4. /\ DOMAIN b.dirty_pages = DOMAIN a.dirty_pages \union {q}
        /\ \A p \in DOMAIN a.dirty_pages : b.dirty_pages[p] = a.dirty_pages[p]
        /\ q \notin DOMAIN a.dirty_pages => b.dirty_pages[q] = n + 1
    <3>1. CASE q \in DOMAIN a.dirty_pages
      BY <2>2, <3>1 DEF BindNew
    <3>2. CASE q \notin DOMAIN a.dirty_pages
      BY <1>5, <2>2, <3>2 DEF BindNew, Bind
    <3>3. QED BY <3>1, <3>2
  <2>5. \A p \in DOMAIN b.dirty_pages : b.dirty_pages[p] \in 1 .. n + 1
    BY <1>1, <1>3, <2>4
  <2>6. ASSUME NEW i \in 1 .. n + 1, log[i].kind \in {"Update", "CLR"}, i >= StartIdx(log)
        PROVE  /\ log[i].cell[1] \in DOMAIN b.dirty_pages
               /\ b.dirty_pages[log[i].cell[1]] <= i
    <3>1. CASE i = n + 1
      <4>1. log[i] = r
        BY <1>1, <3>1
      <4>2. CASE q \in DOMAIN a.dirty_pages
        <5>1. a.dirty_pages[q] <= n + 1
          BY <1>1, <1>3, <4>2
        <5>2. QED BY <2>4, <3>1, <4>1, <4>2, <5>1
      <4>3. CASE q \notin DOMAIN a.dirty_pages
        BY <1>1, <2>4, <3>1, <4>1, <4>3
      <4>4. QED BY <4>2, <4>3
    <3>2. CASE i \in 1 .. n
      BY <1>1, <1>3, <1>9, <2>4, <2>6, <3>2
    <3>3. QED BY <1>6, <3>1, <3>2
  <2>7. ScanInv(log, b)
    BY <1>1, <1>3, <2>2, <2>5, <2>6 DEF ScanInv
  <2>8. ActiveAfter(DOMAIN a.active_txns, r) = DOMAIN a.active_txns
    BY <1>9 DEF ActiveAfter
  <2>9. QED BY <2>3, <2>7, <2>8 DEF log, a, b
<1>10. QED BY <1>4, <1>7, <1>8, <1>9

LEMMA GetByte ==
    ASSUME NEW pages \in PageSet, NEW c \in Cell
    PROVE  Get(pages, c) \in Byte
<1>1. c[1] \in Page /\ c[2] \in Nat \ {0} /\ 0 \in Byte
  BY WALAssumption
<1>2. pages[c[1]] \in Seq(Byte)
  BY <1>1 DEF PageSet
<1> DEFINE s == pages[c[1]]
<1> HIDE DEF s
<1>3. s \in Seq(Byte)
  BY <1>2 DEF s
<1>4. Len(s) \in Nat /\ \A i \in 1 .. Len(s) : s[i] \in Byte
  BY <1>3, LenProperties, ElementOfSeq
<1>5. Len(s) >= c[2] => s[c[2]] \in Byte
  BY <1>1, <1>4
<1>6. QED BY <1>1, <1>5 DEF Get, s

\* What undo restores it restores only where the page is long enough.
LEMMA WriteIfThere ==
    ASSUME NEW pages \in PageSet, NEW c \in Cell, NEW v \in Byte, NEW after,
           after = [pages EXCEPT ![c[1]] = PutIfThere(@, c[2], v)]
    PROVE  /\ after \in PageSet
           /\ There(pages, c) => after = WriteTo(pages, c, v)
<1>1. CASE There(pages, c)
  <2>1. after = WriteTo(pages, c, v)
    BY <1>1 DEF There, PutIfThere, WriteTo
  <2>2. QED BY <2>1, WriteCell DEF Wrote
<1>2. CASE ~ There(pages, c)
  <2>1. after = [pages EXCEPT ![c[1]] = pages[c[1]]]
    BY <1>2 DEF There, PutIfThere
  <2>2. QED BY <1>2, <2>1 DEF PageSet
<1>3. QED BY <1>1, <1>2

-----------------------------------------------------------------------------
(* What the actions log.                                                   *)

MarkRecord(kind, t) == [kind |-> kind, lsn |-> next_lsn, txn |-> t]

UpdateLogged(t, c, v) ==
    [kind |-> "Update", lsn |-> next_lsn, txn |-> t, cell |-> c,
     before |-> Get(buffer, c), after |-> v]

CheckpointLogged == [kind |-> "Checkpoint", lsn |-> next_lsn, active_txns |-> Live]

Logs(r) ==
    /\ r \in LogRecord
    /\ r.lsn = Len(records) + 1
    /\ records' = Append(records, r)
    /\ Extended(records, r, records')
    /\ LogInv'

LEMMA PushLogs ==
    ASSUME LogInv, NEW r \in LogRecord, r.lsn = next_lsn, Push(r)
    PROVE  Logs(r)
<1>1. records' = Append(records, r) /\ next_lsn' = next_lsn + 1
  BY DEF Push
<1>2. records \in Seq(LogRecord)
  BY DEF LogInv
<1>3. Extended(records, r, records')
  BY <1>1, <1>2, LogExtended
<1>4. LogInv'
  BY <1>1, <1>3 DEF LogInv, Extended
<1>5. QED BY <1>1, <1>3, <1>4 DEF Logs, LogInv

LEMMA ActionsLog ==
    ASSUME TypeInv, LogInv, NEW t \in Txn
    PROVE  /\ Begin(t) => Logs(MarkRecord("Begin", t))
           /\ \A c \in Cell, v \in Byte : Update(t, c, v) => Logs(UpdateLogged(t, c, v))
           /\ Commit(t) => Logs(MarkRecord("Commit", t))
           /\ RollbackOne(t) =>
                /\ Head(toUndo[t]) \in UpdateRecord
                /\ Logs(CLR(t, Head(toUndo[t]).cell, Head(toUndo[t]).before))
           /\ EndRollback(t) => Logs(MarkRecord("Abort", t))
           /\ UndoOne(t) =>
                /\ Head(undoing.ops) \in UpdateRecord
                /\ Logs(CLR(t, Head(undoing.ops).cell, Head(undoing.ops).before))
           /\ UndoEnd(t) => Logs(MarkRecord("Abort", t))
<1>1. next_lsn \in Nat
  BY LenProperties DEF LogInv
<1>2. \A k \in {"Begin", "Commit", "Abort"} :
        MarkRecord(k, t) \in LogRecord /\ MarkRecord(k, t).lsn = next_lsn
  BY <1>1 DEF MarkRecord, LogRecord
<1>3. \A c \in Cell, v \in Byte : CLR(t, c, v) \in LogRecord /\ CLR(t, c, v).lsn = next_lsn
  BY <1>1 DEF CLR, LogRecord
<1>4. \A c \in Cell, v \in Byte :
        UpdateLogged(t, c, v) \in LogRecord /\ UpdateLogged(t, c, v).lsn = next_lsn
  <2>1. \A c \in Cell : Get(buffer, c) \in Byte
    BY GetByte DEF TypeInv
  <2>2. QED BY <1>1, <2>1 DEF UpdateLogged, LogRecord
<1>5. ASSUME NEW ops \in Seq(UpdateRecord), ops # <<>>
      PROVE  Head(ops) \in UpdateRecord /\ Head(ops).cell \in Cell /\ Head(ops).before \in Byte
  <2>1. Head(ops) \in UpdateRecord
    BY <1>5, HeadTailProperties
  <2>2. QED BY <2>1 DEF UpdateRecord
<1>6. ASSUME Begin(t) PROVE Logs(MarkRecord("Begin", t))
  BY <1>2, <1>6, PushLogs DEF Begin, begin, Mark, MarkRecord
<1>7. ASSUME NEW c \in Cell, NEW v \in Byte, Update(t, c, v) PROVE Logs(UpdateLogged(t, c, v))
  BY <1>4, <1>7, PushLogs DEF Update, update, UpdateLogged
<1>8. ASSUME Commit(t) PROVE Logs(MarkRecord("Commit", t))
  BY <1>2, <1>8, PushLogs DEF Commit, commit, Mark, MarkRecord
<1>9. ASSUME RollbackOne(t)
      PROVE  /\ Head(toUndo[t]) \in UpdateRecord
             /\ Logs(CLR(t, Head(toUndo[t]).cell, Head(toUndo[t]).before))
  <2>1. toUndo[t] \in Seq(UpdateRecord) /\ toUndo[t] # <<>>
    BY <1>9 DEF TypeInv, RollbackOne
  <2>2. /\ Head(toUndo[t]) \in UpdateRecord
        /\ Head(toUndo[t]).cell \in Cell /\ Head(toUndo[t]).before \in Byte
    BY <1>5, <2>1
  <2>3. Push(CLR(t, Head(toUndo[t]).cell, Head(toUndo[t]).before))
    BY <1>9 DEF RollbackOne, clr
  <2>4. QED BY <1>3, <2>2, <2>3, PushLogs
<1>10. ASSUME EndRollback(t) PROVE Logs(MarkRecord("Abort", t))
  BY <1>2, <1>10, PushLogs DEF EndRollback, abort, Mark, MarkRecord
<1>11. ASSUME UndoOne(t)
       PROVE  /\ Head(undoing.ops) \in UpdateRecord
              /\ Logs(CLR(t, Head(undoing.ops).cell, Head(undoing.ops).before))
  <2>1. undoing.ops \in Seq(UpdateRecord) /\ undoing.ops # <<>>
    BY <1>11 DEF TypeInv, UndoOne
  <2>2. /\ Head(undoing.ops) \in UpdateRecord
        /\ Head(undoing.ops).cell \in Cell /\ Head(undoing.ops).before \in Byte
    BY <1>5, <2>1
  <2>3. Push(CLR(t, Head(undoing.ops).cell, Head(undoing.ops).before))
    BY <1>11 DEF UndoOne, undoPush
  <2>4. QED BY <1>3, <2>2, <2>3, PushLogs
<1>12. ASSUME UndoEnd(t) PROVE Logs(MarkRecord("Abort", t))
  BY <1>2, <1>12, PushLogs DEF UndoEnd, undoPush, MarkRecord
<1>13. QED BY <1>6, <1>7, <1>8, <1>9, <1>10, <1>11, <1>12

LEMMA CheckpointLogs ==
    ASSUME LogInv, Checkpoint
    PROVE  Logs(CheckpointLogged)
<1>1. next_lsn \in Nat
  BY LenProperties DEF LogInv
<1>2. CheckpointLogged \in LogRecord /\ CheckpointLogged.lsn = next_lsn
  BY <1>1 DEF CheckpointLogged, LogRecord, Live
<1>3. Push(CheckpointLogged)
  BY DEF Checkpoint, checkpoint, CheckpointLogged
<1>4. QED BY <1>2, <1>3, PushLogs

-----------------------------------------------------------------------------
(* Control: the invariant holds at first and is kept by every action.      *)

LEMMA ControlInit ==
    ASSUME Init
    PROVE  ControlInv
<1> USE DEF Init, WALInit
<1>1. TypeInv
  <2>1. Blank \in PageSet
    BY DEF Blank, PageSet
  <2>2. NoWrites \in Writes
    <3>1. NoWrites \in [{} -> Byte]
      BY DEF NoWrites
    <3>2. QED BY <3>1 DEF Writes
  <2>3. Nobody \in [txn : SUBSET Txn, ops : Seq(UpdateRecord)]
    BY DEF Nobody
  <2>4. 0 \in Byte
    BY WALAssumption
  <2>5. QED BY <2>1, <2>2, <2>3, <2>4 DEF TypeInv
<1>2. records = <<>> /\ Len(records) = 0 /\ DOMAIN records = {} /\ 1 .. 0 = {}
  OBVIOUS
<1>3. LogInv
  BY <1>2 DEF LogInv
<1>4. Live = {}
  BY DEF Live
<1>5. StageInv
  BY <1>4 DEF StageInv, Nobody
<1>6. AnalysisInv
  <2>1. Checkpoints(records) = {} /\ StartIdx(records) = 1
    BY <1>2 DEF Checkpoints, StartIdx
  <2>2. analyze(records) = Scan(records)[0] /\ Scan(records)[0] = NothingSeen(records)
    <3>1. Len(records) \in Nat /\ DOMAIN records = 1 .. Len(records)
      BY <1>2
    <3>2. /\ analyze(records) = Scan(records)[Len(records)]
          /\ \A i \in 0 .. Len(records) :
               Scan(records)[i] = IF i < StartIdx(records) THEN NothingSeen(records)
                                  ELSE AnalyzeStep(Scan(records)[i - 1], records[i])
      BY ONLY <3>1, ScanUnfolds
    <3>3. 0 \in 0 .. 0 /\ 0 < 1
      OBVIOUS
    <3>4. QED BY ONLY <1>2, <2>1, <3>2, <3>3
  <2>3. NothingSeen(records) =
          [active_txns |-> <<>>, dirty_pages |-> <<>>, committed |-> {}, aborted |-> {}]
    BY <2>1 DEF NothingSeen, InitialActive
  <2>4. DOMAIN <<>> = {}
    OBVIOUS
  <2> HIDE DEF Init, WALInit
  <2> DEFINE a == analyze(records)
  <2>5. a = [active_txns |-> <<>>, dirty_pages |-> <<>>, committed |-> {}, aborted |-> {}]
    BY <2>2, <2>3
  <2> HIDE DEF a
  <2>6. /\ DOMAIN a = {"active_txns", "dirty_pages", "committed", "aborted"}
        /\ DOMAIN a.active_txns = {} /\ DOMAIN a.dirty_pages = {}
    BY <2>4, <2>5
  <2>7. ScanInv(records, a)
    BY <1>2, <2>6 DEF ScanInv
  <2>8. QED BY <1>4, <2>6, <2>7 DEF AnalysisInv, a
<1>7. NamesInv
  BY <1>2 DEF NamesInv, Named, RecordsOf, PageRecordsOf
<1>8. IdleInv
  BY <1>2 DEF IdleInv, UpdatesIn, UpdatesOn
<1>9. QED BY <1>1, <1>3, <1>5, <1>6, <1>7, <1>8 DEF ControlInv

LEMMA TypeStep ==
    ASSUME TypeInv, LogInv, StageInv, AnalysisInv, Next
    PROVE  TypeInv'
<1> USE DEF TypeInv
<1>1. next_lsn \in Nat
  BY LenProperties DEF LogInv
<1>2. NoWrites \in Writes
  <2>1. NoWrites \in [{} -> Byte]
    BY DEF NoWrites
  <2>2. QED BY <2>1 DEF Writes
<1>3. \A s \in Seq(UpdateRecord) : s # <<>> => Tail(s) \in Seq(UpdateRecord)
  BY HeadTailProperties
<1>4. \A t : UndoOps(records, t) \in Seq(UpdateRecord)
  BY UndoOpsOutcome DEF CollectedUpto, LogInv
<1>5. \A t, u \in Txn : [last_lsn EXCEPT ![t] = next_lsn] \in [Txn -> Nat]
  BY <1>1
<1>6. ASSUME NEW t \in Txn, Begin(t) PROVE TypeInv'
  BY <1>5, <1>6 DEF Begin, begin, Mark, recoveryVars, storeVars
<1>7. ASSUME NEW t \in Txn, NEW c \in Cell, NEW v \in Byte, Update(t, c, v) PROVE TypeInv'
  <2>1. buffer' \in PageSet
    <3>1. buffer' = WriteTo(buffer, c, v)
      BY <1>7 DEF Update, WriteTo
    <3>2. QED BY <3>1, WriteCell DEF Wrote
  <2>2. Bind(pending[t], c, v) \in Writes
    <3>1. PICK D \in SUBSET Cell : pending[t] \in [D -> Byte]
      BY DEF Writes
    <3>2. Bind(pending[t], c, v) \in [D \union {c} -> Byte]
      BY <3>1 DEF Bind
    <3>3. D \union {c} \in SUBSET Cell
      OBVIOUS
    <3>4. QED BY <3>2, <3>3 DEF Writes
  <2>3. pending' \in [Txn -> Writes]
    BY <1>7, <2>2 DEF Update
  <2>4. QED BY <1>5, <1>7, <2>1, <2>3 DEF Update, update, managerVars, recoveryVars
<1>8. ASSUME NEW t \in Txn, Commit(t) PROVE TypeInv'
  <2>1. \A c \in Cell : c \in DOMAIN pending[t] => pending[t][c] \in Byte
    <3>1. PICK D \in SUBSET Cell : pending[t] \in [D -> Byte]
      BY DEF Writes
    <3>2. QED BY <3>1
  <2>2. durable' \in [Cell -> Byte]
    BY <1>8, <2>1 DEF Commit
  <2>3. QED BY <1>2, <1>5, <1>8, <2>2 DEF Commit, commit, Mark, recoveryVars
<1>9. ASSUME NEW t \in Txn, StartRollback(t) PROVE TypeInv'
  BY <1>4, <1>9 DEF StartRollback, walVars, recoveryVars, storeVars
<1>10. ASSUME NEW t \in Txn, RollbackOne(t) PROVE TypeInv'
  <2>1. Head(toUndo[t]) \in UpdateRecord
    BY <1>10, ActionsLog
  <2>2. Head(toUndo[t]).cell \in Cell /\ Head(toUndo[t]).before \in Byte
    BY <2>1 DEF UpdateRecord
  <2>3. buffer' \in PageSet
    <3> DEFINE op == Head(toUndo[t])
    <3>1. buffer' = WriteTo(buffer, op.cell, op.before)
      BY <1>10 DEF RollbackOne, WriteTo
    <3>2. QED BY <2>2, <3>1, WriteCell DEF Wrote
  <2>4. toUndo' \in [Txn -> Seq(UpdateRecord)]
    BY <1>3, <1>10 DEF RollbackOne
  <2>5. last_lsn' \in [Txn -> Nat]
    BY <1>5, <1>10 DEF RollbackOne, clr
  <2>6. QED BY <1>10, <2>3, <2>4, <2>5 DEF RollbackOne, recoveryVars, storeVars
<1>11. ASSUME NEW t \in Txn, EndRollback(t) PROVE TypeInv'
  BY <1>2, <1>5, <1>11 DEF EndRollback, abort, Mark, recoveryVars
<1>12. ASSUME Checkpoint PROVE TypeInv'
  BY <1>12 DEF Checkpoint, checkpoint, managerVars, recoveryVars, storeVars
<1>13. ASSUME NEW p \in Page, FlushPage(p) PROVE TypeInv'
  <2>1. disk' \in PageSet
    BY <1>13 DEF FlushPage, PageSet
  <2>2. QED BY <1>13, <2>1 DEF FlushPage, walVars, managerVars, recoveryVars, storeVars
<1>14. ASSUME Crash PROVE TypeInv'
  <2>1. Blank \in PageSet
    BY DEF Blank, PageSet
  <2>2. Contents(buffer) \in [Cell -> Byte]
    BY GetByte DEF Contents
  <2>3. Nobody \in [txn : SUBSET Txn, ops : Seq(UpdateRecord)]
    BY DEF Nobody
  <2>4. QED BY <1>2, <1>14, <2>1, <2>2, <2>3 DEF Crash, walVars
<1>15. ASSUME Analyze PROVE TypeInv'
  BY <1>15 DEF Analyze, walVars, managerVars, storeVars
<1>16. ASSUME Redo PROVE TypeInv'
  <2>1. buffer' \in PageSet
    BY <1>16, RedoOutcome DEF Redo, RedoneUpto, LogInv
  <2>2. QED BY <1>16, <2>1 DEF Redo, walVars, managerVars, recoveryVars, storeVars
<1>17. ASSUME StartUndo PROVE TypeInv'
  <2>1. losers' = Live
    BY <1>17 DEF StartUndo, StageInv, AnalysisInv
  <2>2. QED BY <1>17, <2>1 DEF StartUndo, walVars, managerVars, storeVars, Live
<1>18. ASSUME NEW t \in Txn, UndoNext(t) PROVE TypeInv'
  BY <1>4, <1>18 DEF UndoNext, walVars, managerVars, storeVars
<1>19. ASSUME NEW t \in Txn, UndoOne(t) PROVE TypeInv'
  <2>1. Head(undoing.ops) \in UpdateRecord
    BY <1>19, ActionsLog
  <2>2. Head(undoing.ops).cell \in Cell /\ Head(undoing.ops).before \in Byte
    BY <2>1 DEF UpdateRecord
  <2>3. buffer' \in PageSet
    BY <1>19, <2>2, WriteIfThere DEF UndoOne
  <2>4. undoing' \in [txn : SUBSET Txn, ops : Seq(UpdateRecord)]
    BY <1>3, <1>19 DEF UndoOne
  <2>5. QED BY <1>19, <2>3, <2>4 DEF UndoOne, undoPush, managerVars, storeVars
<1>20. ASSUME NEW t \in Txn, UndoEnd(t) PROVE TypeInv'
  <2>1. Nobody \in [txn : SUBSET Txn, ops : Seq(UpdateRecord)]
    BY DEF Nobody
  <2>2. QED BY <1>20, <2>1 DEF UndoEnd, undoPush, storeVars
<1>21. ASSUME Restart PROVE TypeInv'
  BY <1>21 DEF Restart, walVars, managerVars, storeVars
<1>22. QED
  BY <1>6, <1>7, <1>8, <1>9, <1>10, <1>11, <1>12, <1>13, <1>14, <1>15, <1>16, <1>17,
     <1>18, <1>19, <1>20, <1>21 DEF Next, Caller, Recover

LEMMA StageStep ==
    ASSUME TypeInv, StageInv, AnalysisInv, Next
    PROVE  StageInv'
<1> USE DEF StageInv, Nobody
<1>1. ASSUME NEW t \in Txn, Caller(t) PROVE StageInv'
  <2>1. stage = "running" /\ stage' = stage /\ UNCHANGED recoveryVars
    BY <1>1 DEF Caller, Begin, Update, Commit, StartRollback, RollbackOne, EndRollback, Running
  <2>2. QED BY <2>1 DEF recoveryVars
<1>2. ASSUME Checkpoint PROVE StageInv'
  <2>1. stage = "running" /\ stage' = stage /\ UNCHANGED recoveryVars
    BY <1>2 DEF Checkpoint, Running
  <2>2. QED BY <2>1 DEF recoveryVars
<1>3. ASSUME NEW p \in Page, FlushPage(p) PROVE StageInv'
  BY <1>3 DEF FlushPage, walVars, managerVars, recoveryVars, storeVars, Live
<1>4. ASSUME Crash PROVE StageInv'
  BY <1>4 DEF Crash
<1>5. ASSUME Analyze PROVE StageInv'
  BY <1>5 DEF Analyze, walVars, managerVars, storeVars
<1>6. ASSUME Redo PROVE StageInv'
  BY <1>6 DEF Redo, walVars, managerVars, recoveryVars, storeVars
<1>7. ASSUME StartUndo PROVE StageInv'
  <2>1. losers' = Live /\ Live' = Live
    BY <1>7 DEF StartUndo, AnalysisInv, Live, managerVars
  <2>2. QED BY <1>7, <2>1 DEF StartUndo, walVars, managerVars, storeVars
<1>8. ASSUME NEW t \in Txn, UndoNext(t) PROVE StageInv'
  BY <1>8 DEF UndoNext, walVars, managerVars, storeVars, Live
<1>9. ASSUME NEW t \in Txn, UndoOne(t) PROVE StageInv'
  <2>1. undoing'.txn = {t} /\ stage' = "undoing" /\ losers' = losers /\ Live' = Live
    BY <1>9 DEF UndoOne, managerVars, Live, TypeInv
  <2>2. UNCHANGED <<toUndo, pending>>
    BY <1>9 DEF UndoOne, managerVars, storeVars
  <2>3. undoing.txn = {t} /\ stage = "undoing"
    BY <1>9 DEF UndoOne
  <2>4. QED BY <2>1, <2>2, <2>3
<1>10. ASSUME NEW t \in Txn, UndoEnd(t) PROVE StageInv'
  <2>1. undoing' = Nobody /\ stage' = "undoing" /\ losers' = losers /\ UNCHANGED <<toUndo, pending>>
    BY <1>10 DEF UndoEnd, storeVars
  <2>2. undoing.txn = {t} /\ stage = "undoing"
    BY <1>10 DEF UndoEnd
  <2>3. Live' = Live \ {t}
    BY <1>10 DEF UndoEnd, Live, TypeInv
  <2>4. losers = Live \ {t}
    BY <2>2
  <2>5. QED BY <2>1, <2>2, <2>3, <2>4
<1>11. ASSUME Restart PROVE StageInv'
  BY <1>11 DEF Restart, walVars, managerVars, storeVars
<1>12. QED
  BY <1>1, <1>2, <1>3, <1>4, <1>5, <1>6, <1>7, <1>8, <1>9, <1>10, <1>11 DEF Next, Recover

\* What an appended record does to the scan of the log.
LEMMA LogsScan ==
    ASSUME LogInv, AnalysisInv, NEW r, Logs(r),
           r.kind \in {"Update", "CLR"} => r.txn \in Live
    PROVE  /\ ScanInv(records', analyze(records'))
           /\ DOMAIN analyze(records').active_txns = ActiveAfter(Live, r)
<1>1. /\ records \in Seq(LogRecord) /\ r \in LogRecord /\ r.lsn = Len(records) + 1
      /\ records' = Append(records, r)
  BY DEF LogInv, Logs
<1>2. ScanInv(records, analyze(records)) /\ DOMAIN analyze(records).active_txns = Live
  BY DEF AnalysisInv
<1>3. QED BY <1>1, <1>2, ScanExtended

LEMMA AnalysisStep ==
    ASSUME TypeInv, LogInv, StageInv, AnalysisInv, Next
    PROVE  AnalysisInv'
<1> DEFINE Known(r) == /\ ScanInv(records', analyze(records'))
                       /\ DOMAIN analyze(records').active_txns = ActiveAfter(Live, r)
<1>1. ASSUME DOMAIN analyze(records').active_txns = Live', ScanInv(records', analyze(records'))
      PROVE  AnalysisInv'
  BY <1>1 DEF AnalysisInv
<1>2. ASSUME records' = records, Live' = Live PROVE AnalysisInv'
  BY <1>1, <1>2 DEF AnalysisInv
<1>3. ASSUME NEW t \in Txn, Begin(t) PROVE AnalysisInv'
  <2>1. Logs(MarkRecord("Begin", t))
    BY <1>3, ActionsLog
  <2>2. Known(MarkRecord("Begin", t))
    BY <2>1, LogsScan DEF MarkRecord
  <2>3. Live' = Live \union {t}
    BY <1>3 DEF Begin, Live, TypeInv
  <2>4. ActiveAfter(Live, MarkRecord("Begin", t)) = Live'
    BY <2>3 DEF ActiveAfter, MarkRecord
  <2>5. QED BY <1>1, <2>2, <2>4
<1>4. ASSUME NEW t \in Txn, NEW c \in Cell, NEW v \in Byte, Update(t, c, v) PROVE AnalysisInv'
  <2>1. Logs(UpdateLogged(t, c, v))
    BY <1>4, ActionsLog
  <2>2. t \in Live /\ Live' = Live
    BY <1>4 DEF Update, Live, managerVars
  <2>3. Known(UpdateLogged(t, c, v))
    BY <2>1, <2>2, LogsScan DEF UpdateLogged
  <2>4. ActiveAfter(Live, UpdateLogged(t, c, v)) = Live
    BY DEF ActiveAfter, UpdateLogged
  <2>5. QED BY <1>1, <2>2, <2>3, <2>4
<1>5. ASSUME NEW t \in Txn, Commit(t) PROVE AnalysisInv'
  <2>1. Logs(MarkRecord("Commit", t))
    BY <1>5, ActionsLog
  <2>2. Known(MarkRecord("Commit", t))
    BY <2>1, LogsScan DEF MarkRecord
  <2>3. Live' = Live \ {t}
    BY <1>5 DEF Commit, Live, TypeInv
  <2>4. ActiveAfter(Live, MarkRecord("Commit", t)) = Live'
    BY <2>3 DEF ActiveAfter, MarkRecord
  <2>5. QED BY <1>1, <2>2, <2>4
<1>6. ASSUME NEW t \in Txn, StartRollback(t) PROVE AnalysisInv'
  <2>1. records' = records
    BY <1>6 DEF StartRollback, walVars
  <2>2. Live' = Live
    BY <1>6 DEF StartRollback, Live, TypeInv
  <2>3. QED BY <1>2, <2>1, <2>2
<1>7. ASSUME NEW t \in Txn, NEW op, Logs(CLR(t, op.cell, op.before)), t \in Live, Live' = Live
      PROVE  AnalysisInv'
  <2>1. Known(CLR(t, op.cell, op.before))
    BY <1>7, LogsScan DEF CLR
  <2>2. ActiveAfter(Live, CLR(t, op.cell, op.before)) = Live
    BY DEF ActiveAfter, CLR
  <2>3. QED BY <1>1, <1>7, <2>1, <2>2
<1>8. ASSUME NEW t \in Txn, RollbackOne(t) PROVE AnalysisInv'
  <2>1. Logs(CLR(t, Head(toUndo[t]).cell, Head(toUndo[t]).before))
    BY <1>8, ActionsLog
  <2>2. t \in Live /\ Live' = Live
    BY <1>8 DEF RollbackOne, Live
  <2>3. QED BY <1>7, <2>1, <2>2
<1>9. ASSUME NEW t \in Txn, UndoOne(t) PROVE AnalysisInv'
  <2>1. Logs(CLR(t, Head(undoing.ops).cell, Head(undoing.ops).before))
    BY <1>9, ActionsLog
  <2>2. t \in Live /\ Live' = Live
    BY <1>9 DEF UndoOne, Live, StageInv, managerVars
  <2>3. QED BY <1>7, <2>1, <2>2
<1>10. ASSUME NEW t \in Txn, EndRollback(t) \/ UndoEnd(t) PROVE AnalysisInv'
  <2>1. Logs(MarkRecord("Abort", t))
    BY <1>10, ActionsLog
  <2>2. Known(MarkRecord("Abort", t))
    BY <2>1, LogsScan DEF MarkRecord
  <2>3. Live' = Live \ {t}
    BY <1>10 DEF EndRollback, UndoEnd, Live, TypeInv
  <2>4. ActiveAfter(Live, MarkRecord("Abort", t)) = Live'
    BY <2>3 DEF ActiveAfter, MarkRecord
  <2>5. QED BY <1>1, <2>2, <2>4
<1>11. ASSUME Checkpoint PROVE AnalysisInv'
  <2>1. Logs(CheckpointLogged)
    BY <1>11, CheckpointLogs
  <2>2. Known(CheckpointLogged)
    BY <2>1, LogsScan DEF CheckpointLogged
  <2>3. Live' = Live
    BY <1>11 DEF Checkpoint, Live, managerVars
  <2>4. ActiveAfter(Live, CheckpointLogged) = Live
    BY DEF ActiveAfter, CheckpointLogged
  <2>5. QED BY <1>1, <2>2, <2>3, <2>4
<1>12. ASSUME \/ \E p \in Page : FlushPage(p)
              \/ Crash \/ Analyze \/ Redo \/ StartUndo \/ Restart
              \/ \E t \in Txn : UndoNext(t)
       PROVE  AnalysisInv'
  <2>1. records' = records /\ status' = status
    BY <1>12 DEF FlushPage, Crash, Analyze, Redo, StartUndo, Restart, UndoNext, walVars, managerVars
  <2>2. QED BY <1>2, <2>1 DEF Live
<1>13. QED
  BY <1>3, <1>4, <1>5, <1>6, <1>8, <1>9, <1>10, <1>11, <1>12 DEF Next, Caller, Recover

\* An entry stays right when its transaction or page gets one more record:
\* it is told of it, or the record is by undo.
LEMMA NamedExtended ==
    ASSUME NEW n \in Nat, NEW S \in SUBSET (1 .. n), NEW lsn, NEW lsn2, NEW B, NEW B2,
           Named(lsn, S, B), B \subseteq B2, NEW P \in BOOLEAN,
           P => lsn2 = n + 1 \/ (lsn2 = lsn /\ n + 1 \in B2),
           ~ P => lsn2 = lsn
    PROVE  Named(lsn2, S \union IfThen(P, n + 1), B2)
<1>1. CASE ~ P
  BY <1>1 DEF Named, IfThen
<1>2. CASE P /\ lsn2 = n + 1
  BY <1>2 DEF Named, IfThen
<1>3. CASE P /\ lsn2 = lsn /\ n + 1 \in B2
  BY <1>3 DEF Named, IfThen
<1>4. QED BY <1>1, <1>2, <1>3

OfTxn(r, t) == r.kind # "Checkpoint" /\ r.txn = t
OfPage(r, p) == r.kind \in {"Update", "CLR"} /\ r.cell[1] = p

\* The maps are told of the record, or undo appends it.
Told(r) ==
    /\ \A t \in Txn : last_lsn'[t] = IF OfTxn(r, t) THEN next_lsn ELSE last_lsn[t]
    /\ \A p \in Page : page_lsn'[p] = IF OfPage(r, p) THEN next_lsn ELSE page_lsn[p]

Untold(r) ==
    /\ UNCHANGED <<last_lsn, page_lsn>>
    /\ r.kind \in {"CLR", "Abort"} /\ Behind(r.txn)'

LEMMA UndoSetKept ==
    ASSUME LogInv, \/ records' = records
                   \/ \E r : Logs(r),
           \A u \in Txn : Behind(u) => Behind(u)'
    PROVE  UndoSet \subseteq UndoSet'
<1>1. \A i \in 1 .. Len(records) : i \in 1 .. Len(records') /\ records'[i] = records[i]
  BY DEF Logs, Extended
<1>2. \A i \in 1 .. Len(records) : records[i] \in LogRecord
  BY ElementOfSeq DEF LogInv
<1>3. \A i \in 1 .. Len(records) : records[i].kind \in {"CLR", "Abort"} => records[i].txn \in Txn
  BY <1>2, RecordFields
<1>4. QED BY <1>1, <1>3 DEF UndoSet

LEMMA NamesLogged ==
    ASSUME LogInv, NamesInv, NEW r, Logs(r), Told(r) \/ Untold(r),
           \A u \in Txn : Behind(u) => Behind(u)'
    PROVE  /\ \A t \in Txn : Named(last_lsn'[t], RecordsOf(records', t), UndoSet')
           /\ \A p \in Page : Named(page_lsn'[p], PageRecordsOf(records', p), UndoSet')
<1> DEFINE n == Len(records)
<1>1. UndoSet \subseteq UndoSet'
  BY UndoSetKept
<1>2. /\ n \in Nat /\ next_lsn = n + 1 /\ Len(records') = n + 1
      /\ \A i \in 1 .. n : records'[i] = records[i]
      /\ records'[n + 1] = r
  BY DEF LogInv, Logs, Extended
<1>3. \A t : RecordsOf(records', t) = RecordsOf(records, t) \union IfThen(OfTxn(r, t), n + 1)
  BY DEF Logs, Extended, OfTxn
<1>4. \A p : PageRecordsOf(records', p) = PageRecordsOf(records, p) \union IfThen(OfPage(r, p), n + 1)
  <2>1. \A j : j \in 1 .. n + 1 <=> j = n + 1 \/ j \in 1 .. n
    BY <1>2
  <2> HIDE DEF n
  <2>2. QED BY <1>2, <2>1 DEF PageRecordsOf, IfThen, OfPage, n
<1>5. \A t : RecordsOf(records, t) \in SUBSET (1 .. n)
  BY DEF RecordsOf
<1>6. \A p : PageRecordsOf(records, p) \in SUBSET (1 .. n)
  BY DEF PageRecordsOf
<1>7. Untold(r) => n + 1 \in UndoSet'
  BY <1>2 DEF Untold, UndoSet
<1> HIDE DEF n
<1>8. ASSUME NEW t \in Txn PROVE Named(last_lsn'[t], RecordsOf(records', t), UndoSet')
  <2>1. /\ OfTxn(r, t) => last_lsn'[t] = n + 1 \/ (last_lsn'[t] = last_lsn[t] /\ n + 1 \in UndoSet')
        /\ ~ OfTxn(r, t) => last_lsn'[t] = last_lsn[t]
    BY <1>2, <1>7 DEF Told, Untold
  <2>2. Named(last_lsn[t], RecordsOf(records, t), UndoSet) /\ OfTxn(r, t) \in BOOLEAN
    BY DEF NamesInv, OfTxn
  <2>3. Named(last_lsn'[t], RecordsOf(records, t) \union IfThen(OfTxn(r, t), n + 1), UndoSet')
    BY ONLY <1>1, <1>2, <1>5, <2>1, <2>2, NamedExtended
  <2>4. QED BY <1>3, <2>3
<1>9. ASSUME NEW p \in Page PROVE Named(page_lsn'[p], PageRecordsOf(records', p), UndoSet')
  <2>1. /\ OfPage(r, p) => page_lsn'[p] = n + 1 \/ (page_lsn'[p] = page_lsn[p] /\ n + 1 \in UndoSet')
        /\ ~ OfPage(r, p) => page_lsn'[p] = page_lsn[p]
    BY <1>2, <1>7 DEF Told, Untold
  <2>2. Named(page_lsn[p], PageRecordsOf(records, p), UndoSet) /\ OfPage(r, p) \in BOOLEAN
    BY DEF NamesInv, OfPage
  <2>3. Named(page_lsn'[p], PageRecordsOf(records, p) \union IfThen(OfPage(r, p), n + 1), UndoSet')
    BY ONLY <1>1, <1>2, <1>6, <2>1, <2>2, NamedExtended
  <2>4. QED BY <1>4, <2>3
<1>10. QED BY <1>8, <1>9

LEMMA NamesStep ==
    ASSUME TypeInv, LogInv, StageInv, NamesInv, Next
    PROVE  NamesInv'
<1>1. next_lsn \in Nat
  BY LenProperties DEF LogInv
<1>2. \A c \in Cell : c[1] \in Page
  BY WALAssumption
<1>3. ASSUME NEW r, Logs(r), Told(r) \/ Untold(r), page_lsn' \in [Page -> Nat],
             UNCHANGED <<crashes, stage>>, \A u \in Txn : Behind(u) => Behind(u)'
      PROVE  NamesInv'
  BY <1>3, NamesLogged DEF NamesInv
<1>4. ASSUME UNCHANGED <<records, last_lsn, page_lsn>>, crashes' \in Nat,
             stage' # "running" => crashes' > 0, \A u \in Txn : Behind(u) => Behind(u)'
      PROVE  NamesInv'
  <2>1. UndoSet \subseteq UndoSet'
    BY <1>4, UndoSetKept
  <2>2. QED BY <1>4, <2>1 DEF NamesInv, Named
<1>5. ASSUME NEW t \in Txn, \/ Begin(t) \/ Commit(t) \/ EndRollback(t), stage' = stage, crashes' = crashes
      PROVE  \A u \in Txn : Behind(u) => Behind(u)'
  BY <1>5 DEF Begin, Commit, EndRollback, Running, Behind, TypeInv
<1>6. ASSUME UNCHANGED <<status, stage, crashes>> PROVE \A u \in Txn : Behind(u) => Behind(u)'
  BY <1>6 DEF Behind
<1>7. ASSUME NEW t \in Txn, NEW k \in {"Begin", "Commit", "Abort"},
             last_lsn' = [last_lsn EXCEPT ![t] = next_lsn], UNCHANGED page_lsn
      PROVE  Told(MarkRecord(k, t))
  BY <1>7 DEF Told, MarkRecord, OfTxn, OfPage, TypeInv
<1>8. ASSUME NEW r, NEW t \in Txn, NEW c \in Cell, r.kind \in {"Update", "CLR"}, r.txn = t, r.cell = c,
             last_lsn' = [last_lsn EXCEPT ![t] = next_lsn],
             page_lsn' = [page_lsn EXCEPT ![c[1]] = next_lsn]
      PROVE  Told(r) /\ page_lsn' \in [Page -> Nat]
  BY <1>1, <1>2, <1>8 DEF Told, OfTxn, OfPage, TypeInv, NamesInv
<1>9. ASSUME NEW t \in Txn, Begin(t) PROVE NamesInv'
  <2>1. Logs(MarkRecord("Begin", t))
    BY <1>9, ActionsLog
  <2>2. /\ last_lsn' = [last_lsn EXCEPT ![t] = next_lsn]
        /\ UNCHANGED <<page_lsn, stage, crashes>>
    BY <1>9 DEF Begin, begin, Mark
  <2>3. QED BY <1>3, <1>5, <1>7, <1>9, <2>1, <2>2 DEF NamesInv
<1>10. ASSUME NEW t \in Txn, NEW c \in Cell, NEW v \in Byte, Update(t, c, v) PROVE NamesInv'
  <2>1. Logs(UpdateLogged(t, c, v))
    BY <1>10, ActionsLog
  <2>2. /\ last_lsn' = [last_lsn EXCEPT ![t] = next_lsn]
        /\ page_lsn' = [page_lsn EXCEPT ![c[1]] = next_lsn]
        /\ UNCHANGED <<status, stage, crashes>>
    BY <1>10 DEF Update, update, managerVars
  <2> DEFINE r == UpdateLogged(t, c, v)
  <2>3. r.kind = "Update" /\ r.txn = t /\ r.cell = c
    BY DEF UpdateLogged
  <2> HIDE DEF r
  <2>4. Told(r) /\ page_lsn' \in [Page -> Nat]
    BY <1>8, <2>2, <2>3
  <2> USE DEF r
  <2>5. QED BY <1>3, <1>6, <2>1, <2>2, <2>4
<1>11. ASSUME NEW t \in Txn, Commit(t) PROVE NamesInv'
  <2>1. Logs(MarkRecord("Commit", t))
    BY <1>11, ActionsLog
  <2>2. /\ last_lsn' = [last_lsn EXCEPT ![t] = next_lsn]
        /\ UNCHANGED <<page_lsn, stage, crashes>>
    BY <1>11 DEF Commit, commit, Mark
  <2>3. QED BY <1>3, <1>5, <1>7, <1>11, <2>1, <2>2 DEF NamesInv
<1>12. ASSUME NEW t \in Txn, StartRollback(t) PROVE NamesInv'
  <2>1. UNCHANGED <<records, last_lsn, page_lsn, stage, crashes>>
    BY <1>12 DEF StartRollback, walVars
  <2>2. \A u \in Txn : Behind(u) => Behind(u)'
    BY <1>12, <2>1 DEF StartRollback, Running, Behind, TypeInv
  <2>3. QED BY <1>4, <2>1, <2>2 DEF NamesInv
<1>13. ASSUME NEW t \in Txn, RollbackOne(t) PROVE NamesInv'
  <2> DEFINE op == Head(toUndo[t])
             r == CLR(t, op.cell, op.before)
  <2>1. op \in UpdateRecord /\ Logs(r)
    BY <1>13, ActionsLog
  <2>2. op.cell \in Cell
    BY <2>1 DEF UpdateRecord
  <2>3. /\ last_lsn' = [last_lsn EXCEPT ![t] = next_lsn]
        /\ page_lsn' = [page_lsn EXCEPT ![op.cell[1]] = next_lsn]
        /\ UNCHANGED <<status, stage, crashes>>
    BY <1>13 DEF RollbackOne, clr
  <2>4. r.kind = "CLR" /\ r.txn = t /\ r.cell = op.cell
    BY DEF CLR
  <2> HIDE DEF op, r
  <2>5. Told(r) /\ page_lsn' \in [Page -> Nat]
    BY <1>8, <2>2, <2>3, <2>4
  <2>6. QED BY <1>3, <1>6, <2>1, <2>3, <2>5
<1>14. ASSUME NEW t \in Txn, EndRollback(t) PROVE NamesInv'
  <2>1. Logs(MarkRecord("Abort", t))
    BY <1>14, ActionsLog
  <2>2. /\ last_lsn' = [last_lsn EXCEPT ![t] = next_lsn]
        /\ UNCHANGED <<page_lsn, stage, crashes>>
    BY <1>14 DEF EndRollback, abort, Mark
  <2>3. QED BY <1>3, <1>5, <1>7, <1>14, <2>1, <2>2 DEF NamesInv
<1>15. ASSUME Checkpoint PROVE NamesInv'
  <2>1. Logs(CheckpointLogged)
    BY <1>15, CheckpointLogs
  <2>2. UNCHANGED <<last_lsn, page_lsn, status, stage, crashes>>
    BY <1>15 DEF Checkpoint, checkpoint, managerVars
  <2>3. Told(CheckpointLogged)
    BY <2>2 DEF Told, CheckpointLogged, OfTxn, OfPage
  <2>4. QED BY <1>3, <1>6, <2>1, <2>2, <2>3 DEF NamesInv
<1>16. ASSUME NEW t \in Txn, UndoOne(t) PROVE NamesInv'
  <2> DEFINE r == CLR(t, Head(undoing.ops).cell, Head(undoing.ops).before)
  <2>1. Logs(r)
    BY <1>16, ActionsLog
  <2>2. UNCHANGED <<last_lsn, page_lsn, status, stage, crashes>> /\ stage = "undoing"
    BY <1>16 DEF UndoOne, undoPush, managerVars
  <2>3. status[t] \in {"live", "rolling"}
    BY <1>16 DEF UndoOne, StageInv, Live
  <2>4. Behind(t)'
    BY <2>2, <2>3 DEF Behind, NamesInv
  <2>5. Untold(r)
    BY <2>2, <2>4 DEF Untold, CLR
  <2> HIDE DEF r
  <2>6. QED BY <1>3, <1>6, <2>1, <2>2, <2>5 DEF NamesInv
<1>17. ASSUME NEW t \in Txn, UndoEnd(t) PROVE NamesInv'
  <2>1. Logs(MarkRecord("Abort", t))
    BY <1>17, ActionsLog
  <2>2. /\ UNCHANGED <<last_lsn, page_lsn, stage, crashes>> /\ stage = "undoing"
        /\ status' = [status EXCEPT ![t] = "aborted"]
    BY <1>17 DEF UndoEnd, undoPush
  <2>3. Behind(t)' /\ \A u \in Txn : Behind(u) => Behind(u)'
    BY <2>2 DEF Behind, NamesInv, TypeInv
  <2>4. Untold(MarkRecord("Abort", t))
    BY <2>2, <2>3 DEF Untold, MarkRecord
  <2>5. QED BY <1>3, <2>1, <2>2, <2>3, <2>4 DEF NamesInv
<1>18. ASSUME Crash PROVE NamesInv'
  <2>1. /\ UNCHANGED <<records, last_lsn, page_lsn, status>>
        /\ crashes' = crashes + 1 /\ stage' = "crashed"
    BY <1>18 DEF Crash, walVars
  <2>2. \A u \in Txn : Behind(u) => Behind(u)'
    BY <2>1 DEF Behind, NamesInv
  <2>3. QED BY <1>4, <2>1, <2>2 DEF NamesInv
<1>19. ASSUME Restart PROVE NamesInv'
  <2>1. Live = {}
    BY <1>19 DEF Restart, StageInv, Nobody
  <2>2. UNCHANGED <<records, last_lsn, page_lsn, status, crashes>> /\ stage' = "running"
    BY <1>19 DEF Restart, walVars, managerVars
  <2>3. \A u \in Txn : Behind(u) => Behind(u)'
    BY <2>1, <2>2 DEF Behind, Live
  <2>4. QED BY <1>4, <2>2, <2>3 DEF NamesInv
<1>20. ASSUME \/ \E p \in Page : FlushPage(p)
              \/ Analyze \/ Redo \/ StartUndo
              \/ \E t \in Txn : UndoNext(t)
       PROVE  NamesInv'
  <2>1. UNCHANGED <<records, last_lsn, page_lsn, status, crashes>>
    BY <1>20 DEF FlushPage, Analyze, Redo, StartUndo, UndoNext, walVars, managerVars
  <2>2. stage' = stage \/ (stage # "running" /\ stage' # "running")
    BY <1>20 DEF FlushPage, Analyze, Redo, StartUndo, UndoNext
  <2>3. \A u \in Txn : Behind(u) => Behind(u)'
    BY <2>1, <2>2 DEF Behind
  <2>4. QED BY <1>4, <2>1, <2>2, <2>3 DEF NamesInv
<1>21. QED
  BY <1>9, <1>10, <1>11, <1>12, <1>13, <1>14, <1>15, <1>16, <1>17, <1>18, <1>19, <1>20
  DEF Next, Caller, Recover

LEMMA IdleStep ==
    ASSUME TypeInv, LogInv, StageInv, IdleInv, Next
    PROVE  IdleInv'
<1>1. ASSUME NEW r, Logs(r), \A t \in Txn : status'[t] = "idle" => status[t] = "idle" /\ ~ IsUpdateOf(r, t)
      PROVE  IdleInv'
  <2>1. \A t, c : UpdatesIn(records', t, c) =
          UpdatesIn(records, t, c) \union IfThen(IsUpdateOf(r, t) /\ r.cell = c, Len(records) + 1)
    BY <1>1 DEF Logs, Extended
  <2>2. QED BY <1>1, <2>1 DEF IdleInv, IfThen
<1>2. ASSUME records' = records, \A t \in Txn : status'[t] = "idle" => status[t] = "idle"
      PROVE  IdleInv'
  BY <1>2 DEF IdleInv
<1>3. ASSUME NEW t \in Txn, Begin(t) PROVE IdleInv'
  <2>1. Logs(MarkRecord("Begin", t))
    BY <1>3, ActionsLog
  <2>2. QED BY <1>1, <1>3, <2>1 DEF MarkRecord, IsUpdateOf, Begin, TypeInv
<1>4. ASSUME NEW t \in Txn, NEW c \in Cell, NEW v \in Byte, Update(t, c, v) PROVE IdleInv'
  <2>1. Logs(UpdateLogged(t, c, v))
    BY <1>4, ActionsLog
  <2>2. QED BY <1>1, <1>4, <2>1 DEF UpdateLogged, IsUpdateOf, Update, managerVars
<1>5. ASSUME NEW t \in Txn, Commit(t) PROVE IdleInv'
  <2>1. Logs(MarkRecord("Commit", t))
    BY <1>5, ActionsLog
  <2>2. QED BY <1>1, <1>5, <2>1 DEF MarkRecord, IsUpdateOf, Commit, TypeInv
<1>6. ASSUME NEW t \in Txn, RollbackOne(t) PROVE IdleInv'
  <2>1. Logs(CLR(t, Head(toUndo[t]).cell, Head(toUndo[t]).before))
    BY <1>6, ActionsLog
  <2>2. QED BY <1>1, <1>6, <2>1 DEF CLR, IsUpdateOf, RollbackOne
<1>7. ASSUME NEW t \in Txn, EndRollback(t) PROVE IdleInv'
  <2>1. Logs(MarkRecord("Abort", t))
    BY <1>7, ActionsLog
  <2>2. QED BY <1>1, <1>7, <2>1 DEF MarkRecord, IsUpdateOf, EndRollback, TypeInv
<1>8. ASSUME Checkpoint PROVE IdleInv'
  <2>1. Logs(CheckpointLogged)
    BY <1>8, CheckpointLogs
  <2>2. QED BY <1>1, <1>8, <2>1 DEF CheckpointLogged, IsUpdateOf, Checkpoint, managerVars
<1>9. ASSUME NEW t \in Txn, UndoOne(t) PROVE IdleInv'
  <2>1. Logs(CLR(t, Head(undoing.ops).cell, Head(undoing.ops).before))
    BY <1>9, ActionsLog
  <2>2. QED BY <1>1, <1>9, <2>1 DEF CLR, IsUpdateOf, UndoOne, managerVars
<1>10. ASSUME NEW t \in Txn, UndoEnd(t) PROVE IdleInv'
  <2>1. Logs(MarkRecord("Abort", t))
    BY <1>10, ActionsLog
  <2>2. QED BY <1>1, <1>10, <2>1 DEF MarkRecord, IsUpdateOf, UndoEnd, TypeInv
<1>11. ASSUME \/ \E t \in Txn : StartRollback(t) \/ UndoNext(t)
              \/ \E p \in Page : FlushPage(p)
              \/ Crash \/ Analyze \/ Redo \/ StartUndo \/ Restart
       PROVE  IdleInv'
  <2>1. records' = records
    BY <1>11 DEF StartRollback, FlushPage, Crash, Analyze, Redo, StartUndo, UndoNext, Restart, walVars
  <2>2. \A t \in Txn : status'[t] = "idle" => status[t] = "idle"
    BY <1>11 DEF StartRollback, FlushPage, Crash, Analyze, Redo, StartUndo, UndoNext, Restart,
                 managerVars, TypeInv
  <2>3. QED BY <1>2, <2>1, <2>2
<1>12. QED
  BY <1>3, <1>4, <1>5, <1>6, <1>7, <1>8, <1>9, <1>10, <1>11 DEF Next, Caller, Recover

LEMMA ControlStep ==
    ASSUME ControlInv, [Next]_vars
    PROVE  ControlInv'
<1> USE DEF ControlInv
<1>1. CASE Next
  <2>1. TypeInv' /\ StageInv' /\ AnalysisInv' /\ NamesInv' /\ IdleInv'
    BY <1>1, TypeStep, StageStep, AnalysisStep, NamesStep, IdleStep
  <2>2. LogInv'
    <3>1. ASSUME NEW r, Logs(r) PROVE LogInv'
      BY <3>1 DEF Logs
    <3>2. ASSUME records' = records, next_lsn' = next_lsn PROVE LogInv'
      BY <3>2 DEF LogInv
    <3>3. ASSUME NEW t \in Txn, \/ Begin(t) \/ Commit(t) \/ RollbackOne(t) \/ EndRollback(t)
                                \/ UndoOne(t) \/ UndoEnd(t)
                                \/ \E c \in Cell, v \in Byte : Update(t, c, v)
          PROVE  LogInv'
      BY <3>1, <3>3, ActionsLog
    <3>4. ASSUME Checkpoint PROVE LogInv'
      BY <3>1, <3>4, CheckpointLogs
    <3>5. ASSUME \/ \E t \in Txn : StartRollback(t) \/ UndoNext(t)
                 \/ \E p \in Page : FlushPage(p)
                 \/ Crash \/ Analyze \/ Redo \/ StartUndo \/ Restart
          PROVE  LogInv'
      BY <3>2, <3>5
      DEF StartRollback, FlushPage, Crash, Analyze, Redo, StartUndo, UndoNext, Restart, walVars
    <3>6. QED BY <1>1, <3>3, <3>4, <3>5 DEF Next, Caller, Recover
  <2>3. QED BY <2>1, <2>2
<1>2. CASE UNCHANGED vars
  <2>1. UNCHANGED <<records, next_lsn, last_lsn, page_lsn, status, toUndo, buffer, disk, stage,
                    analysis, losers, undoing, crashes, durable, pending, crashed>>
    BY <1>2 DEF vars, walVars, managerVars, recoveryVars, storeVars
  <2>2. Live' = Live
    BY <2>1 DEF Live
  <2>3. TypeInv' /\ LogInv'
    BY <2>1 DEF TypeInv, LogInv
  <2>4. StageInv' /\ AnalysisInv'
    BY <2>1, <2>2 DEF StageInv, AnalysisInv
  <2>5. NamesInv' /\ IdleInv'
    BY <2>1 DEF NamesInv, UndoSet, Behind, IdleInv
  <2>6. QED BY <2>3, <2>4, <2>5
<1>3. QED BY <1>1, <1>2

LEMMA ControlAlways == Spec => []ControlInv
<1>1. Init => ControlInv
  BY ControlInit
<1>2. ControlInv /\ [Next]_vars => ControlInv'
  BY ControlStep
<1>3. QED BY <1>1, <1>2, PTL DEF Spec

\* LSNs number the log without gaps through crashes and recoveries; what
\* last_lsn and page_lsn name is the last record of the transaction or page,
\* but for what undo appended after it, whatever the checkpoints write out
\* (alloc_lsn, the methods that append, and undo).
THEOREM LsnsAlwaysExact == Spec => []LsnsExact
<1>1. ControlInv => LsnsExact
  <2> SUFFICES ASSUME ControlInv PROVE LsnsExact
    OBVIOUS
  <2>1. LogInv /\ NamesInv
    BY DEF ControlInv
  <2>2. DOMAIN records = 1 .. Len(records)
    BY <2>1, LenProperties DEF LogInv
  <2>3. UndoSet \subseteq {i \in DOMAIN records : ByUndo(i)}
    BY <2>2 DEF UndoSet, Behind, ByUndo
  <2>4. \A t \in Txn : TxnRecords(t) = RecordsOf(records, t)
    BY <2>2 DEF TxnRecords, RecordsOf
  <2>5. \A p \in Page : PageRecords(p) = PageRecordsOf(records, p)
    BY <2>2 DEF PageRecords, PageRecordsOf
  <2>6. \A lsn, S : Named(lsn, S, UndoSet) => Names(lsn, S)
    BY <2>3 DEF Named, Names
  <2>7. QED BY <2>1, <2>2, <2>4, <2>5, <2>6 DEF LsnsExact, LogInv, NamesInv
<1>2. QED BY <1>1, ControlAlways, PTL

\* The scan from the last checkpoint finds exactly the transactions that have
\* neither committed nor aborted, at every moment and whatever the
\* checkpoints write out: recovery undoes all interrupted work and no other
\* (analyze and the active list of a checkpoint).
THEOREM AnalysisAlwaysExact == Spec => []AnalysisExact
<1>1. ControlInv => AnalysisExact
  BY DEF ControlInv, AnalysisInv, AnalysisExact
<1>2. QED BY <1>1, ControlAlways, PTL

-----------------------------------------------------------------------------
(* Data: the pages follow the log.                                         *)

LEMMA NowType ==
    ASSUME TypeInv
    PROVE  Now \in [Cell -> Byte]
<1>1. Contents(buffer) \in [Cell -> Byte]
  BY GetByte DEF Contents, TypeInv
<1>2. QED BY <1>1 DEF Now, TypeInv

\* One cell is written, in the log and in memory.
CellWritten(r, c) ==
    /\ Logs(r) /\ IsWriteOn(r, c)
    /\ buffer' = WriteTo(buffer, c, r.after)
    /\ UNCHANGED <<disk, stage, crashed>>
    /\ stage \notin {"crashed", "analyzed"}

LEMMA WrittenKeeps ==
    ASSUME TypeInv, LogInv, BufferInv, DiskInv, NEW r, NEW c \in Cell, CellWritten(r, c)
    PROVE  BufferInv' /\ DiskInv' /\ Now' = [Now EXCEPT ![c] = r.after]
<1> DEFINE n == Len(records)
<1>1. Logs(r) /\ IsWriteOn(r, c) /\ r \in LogRecord /\ Extended(records, r, records')
  BY DEF CellWritten, Logs
<1>2. r.after \in Byte
  BY <1>1, RecordFields DEF IsWriteOn
<1>3. Wrote(buffer, c, r.after, buffer')
  BY <1>2, WriteCell DEF CellWritten, TypeInv
<1>4. \A d \in Cell : Get(buffer', d) = IF d = c THEN r.after ELSE Get(buffer, d)
  BY <1>3 DEF Wrote
<1>5. Now = Contents(buffer) /\ Now' = Contents(buffer')
  BY DEF Now, CellWritten, Contents
<1>6. Now' = [Now EXCEPT ![c] = r.after]
  BY <1>4, <1>5 DEF Contents
<1>7. \A d \in Cell : d # c => ~ IsWriteOn(r, d)
  BY <1>1 DEF IsWriteOn
<1>8. \A d \in Cell : d # c => WritesIn(records', d) = WritesIn(records, d)
  BY <1>1, <1>7 DEF Extended, IfThen
<1>9. BufferInv'
  <2>1. \A d \in Cell : LogHas(records', d, Now'[d])
    <3>1. LogHas(records', c, r.after) /\ Now'[c] = r.after
      BY <1>1, <1>2, <1>6, LogHasExtended, NowType
    <3>2. ASSUME NEW d \in Cell, d # c PROVE LogHas(records', d, Now'[d])
      <4>1. Now'[d] = Now[d]
        BY <1>6, <3>2, NowType
      <4>2. LogHas(records, d, Now[d])
        BY DEF BufferInv
      <4>3. QED BY <1>1, <1>7, <3>2, <4>1, <4>2, LogHasExtended
    <3>3. QED BY <3>1, <3>2
  <2>2. \A d \in Cell : WritesIn(records', d) # {} => There(buffer', d)
    <3>1. There(buffer', c) /\ \A d \in Cell : There(buffer, d) => There(buffer', d)
      BY <1>3 DEF Wrote
    <3>2. \A d \in Cell : WritesIn(records, d) # {} => There(buffer, d)
      BY DEF BufferInv, CellWritten
    <3>3. QED BY <1>8, <3>1, <3>2
  <2>3. QED BY <2>1, <2>2 DEF BufferInv
<1>10. DiskInv'
  <2> SUFFICES ASSUME NEW d \in Cell, \A i \in WritesIn(records', d) : i < StartIdx(records')
               PROVE  LogHas(records', d, Get(disk', d)) /\ (WritesIn(records', d) # {} => There(disk', d))
    BY DEF DiskInv
  <2>1. /\ n \in Nat /\ StartIdx(records') = StartIdx(records) /\ StartIdx(records) \in 1 .. n + 1
        /\ n + 1 \in WritesIn(records', c)
    BY <1>1 DEF Extended, IfThen, IsWriteOn
  <2>2. d # c
    BY <2>1
  <2>3. disk' = disk
    BY DEF CellWritten
  <2>4. LogHas(records, d, Get(disk, d)) /\ (WritesIn(records, d) # {} => There(disk, d))
    BY <1>8, <2>1, <2>2 DEF DiskInv
  <2>5. QED BY <1>1, <1>7, <1>8, <2>2, <2>3, <2>4, LogHasExtended
<1>11. QED BY <1>6, <1>9, <1>10

\* A record of another kind is logged.
LEMMA MarkKeeps ==
    ASSUME BufferInv, NEW r, Logs(r), r.kind \notin {"Update", "CLR"},
           UNCHANGED <<buffer, stage, crashed>>
    PROVE  /\ BufferInv' /\ Now' = Now
           /\ \A c : WritesIn(records', c) = WritesIn(records, c)
           /\ DiskInv /\ r.kind # "Checkpoint" /\ disk' = disk => DiskInv'
<1>1. Extended(records, r, records') /\ \A c : ~ IsWriteOn(r, c)
  BY DEF Logs, IsWriteOn
<1>2. Now' = Now
  BY DEF Now, Contents
<1>3. \A c : WritesIn(records', c) = WritesIn(records, c)
  BY <1>1 DEF Extended, IfThen
<1>4. \A c, v : LogHas(records', c, v) <=> LogHas(records, c, v)
  BY <1>1, LogHasExtended
<1>5. BufferInv'
  BY <1>2, <1>3, <1>4 DEF BufferInv
<1>6. ASSUME DiskInv, r.kind # "Checkpoint", disk' = disk PROVE DiskInv'
  <2>1. StartIdx(records') = StartIdx(records)
    BY <1>1, <1>6 DEF Extended
  <2>2. QED BY <1>3, <1>4, <1>6, <2>1 DEF DiskInv
<1>7. QED BY <1>2, <1>3, <1>5, <1>6

LEMMA CheckpointKeeps ==
    ASSUME FlushAtCheckpoint, LogInv, BufferInv, Checkpoint
    PROVE  BufferInv' /\ DiskInv' /\ Now' = Now
<1>1. Logs(CheckpointLogged) /\ CheckpointLogged.kind = "Checkpoint"
  BY CheckpointLogs DEF CheckpointLogged
<1>2. UNCHANGED <<buffer, stage, crashed>> /\ disk' = buffer /\ stage = "running"
  BY DEF Checkpoint, Running
<1>3. /\ BufferInv' /\ Now' = Now
      /\ \A c : WritesIn(records', c) = WritesIn(records, c)
  BY <1>1, <1>2, MarkKeeps
<1>4. Now' = Contents(disk')
  BY <1>2 DEF Now, Contents
<1>5. \A c \in Cell : Now'[c] = Get(disk', c)
  BY <1>4 DEF Contents
<1>6. DiskInv'
  BY <1>2, <1>3, <1>5 DEF BufferInv, DiskInv
<1>7. QED BY <1>3, <1>6

LEMMA FlushKeeps ==
    ASSUME TypeInv, BufferInv, DiskInv, NEW p \in Page, FlushPage(p)
    PROVE  BufferInv' /\ DiskInv' /\ Now' = Now
<1>1. UNCHANGED <<records, buffer, stage, crashed>>
  BY DEF FlushPage, walVars
<1>2. Now' = Now
  BY <1>1 DEF Now, Contents
<1>3. BufferInv'
  BY <1>1, <1>2 DEF BufferInv
<1>4. disk' = [disk EXCEPT ![p] = buffer[p]] /\ stage \notin {"crashed", "analyzed"}
  BY DEF FlushPage
<1>5. DiskInv'
  <2> SUFFICES ASSUME NEW c \in Cell, \A i \in WritesIn(records, c) : i < StartIdx(records)
               PROVE  LogHas(records, c, Get(disk', c)) /\ (WritesIn(records, c) # {} => There(disk', c))
    BY <1>1 DEF DiskInv
  <2>1. c[1] \in Page
    BY WALAssumption
  <2>2. CASE c[1] = p
    <3>1. disk'[c[1]] = buffer[c[1]]
      BY <1>4, <2>1, <2>2 DEF TypeInv, PageSet
    <3>2. Get(disk', c) = Now[c] /\ (There(disk', c) <=> There(buffer, c))
      BY <1>4, <3>1 DEF Get, There, Now, Contents
    <3>3. QED BY <1>4, <3>2 DEF BufferInv
  <2>3. CASE c[1] # p
    <3>1. disk'[c[1]] = disk[c[1]]
      BY <1>4, <2>1, <2>3 DEF TypeInv, PageSet
    <3>2. Get(disk', c) = Get(disk, c) /\ (There(disk', c) <=> There(disk, c))
      BY <3>1 DEF Get, There
    <3>3. QED BY <3>2 DEF DiskInv
  <2>4. QED BY <2>2, <2>3
<1>6. QED BY <1>2, <1>3, <1>5

\* Redo brings back what was in memory when the crash came.
LEMMA RedoKeeps ==
    ASSUME TypeInv, LogInv, StageInv, AnalysisInv, BufferInv, DiskInv, Redo
    PROVE  BufferInv' /\ DiskInv' /\ Now' = Now
<1> DEFINE n == Len(records)
           a == analyze(records)
           m == MinRecLsn(a.dirty_pages)
<1>1. /\ buffer' = redo(records, a, disk)
      /\ UNCHANGED <<records, disk, crashed>>
      /\ stage = "analyzed" /\ stage' = "redone"
  BY DEF Redo, StageInv, walVars
<1>2. /\ n \in Nat /\ \A i \in 1 .. n : records[i].lsn = i
      /\ records \in Seq(LogRecord)
  BY LenProperties DEF LogInv
<1>3. RedoneUpto(records, a, disk, buffer', n)
  BY <1>1, <1>2, RedoOutcome DEF TypeInv
<1>4. ScanInv(records, a)
  BY DEF AnalysisInv
<1> HIDE DEF n, a
<1>5. DOMAIN a.dirty_pages # {} =>
        /\ m \in Nat
        /\ \A p \in DOMAIN a.dirty_pages : m <= a.dirty_pages[p]
  <2> SUFFICES ASSUME DOMAIN a.dirty_pages # {}
               PROVE  m \in Nat /\ \A p \in DOMAIN a.dirty_pages : m <= a.dirty_pages[p]
    OBVIOUS
  <2> DEFINE D == Range(a.dirty_pages)
  <2>1. D \subseteq Nat /\ D # {} /\ \A p \in DOMAIN a.dirty_pages : a.dirty_pages[p] \in D
    BY <1>2, <1>4 DEF Range, ScanInv, n
  <2>2. m = Min(D)
    BY DEF MinRecLsn
  <2> HIDE DEF D
  <2>3. \E x \in D : \A y \in D : x <= y
    BY <2>1, LeastPosition
  <2>4. Min(D) \in D /\ \A y \in D : Min(D) <= y
    BY <2>3 DEF Min
  <2>5. QED BY <2>1, <2>2, <2>4
<1> HIDE DEF m
<1>6. \A i \in 1 .. n : Replayed(a, records[i]) <=>
         /\ i >= m
         /\ records[i].kind \in {"Update", "CLR"}
         /\ records[i].cell[1] \in DOMAIN a.dirty_pages
  BY <1>2 DEF Replayed, m
<1>7. \A c : ReplaysOn(records, a, c, n) \subseteq WritesIn(records, c)
  BY <1>6 DEF ReplaysOn, WritesIn, n
<1>8. ASSUME NEW c \in Cell
      PROVE  /\ LogHas(records, c, Get(buffer', c))
             /\ WritesIn(records, c) # {} => There(buffer', c)
  <2>1. WritesIn(records, c) \subseteq 1 .. n
    BY DEF WritesIn, n
  <2>2. CASE ReplaysOn(records, a, c, n) = {}
    <3>1. Get(buffer', c) = Get(disk, c) /\ (There(disk, c) => There(buffer', c))
      BY <1>3, <2>2 DEF RedoneUpto
    <3>2. \A i \in WritesIn(records, c) : i < StartIdx(records)
      <4> SUFFICES ASSUME NEW i \in WritesIn(records, c), ~ (i < StartIdx(records)) PROVE FALSE
        OBVIOUS
      <4>1. i \in 1 .. n /\ records[i].kind \in {"Update", "CLR"} /\ records[i].cell = c
        BY DEF WritesIn, n
      <4>2. StartIdx(records) \in Nat
        <5>1. Len(records) \in Nat /\ DOMAIN records = 1 .. Len(records)
          BY <1>2, LenProperties
        <5>2. QED BY <5>1, StartIdxType
      <4>3. c[1] \in DOMAIN a.dirty_pages /\ a.dirty_pages[c[1]] <= i /\ a.dirty_pages[c[1]] \in Nat
        BY <1>2, <1>4, <4>1, <4>2 DEF ScanInv, n
      <4>4. m <= i
        BY <1>2, <1>5, <4>1, <4>3
      <4>5. Replayed(a, records[i])
        BY <1>2, <1>5, <1>6, <4>1, <4>3, <4>4
      <4>6. QED BY <2>2, <4>1, <4>5 DEF ReplaysOn
    <3>3. QED BY <3>1, <3>2 DEF DiskInv
  <2>3. CASE ReplaysOn(records, a, c, n) # {}
    <3>1. ReplaysOn(records, a, c, n) \subseteq 1 .. n
      BY DEF ReplaysOn
    <3>2. PICK j \in ReplaysOn(records, a, c, n) : \A k \in ReplaysOn(records, a, c, n) : k <= j
      BY <1>2, <2>3, <3>1, GreatestPosition
    <3>3. Get(buffer', c) = records[j].after /\ There(buffer', c)
      BY <1>3, <3>2 DEF RedoneUpto
    <3>4. \A i \in WritesIn(records, c) : j <= i => i \in ReplaysOn(records, a, c, n)
      <4> SUFFICES ASSUME NEW i \in WritesIn(records, c), j <= i
                   PROVE  i \in ReplaysOn(records, a, c, n)
        OBVIOUS
      <4>1. /\ i \in 1 .. n /\ records[i].kind \in {"Update", "CLR"} /\ records[i].cell = c
        BY DEF WritesIn, n
      <4>2. j \in 1 .. n /\ j >= m /\ c[1] \in DOMAIN a.dirty_pages
        BY <1>6 DEF ReplaysOn
      <4>3. m \in Nat
        BY <1>5, <4>2
      <4>4. Replayed(a, records[i])
        BY <1>2, <1>6, <4>1, <4>2, <4>3
      <4>5. QED BY <4>1, <4>4 DEF ReplaysOn
    <3>5. j \in WritesIn(records, c)
      BY <1>7
    <3>6. ASSUME NEW i \in WritesIn(records, c), \A k \in WritesIn(records, c) : k <= i PROVE i = j
      <4>1. j <= i
        BY <3>5, <3>6
      <4>2. i <= j
        BY <3>2, <3>4, <4>1
      <4>3. QED BY <1>2, <2>1, <3>5, <4>1, <4>2
    <3>7. QED BY <3>3, <3>5, <3>6 DEF LogHas
  <2>4. QED BY <2>2, <2>3
<1>9. Now = crashed /\ Now' = Contents(buffer')
  BY <1>1 DEF Now, Contents
<1>10. \A c \in Cell : Get(buffer', c) = crashed[c]
  <2> SUFFICES ASSUME NEW c \in Cell PROVE Get(buffer', c) = crashed[c]
    OBVIOUS
  <2>1. LogHas(records, c, crashed[c])
    BY <1>9 DEF BufferInv
  <2>2. QED BY <1>2, <1>8, <2>1, LogHasOne DEF n
<1>11. Now' = Now
  BY <1>9, <1>10 DEF Contents, TypeInv
<1>12. BufferInv'
  BY <1>1, <1>8, <1>10, <1>11, <1>9 DEF BufferInv
<1>13. DiskInv'
  BY <1>1 DEF DiskInv
<1>14. QED BY <1>11, <1>12, <1>13

\* The other steps.
LEMMA SilentKeeps ==
    ASSUME BufferInv, DiskInv,
           \/ \E t \in Txn : StartRollback(t) \/ UndoNext(t)
           \/ Crash \/ Analyze \/ StartUndo \/ Restart
    PROVE  BufferInv' /\ DiskInv' /\ Now' = Now
<1>1. records' = records /\ disk' = disk
  BY DEF StartRollback, UndoNext, Crash, Analyze, StartUndo, Restart, walVars
<1>2. Now' = Now
  BY DEF StartRollback, UndoNext, Crash, Analyze, StartUndo, Restart, Now, Contents, Running
<1>3. stage' \notin {"crashed", "analyzed"} => stage \notin {"crashed", "analyzed"} /\ buffer' = buffer
  BY DEF StartRollback, UndoNext, Crash, Analyze, StartUndo, Restart, Running
<1>4. QED BY <1>1, <1>2, <1>3 DEF BufferInv, DiskInv

-----------------------------------------------------------------------------
(* Data: what is left to undo.                                             *)

LEMMA RestoresKept ==
    ASSUME NEW recs, NEW log, NEW now, NEW now2, NEW saved, NEW saved2, NEW ops, NEW t,
           Restores(recs, now, saved, ops, t),
           \A c : UpdatesIn(log, t, c) = UpdatesIn(recs, t, c),
           \A c \in Cell : UpdatesIn(recs, t, c) # {} => now2[c] = now[c] /\ saved2[c] = saved[c]
    PROVE  Restores(log, now2, saved2, ops, t)
  BY DEF Restores

\* The list of undo restores everything, before it begins.
LEMMA RestoresFromLog ==
    ASSUME NEW recs \in Seq(LogRecord), NEW now, NEW saved, NEW t, SavesIn(recs, saved, t)
    PROVE  Restores(recs, now, saved, UndoOps(recs, t), t)
<1> DEFINE ops == UndoOps(recs, t)
           n == Len(recs)
<1>1. CollectedUpto(recs, t, ops, n)
  BY UndoOpsOutcome
<1> HIDE DEF ops, n
<1>2. ASSUME NEW k \in DOMAIN ops PROVE UpdatesIn(recs, t, ops[k].cell) # {}
  <2>1. PICK j \in 1 .. n : IsUpdateOf(recs[j], t) /\ ops[k] = recs[j]
    BY <1>1 DEF CollectedUpto
  <2>2. j \in UpdatesIn(recs, t, ops[k].cell)
    BY <2>1 DEF UpdatesIn, UpdatesOn, n
  <2>3. QED BY <2>2
<1>3. ASSUME NEW c \in Cell, UpdatesIn(recs, t, c) # {}
      PROVE  \E k \in DOMAIN ops :
               /\ ops[k].cell = c /\ ops[k].before = saved[c]
               /\ \A l \in DOMAIN ops : ops[l].cell = c => l <= k
  <2>1. UpdatesIn(recs, t, c) \subseteq Nat
    BY DEF UpdatesIn, UpdatesOn
  <2>2. PICK j \in UpdatesIn(recs, t, c) : \A l \in UpdatesIn(recs, t, c) : j <= l
    BY <1>3, <2>1, LeastPosition
  <2>3. recs[j].cell = c /\ recs[j].before = saved[c]
    BY <2>2 DEF SavesIn, UpdatesIn, UpdatesOn
  <2>4. PICK k \in DOMAIN ops : /\ ops[k] = recs[j]
                                /\ \A l \in DOMAIN ops : ops[l].cell = c => l <= k
    BY <1>1, <2>2 DEF CollectedUpto, UpdatesIn, n
  <2>5. QED BY <2>3, <2>4
<1>4. Restores(recs, now, saved, ops, t)
  BY <1>2, <1>3 DEF Restores
<1>5. QED BY <1>4 DEF ops

\* An operation done leaves the others to do.
LEMMA RestoresTail ==
    ASSUME NEW recs, NEW log, NEW now \in [Cell -> Byte], NEW now2, NEW saved, NEW t,
           NEW ops \in Seq(UpdateRecord), ops # <<>>,
           Restores(recs, now, saved, ops, t),
           \A c : UpdatesIn(log, t, c) = UpdatesIn(recs, t, c),
           now2 = [now EXCEPT ![Head(ops).cell] = Head(ops).before]
    PROVE  Restores(log, now2, saved, Tail(ops), t)
<1> DEFINE rest == Tail(ops)
           op == Head(ops)
           n == Len(ops)
<1>1. /\ n \in Nat /\ n # 0 /\ DOMAIN ops = 1 .. n
      /\ op = ops[1]
      /\ rest \in Seq(UpdateRecord) /\ Len(rest) = n - 1
      /\ \A i \in 1 .. n - 1 : rest[i] = ops[i + 1]
  <2>1. n \in Nat /\ DOMAIN ops = 1 .. n
    BY LenProperties
  <2>2. n # 0
    BY EmptySeq
  <2>3. /\ rest \in Seq(UpdateRecord) /\ Len(rest) = n - 1
        /\ \A i \in 1 .. Len(rest) : rest[i] = ops[i + 1]
    BY HeadTailProperties
  <2>4. QED BY <2>1, <2>2, <2>3
<1>2. DOMAIN rest = 1 .. n - 1
  BY <1>1, LenProperties
<1> HIDE DEF rest, op, n
<1>3. \A i \in DOMAIN rest : i + 1 \in DOMAIN ops /\ rest[i] = ops[i + 1] /\ i \in Nat
  BY <1>1, <1>2
<1>4. \A k \in DOMAIN ops : k # 1 => k - 1 \in DOMAIN rest /\ rest[k - 1] = ops[k]
  <2> SUFFICES ASSUME NEW k \in DOMAIN ops, k # 1
               PROVE  k - 1 \in DOMAIN rest /\ rest[k - 1] = ops[k]
    OBVIOUS
  <2>1. k - 1 \in 1 .. n - 1 /\ (k - 1) + 1 = k
    BY <1>1
  <2>2. QED BY <1>1, <1>2, <2>1
<1>5. op.cell \in Cell /\ now2 = [now EXCEPT ![op.cell] = op.before]
  <2>1. op \in UpdateRecord
    BY <1>1, HeadTailProperties DEF op
  <2>2. QED BY <2>1 DEF UpdateRecord, op
<1>6. ASSUME NEW k \in DOMAIN rest PROVE UpdatesIn(log, t, rest[k].cell) # {}
  <2>1. k + 1 \in DOMAIN ops /\ rest[k] = ops[k + 1]
    BY <1>3
  <2>2. UpdatesIn(recs, t, ops[k + 1].cell) # {}
    BY <2>1 DEF Restores
  <2>3. QED BY <2>1, <2>2
<1>7. ASSUME NEW c \in Cell, UpdatesIn(log, t, c) # {}
      PROVE  \/ \E k \in DOMAIN rest :
                   /\ rest[k].cell = c /\ rest[k].before = saved[c]
                   /\ \A l \in DOMAIN rest : rest[l].cell = c => l <= k
             \/ (\A l \in DOMAIN rest : rest[l].cell # c) /\ now2[c] = saved[c]
  <2>1. CASE \E k \in DOMAIN ops :
               /\ ops[k].cell = c /\ ops[k].before = saved[c]
               /\ \A l \in DOMAIN ops : ops[l].cell = c => l <= k
    <3>1. PICK k \in DOMAIN ops :
               /\ ops[k].cell = c /\ ops[k].before = saved[c]
               /\ \A l \in DOMAIN ops : ops[l].cell = c => l <= k
      BY <2>1
    <3>2. CASE k = 1
      <4>1. now2[c] = saved[c]
        BY <1>1, <1>5, <3>1, <3>2
      <4>2. \A l \in DOMAIN rest : rest[l].cell # c
        <5> SUFFICES ASSUME NEW l \in DOMAIN rest, rest[l].cell = c PROVE FALSE
          OBVIOUS
        <5>1. l + 1 \in DOMAIN ops /\ ops[l + 1].cell = c /\ l \in 1 .. n - 1
          BY <1>2, <1>3
        <5>2. l + 1 <= 1
          BY <3>1, <3>2, <5>1
        <5>3. QED BY <1>1, <5>1, <5>2
      <4>3. QED BY <4>1, <4>2
    <3>3. CASE k # 1
      <4>1. k - 1 \in DOMAIN rest /\ rest[k - 1] = ops[k]
        BY <1>4, <3>3
      <4>2. \A l \in DOMAIN rest : rest[l].cell = c => l <= k - 1
        <5> SUFFICES ASSUME NEW l \in DOMAIN rest, rest[l].cell = c PROVE l <= k - 1
          OBVIOUS
        <5>1. l + 1 \in DOMAIN ops /\ ops[l + 1].cell = c /\ l \in Nat
          BY <1>3
        <5>2. l + 1 <= k
          BY <3>1, <5>1
        <5>3. QED BY <1>1, <5>1, <5>2
      <4>3. QED BY <3>1, <4>1, <4>2
    <3>4. QED BY <3>2, <3>3
  <2>2. CASE (\A l \in DOMAIN ops : ops[l].cell # c) /\ now[c] = saved[c]
    <3>1. 1 \in DOMAIN ops
      BY <1>1
    <3>2. op.cell # c
      BY <1>1, <2>2, <3>1
    <3>3. now2[c] = saved[c]
      BY <1>5, <2>2, <3>2
    <3>4. \A l \in DOMAIN rest : rest[l].cell # c
      BY <1>3, <2>2
    <3>5. QED BY <3>3, <3>4
  <2>3. QED BY <1>7, <2>1, <2>2 DEF Restores
<1>8. Restores(log, now2, saved, rest, t)
  BY <1>6, <1>7 DEF Restores
<1>9. QED BY <1>8 DEF rest

\* Nothing left to do: everything is restored.
LEMMA RestoresDone ==
    ASSUME NEW recs, NEW now, NEW saved, NEW t, Restores(recs, now, saved, <<>>, t)
    PROVE  \A c \in Cell : UpdatesIn(recs, t, c) # {} => now[c] = saved[c]
<1>1. DOMAIN <<>> = {}
  OBVIOUS
<1>2. QED BY <1>1 DEF Restores

-----------------------------------------------------------------------------
(* Data: the updates of the live transactions.                             *)

SameUpdates ==
    /\ \A t, c : UpdatesIn(records', t, c) = UpdatesIn(records, t, c)
    /\ \A saved, t : SavesIn(records, saved, t) => SavesIn(records', saved, t)

LEMMA UpdatesKept ==
    ASSUME NEW r, Logs(r), NEW t, ~ IsUpdateOf(r, t)
    PROVE  /\ \A c : UpdatesIn(records', t, c) = UpdatesIn(records, t, c)
           /\ \A saved : SavesIn(records, saved, t) => SavesIn(records', saved, t)
<1>1. /\ \A c : UpdatesIn(records', t, c) = UpdatesIn(records, t, c)
      /\ \A i \in 1 .. Len(records) : records'[i] = records[i]
  <2>1. \A c : IfThen(IsUpdateOf(r, t) /\ r.cell = c, Len(records) + 1) = {}
    BY DEF IfThen
  <2>2. /\ \A c : UpdatesIn(records', t, c) =
            UpdatesIn(records, t, c) \union IfThen(IsUpdateOf(r, t) /\ r.cell = c, Len(records) + 1)
        /\ \A i \in 1 .. Len(records) : records'[i] = records[i]
    BY DEF Logs, Extended
  <2>3. QED BY <2>1, <2>2
<1>2. \A c : UpdatesIn(records, t, c) \subseteq 1 .. Len(records)
  BY DEF UpdatesIn, UpdatesOn
<1>3. QED BY <1>1, <1>2 DEF SavesIn

LEMMA SameUpdatesHolds ==
    ASSUME \/ records' = records
           \/ \E r : Logs(r) /\ r.kind # "Update"
    PROVE  SameUpdates
<1>1. CASE records' = records
  BY <1>1 DEF SameUpdates
<1>2. ASSUME NEW r, Logs(r), r.kind # "Update" PROVE SameUpdates
  <2>1. \A t : ~ IsUpdateOf(r, t)
    BY <1>2 DEF IsUpdateOf
  <2>2. QED BY <1>2, <2>1, UpdatesKept DEF SameUpdates
<1>3. QED BY <1>1, <1>2

\* The transactions that stay live keep their cells.
LEMMA CellKept ==
    ASSUME CellInv, SameUpdates, durable' = durable,
           \A u \in Live' : u \in Live \/ \A c \in Cell : UpdatesIn(records, u, c) = {},
           \A c \in Cell : (\A u \in Live' : UpdatesIn(records, u, c) = {}) => Now'[c] = durable[c]
    PROVE  CellInv'
<1>1. \A t, c : UpdatesIn(records', t, c) = UpdatesIn(records, t, c)
  BY DEF SameUpdates
<1>2. Owned'
  BY <1>1 DEF CellInv, Owned
<1>3. ASSUME NEW u \in Live' PROVE SavesIn(records', durable, u)
  <2>1. CASE u \in Live
    BY <2>1 DEF CellInv, SameUpdates
  <2>2. CASE \A c \in Cell : UpdatesIn(records, u, c) = {}
    BY <1>1, <2>2 DEF SavesIn
  <2>3. QED BY <1>3, <2>1, <2>2
<1>4. QED BY <1>1, <1>2, <1>3 DEF CellInv

\* An update is on a cell of no other transaction.
LEMMA UpdateOwns ==
    ASSUME CellInv, PendingInv, NEW t \in Txn, NEW c \in Cell, NEW v \in Byte, Update(t, c, v)
    PROVE  /\ t \in Live
           /\ \A u \in Live \ {t} : UpdatesIn(records, u, c) = {}
           /\ UpdatesIn(records, t, c) = {} => Get(buffer, c) = durable[c]
           /\ Now = Contents(buffer)
<1>1. /\ stage = "running" /\ status[t] = "live"
      /\ \A u \in Txn \ {t} : c \notin DOMAIN pending[u]
  BY DEF Update, Running
<1>2. t \in Live /\ Live \subseteq Txn
  BY <1>1 DEF Live
<1>3. \A u \in Live \ {t} : UpdatesIn(records, u, c) = {}
  BY <1>1, <1>2 DEF PendingInv
<1>4. Now = Contents(buffer) /\ Now[c] = Get(buffer, c)
  BY <1>1 DEF Now, Contents
<1>5. UpdatesIn(records, t, c) = {} => Get(buffer, c) = durable[c]
  BY <1>2, <1>3, <1>4 DEF CellInv
<1>6. QED BY <1>2, <1>3, <1>4, <1>5

-----------------------------------------------------------------------------
(* Data: what the actions do to the pages.                                 *)

LEMMA HeadRestores ==
    ASSUME NEW recs, NEW now, NEW saved, NEW t, NEW ops \in Seq(UpdateRecord), ops # <<>>,
           Restores(recs, now, saved, ops, t)
    PROVE  /\ Head(ops).cell \in Cell /\ Head(ops).before \in Byte
           /\ UpdatesIn(recs, t, Head(ops).cell) # {}
<1>1. Head(ops) \in UpdateRecord /\ Len(ops) \in Nat /\ DOMAIN ops = 1 .. Len(ops)
  BY HeadTailProperties, LenProperties
<1>2. Len(ops) # 0
  BY EmptySeq
<1>3. 1 \in DOMAIN ops /\ Head(ops) = ops[1]
  BY <1>1, <1>2
<1>4. Head(ops).cell \in Cell /\ Head(ops).before \in Byte
  BY <1>1 DEF UpdateRecord
<1>5. UpdatesIn(recs, t, ops[1].cell) # {}
  BY <1>3 DEF Restores
<1>6. QED BY <1>3, <1>4, <1>5

Compensates(t, ops) ==
    /\ t \in Live
    /\ Head(ops).cell \in Cell /\ UpdatesIn(records, t, Head(ops).cell) # {}
    /\ CellWritten(CLR(t, Head(ops).cell, Head(ops).before), Head(ops).cell)
    /\ BufferInv' /\ DiskInv'
    /\ Now' = [Now EXCEPT ![Head(ops).cell] = Head(ops).before]
    /\ SameUpdates

LEMMA CellWrites ==
    ASSUME ControlInv, DataInv, NEW t \in Txn
    PROVE  /\ \A c \in Cell, v \in Byte : Update(t, c, v) =>
                /\ CellWritten(UpdateLogged(t, c, v), c)
                /\ BufferInv' /\ DiskInv' /\ Now' = [Now EXCEPT ![c] = v]
           /\ RollbackOne(t) => Compensates(t, toUndo[t])
           /\ UndoOne(t) => Compensates(t, undoing.ops)
<1> USE DEF ControlInv, DataInv
<1>1. ASSUME NEW c \in Cell, NEW v \in Byte, Update(t, c, v)
      PROVE  /\ CellWritten(UpdateLogged(t, c, v), c)
             /\ BufferInv' /\ DiskInv' /\ Now' = [Now EXCEPT ![c] = v]
  <2> DEFINE r == UpdateLogged(t, c, v)
  <2>1. Logs(r)
    BY <1>1, ActionsLog
  <2>2. IsWriteOn(r, c) /\ r.after = v
    BY DEF UpdateLogged, IsWriteOn
  <2> HIDE DEF r
  <2>3. CellWritten(r, c)
    BY <1>1, <2>1, <2>2 DEF CellWritten, Update, WriteTo, Running
  <2>4. QED BY <2>2, <2>3, WrittenKeeps DEF r
<1>2. ASSUME NEW ops, t \in Live, Head(ops).cell \in Cell, UpdatesIn(records, t, Head(ops).cell) # {},
             CellWritten(CLR(t, Head(ops).cell, Head(ops).before), Head(ops).cell)
      PROVE  Compensates(t, ops)
  <2> DEFINE c == Head(ops).cell
             r == CLR(t, c, Head(ops).before)
  <2>1. r.after = Head(ops).before /\ r.kind = "CLR"
    BY DEF CLR
  <2>2. CellWritten(r, c) /\ c \in Cell
    BY <1>2
  <2> HIDE DEF c, r
  <2>3. BufferInv' /\ DiskInv' /\ Now' = [Now EXCEPT ![c] = r.after]
    BY <2>2, WrittenKeeps
  <2>4. SameUpdates
    <3>1. Logs(r) /\ r.kind # "Update"
      BY <2>1, <2>2 DEF CellWritten
    <3>2. QED BY <3>1, SameUpdatesHolds
  <2>5. QED BY <1>2, <2>1, <2>3, <2>4 DEF Compensates, c, r
<1>3. \A c \in Cell, v \in Byte : IsWriteOn(CLR(t, c, v), c) /\ CLR(t, c, v).after = v
  BY DEF CLR, IsWriteOn
<1>4. ASSUME RollbackOne(t) PROVE Compensates(t, toUndo[t])
  <2> DEFINE ops == toUndo[t]
  <2>1. /\ ops \in Seq(UpdateRecord) /\ ops # <<>>
        /\ stage = "running" /\ status[t] = "rolling"
    BY <1>4 DEF RollbackOne, Running, TypeInv
  <2>2. Restores(records, Now, durable, ops, t)
    BY <2>1 DEF UndoInv
  <2>3. Logs(CLR(t, Head(ops).cell, Head(ops).before))
    BY <1>4, ActionsLog
  <2>4. buffer' = WriteTo(buffer, Head(ops).cell, Head(ops).before)
    BY <1>4 DEF RollbackOne, WriteTo
  <2>5. UNCHANGED <<disk, stage, crashed>>
    BY <1>4 DEF RollbackOne
  <2> HIDE DEF ops
  <2>6. /\ Head(ops).cell \in Cell /\ Head(ops).before \in Byte
        /\ UpdatesIn(records, t, Head(ops).cell) # {}
    BY <2>1, <2>2, HeadRestores
  <2>7. CellWritten(CLR(t, Head(ops).cell, Head(ops).before), Head(ops).cell)
    BY <1>3, <2>1, <2>3, <2>4, <2>5, <2>6 DEF CellWritten
  <2>8. t \in Live
    BY <2>1 DEF Live
  <2>9. QED BY <1>2, <2>6, <2>7, <2>8 DEF ops
<1>5. ASSUME UndoOne(t) PROVE Compensates(t, undoing.ops)
  <2> DEFINE ops == undoing.ops
  <2>1. /\ ops \in Seq(UpdateRecord) /\ ops # <<>>
        /\ stage = "undoing" /\ undoing.txn = {t}
    BY <1>5 DEF UndoOne, TypeInv
  <2>2. Restores(records, Now, durable, ops, t)
    BY <2>1 DEF UndoInv
  <2>3. Logs(CLR(t, Head(ops).cell, Head(ops).before))
    BY <1>5, ActionsLog
  <2>4. buffer' = [buffer EXCEPT ![Head(ops).cell[1]] =
                     PutIfThere(@, Head(ops).cell[2], Head(ops).before)]
    BY <1>5 DEF UndoOne
  <2>5. UNCHANGED <<disk, stage, crashed>>
    BY <1>5 DEF UndoOne
  <2> HIDE DEF ops
  <2>6. /\ Head(ops).cell \in Cell /\ Head(ops).before \in Byte
        /\ UpdatesIn(records, t, Head(ops).cell) # {}
    BY <2>1, <2>2, HeadRestores
  <2> DEFINE c == Head(ops).cell
             v == Head(ops).before
  <2>7. There(buffer, c)
    <3>1. UpdatesIn(records, t, c) \subseteq WritesIn(records, c)
      BY DEF UpdatesIn, UpdatesOn, IsUpdateOf, WritesIn
    <3>2. QED BY <2>1, <2>6, <3>1 DEF BufferInv
  <2>8. buffer' = WriteTo(buffer, c, v)
    <3>1. buffer \in PageSet /\ c \in Cell /\ v \in Byte
      BY <2>6 DEF TypeInv
    <3>2. buffer' = [buffer EXCEPT ![c[1]] = PutIfThere(@, c[2], v)]
      BY <2>4
    <3> HIDE DEF c, v
    <3>3. QED BY <2>7, <3>1, <3>2, WriteIfThere
  <2>9. CellWritten(CLR(t, c, v), c)
    BY <1>3, <2>1, <2>3, <2>5, <2>6, <2>8 DEF CellWritten
  <2>10. t \in Live
    BY <2>1 DEF StageInv
  <2>11. QED BY <1>2, <2>6, <2>9, <2>10 DEF ops
<1>6. QED BY <1>1, <1>4, <1>5

QuietOf(t) ==
    Begin(t) \/ Commit(t) \/ StartRollback(t) \/ EndRollback(t) \/ UndoNext(t) \/ UndoEnd(t)

QuietStep ==
    \/ Checkpoint \/ (\E p \in Page : FlushPage(p))
    \/ Crash \/ Analyze \/ Redo \/ StartUndo \/ Restart

\* The actions that write no cell.
LEMMA QuietKeeps ==
    ASSUME FlushAtCheckpoint, ControlInv, DataInv,
           (\E t \in Txn : QuietOf(t)) \/ QuietStep
    PROVE  BufferInv' /\ DiskInv' /\ Now' = Now /\ SameUpdates
<1> USE DEF ControlInv, DataInv
<1>1. ASSUME NEW t \in Txn, Begin(t) \/ Commit(t) \/ EndRollback(t) \/ UndoEnd(t)
      PROVE  BufferInv' /\ DiskInv' /\ Now' = Now /\ SameUpdates
  <2>1. PICK k \in {"Begin", "Commit", "Abort"} : Logs(MarkRecord(k, t))
    BY <1>1, ActionsLog
  <2>2. MarkRecord(k, t).kind = k
    BY DEF MarkRecord
  <2>3. UNCHANGED <<buffer, disk, stage, crashed>>
    BY <1>1 DEF Begin, Commit, EndRollback, UndoEnd
  <2>4. QED BY <2>1, <2>2, <2>3, MarkKeeps, SameUpdatesHolds
<1>2. ASSUME Checkpoint PROVE BufferInv' /\ DiskInv' /\ Now' = Now /\ SameUpdates
  <2>1. Logs(CheckpointLogged) /\ CheckpointLogged.kind = "Checkpoint"
    BY <1>2, CheckpointLogs DEF CheckpointLogged
  <2>2. QED BY <1>2, <2>1, CheckpointKeeps, SameUpdatesHolds
<1>3. ASSUME NEW p \in Page, FlushPage(p) PROVE BufferInv' /\ DiskInv' /\ Now' = Now /\ SameUpdates
  <2>1. records' = records
    BY <1>3 DEF FlushPage, walVars
  <2>2. QED BY <1>3, <2>1, FlushKeeps, SameUpdatesHolds
<1>4. ASSUME Redo PROVE BufferInv' /\ DiskInv' /\ Now' = Now /\ SameUpdates
  <2>1. records' = records
    BY <1>4 DEF Redo, walVars
  <2>2. QED BY <1>4, <2>1, RedoKeeps, SameUpdatesHolds
<1>5. ASSUME \/ \E t \in Txn : StartRollback(t) \/ UndoNext(t)
             \/ Crash \/ Analyze \/ StartUndo \/ Restart
      PROVE  BufferInv' /\ DiskInv' /\ Now' = Now /\ SameUpdates
  <2>1. records' = records
    BY <1>5 DEF StartRollback, UndoNext, Crash, Analyze, StartUndo, Restart, walVars
  <2>2. QED BY <1>5, <2>1, SilentKeeps, SameUpdatesHolds
<1>6. QED BY <1>1, <1>2, <1>3, <1>4, <1>5 DEF QuietOf, QuietStep

\* Every step is quiet or writes a cell.
LEMMA StepKinds ==
    ASSUME Next
    PROVE  \/ \E t \in Txn : \/ \E c \in Cell, v \in Byte : Update(t, c, v)
                             \/ RollbackOne(t) \/ UndoOne(t)
                             \/ QuietOf(t)
           \/ QuietStep
  BY DEF Next, Caller, Recover, QuietOf, QuietStep

-----------------------------------------------------------------------------
(* Data: the committed values stay within reach.                           *)

\* What an update adds to the updates of its transaction.
LEMMA UpdateAdds ==
    ASSUME ControlInv, DataInv,
           NEW t \in Txn, NEW c \in Cell, NEW v \in Byte, Update(t, c, v)
    PROVE  /\ \A u, d : u # t \/ d # c => UpdatesIn(records', u, d) = UpdatesIn(records, u, d)
           /\ UpdatesIn(records', t, c) # {}
           /\ \A u \in Live : SavesIn(records', durable, u)
<1> DEFINE n == Len(records)
           r == UpdateLogged(t, c, v)
<1>1. Logs(r) /\ LogInv
  BY ActionsLog DEF ControlInv
<1>2. r.kind = "Update" /\ r.txn = t /\ r.cell = c /\ r.before = Get(buffer, c)
  BY DEF UpdateLogged
<1> HIDE DEF r
<1>3. /\ n \in Nat
      /\ \A u, d : UpdatesIn(records', u, d) =
           UpdatesIn(records, u, d) \union IfThen(IsUpdateOf(r, u) /\ r.cell = d, n + 1)
      /\ \A i \in 1 .. n : records'[i] = records[i]
      /\ records'[n + 1] = r
  BY <1>1 DEF Logs, Extended
<1> HIDE DEF n
<1>4. ASSUME NEW u, NEW d, u # t \/ d # c PROVE UpdatesIn(records', u, d) = UpdatesIn(records, u, d)
  <2>1. ~ (IsUpdateOf(r, u) /\ r.cell = d)
    BY <1>2, <1>4 DEF IsUpdateOf
  <2>2. UpdatesIn(records', u, d) =
          UpdatesIn(records, u, d) \union IfThen(IsUpdateOf(r, u) /\ r.cell = d, n + 1)
    BY <1>3
  <2>3. QED BY <2>1, <2>2 DEF IfThen
<1>5. UpdatesIn(records', t, c) = UpdatesIn(records, t, c) \union {n + 1}
  <2>1. IfThen(IsUpdateOf(r, t) /\ r.cell = c, n + 1) = {n + 1}
    BY <1>2 DEF IfThen, IsUpdateOf
  <2>2. QED BY <1>3, <2>1
<1>6. \A u, d : UpdatesIn(records, u, d) \subseteq 1 .. n
  BY DEF UpdatesIn, UpdatesOn, n
<1>7. ASSUME NEW u \in Live, NEW d \in Cell, NEW j \in UpdatesIn(records', u, d),
             \A k \in UpdatesIn(records', u, d) : j <= k
      PROVE  records'[j].before = durable[d]
  <2>1. SavesIn(records, durable, u)
    BY DEF DataInv, CellInv
  <2>2. CASE u # t \/ d # c
    BY <1>3, <1>4, <1>6, <1>7, <2>1, <2>2 DEF SavesIn
  <2>3. CASE u = t /\ d = c
    <3>1. CASE UpdatesIn(records, t, c) = {}
      <4>1. j = n + 1
        BY <1>5, <1>7, <2>3, <3>1
      <4>2. Get(buffer, c) = durable[c]
        BY <3>1, UpdateOwns DEF DataInv
      <4>3. QED BY <1>2, <1>3, <2>3, <4>1, <4>2
    <3>2. CASE UpdatesIn(records, t, c) # {}
      <4>1. PICK m \in UpdatesIn(records, t, c) : TRUE
        BY <3>2
      <4>2. m \in 1 .. n /\ j <= m /\ j \in UpdatesIn(records, t, c) \union {n + 1}
        BY <1>5, <1>6, <1>7, <2>3, <4>1
      <4>3. j \in UpdatesIn(records, t, c)
        BY <1>3, <4>2
      <4>4. \A k \in UpdatesIn(records, t, c) : j <= k
        BY <1>5, <1>7, <2>3
      <4>5. records'[j] = records[j]
        BY <1>3, <1>6, <4>3
      <4>6. QED BY <2>1, <2>3, <4>3, <4>4, <4>5 DEF SavesIn
    <3>3. QED BY <3>1, <3>2
  <2>4. QED BY <2>2, <2>3
<1>8. \A u \in Live : SavesIn(records', durable, u)
  BY <1>7 DEF SavesIn
<1>9. QED BY <1>4, <1>5, <1>8

LEMMA CellStep ==
    ASSUME FlushAtCheckpoint, ControlInv, DataInv, Next
    PROVE  CellInv'
<1> USE DEF ControlInv, DataInv
<1>1. ASSUME NEW t \in Txn, Begin(t) PROVE CellInv'
  <2>1. Now' = Now /\ SameUpdates
    BY <1>1, QuietKeeps DEF QuietOf
  <2>2. Live' = Live \union {t} /\ status[t] = "idle" /\ durable' = durable
    BY <1>1 DEF Begin, Live, TypeInv, storeVars
  <2>3. \A c \in Cell : UpdatesIn(records, t, c) = {}
    BY <2>2 DEF IdleInv
  <2>4. QED BY <2>1, <2>2, <2>3, CellKept DEF CellInv
<1>2. ASSUME NEW t \in Txn, NEW c \in Cell, NEW v \in Byte, Update(t, c, v) PROVE CellInv'
  <2>1. /\ t \in Live
        /\ \A u \in Live \ {t} : UpdatesIn(records, u, c) = {}
    BY <1>2, UpdateOwns
  <2>2. /\ \A u, d : u # t \/ d # c => UpdatesIn(records', u, d) = UpdatesIn(records, u, d)
        /\ UpdatesIn(records', t, c) # {}
        /\ \A u \in Live : SavesIn(records', durable, u)
    BY <1>2, UpdateAdds
  <2>3. Now' = [Now EXCEPT ![c] = v]
    BY <1>2, CellWrites
  <2>4. Live' = Live /\ durable' = durable
    BY <1>2 DEF Update, Live, managerVars
  <2>5. Owned'
    <3> SUFFICES ASSUME NEW u \in Live, NEW w \in Live, NEW d \in Cell,
                        UpdatesIn(records', u, d) # {}, UpdatesIn(records', w, d) # {}
                 PROVE  u = w
      BY <2>4 DEF Owned
    <3>1. CASE d # c
      BY <2>2, <3>1 DEF CellInv, Owned
    <3>2. CASE d = c
      <4>1. \A x \in Live \ {t} : UpdatesIn(records', x, c) = {}
        BY <2>1, <2>2
      <4>2. QED BY <3>2, <4>1
    <3>3. QED BY <3>1, <3>2
  <2>6. ASSUME NEW d \in Cell, \A u \in Live : UpdatesIn(records', u, d) = {} PROVE Now'[d] = durable[d]
    <3>1. d # c
      BY <2>1, <2>2, <2>6
    <3>2. \A u \in Live : UpdatesIn(records, u, d) = {}
      BY <2>2, <2>6, <3>1
    <3>3. Now'[d] = Now[d]
      BY <2>3, <3>1, NowType
    <3>4. QED BY <3>2, <3>3 DEF CellInv
  <2>7. QED BY <2>2, <2>4, <2>5, <2>6 DEF CellInv
<1>3. ASSUME NEW t \in Txn, Commit(t) PROVE CellInv'
  <2>1. Now' = Now /\ SameUpdates
    BY <1>3, QuietKeeps DEF QuietOf
  <2>2. /\ stage = "running" /\ status[t] = "live" /\ t \in Live
        /\ Live' = Live \ {t}
        /\ durable' = [c \in Cell |-> IF c \in DOMAIN pending[t] THEN pending[t][c] ELSE durable[c]]
    BY <1>3 DEF Commit, Running, Live, TypeInv
  <2>3. DOMAIN pending[t] = {c \in Cell : UpdatesIn(records, t, c) # {}}
    BY <2>2 DEF PendingInv
  <2>4. ASSUME NEW c \in Cell
        PROVE  /\ UpdatesIn(records, t, c) # {} => durable'[c] = Now[c]
               /\ UpdatesIn(records, t, c) = {} => durable'[c] = durable[c]
    BY <2>2, <2>3 DEF PendingInv
  <2>5. Owned'
    BY <2>1, <2>2 DEF CellInv, Owned, SameUpdates
  <2>6. ASSUME NEW u \in Live' PROVE SavesIn(records', durable', u)
    <3>1. u \in Live /\ u # t
      BY <2>2, <2>6
    <3>2. \A c \in Cell : UpdatesIn(records, u, c) # {} => durable'[c] = durable[c]
      BY <2>2, <2>4, <3>1 DEF CellInv, Owned
    <3>3. SavesIn(records', durable, u)
      BY <2>1, <3>1 DEF CellInv, SameUpdates
    <3>4. \A c : UpdatesIn(records', u, c) = UpdatesIn(records, u, c)
      BY <2>1 DEF SameUpdates
    <3>5. QED BY <3>2, <3>3, <3>4 DEF SavesIn
  <2>7. ASSUME NEW c \in Cell, \A u \in Live' : UpdatesIn(records', u, c) = {}
        PROVE  Now'[c] = durable'[c]
    <3>1. \A u \in Live \ {t} : UpdatesIn(records, u, c) = {}
      BY <2>1, <2>2, <2>7 DEF SameUpdates
    <3>2. CASE UpdatesIn(records, t, c) # {}
      BY <2>1, <2>4, <3>2
    <3>3. CASE UpdatesIn(records, t, c) = {}
      BY <2>1, <2>4, <3>1, <3>3 DEF CellInv
    <3>4. QED BY <3>2, <3>3
  <2>8. QED BY <2>5, <2>6, <2>7 DEF CellInv
<1>4. ASSUME NEW t \in Txn, EndRollback(t) \/ UndoEnd(t) PROVE CellInv'
  <2>1. Now' = Now /\ SameUpdates
    BY <1>4, QuietKeeps DEF QuietOf
  <2>2. Live' = Live \ {t} /\ durable' = durable
    BY <1>4 DEF EndRollback, UndoEnd, Live, TypeInv, storeVars
  <2>3. Restores(records, Now, durable, <<>>, t)
    BY <1>4 DEF EndRollback, UndoEnd, Running, UndoInv
  <2>4. \A c \in Cell : UpdatesIn(records, t, c) # {} => Now[c] = durable[c]
    BY <2>3, RestoresDone
  <2>5. ASSUME NEW c \in Cell, \A u \in Live' : UpdatesIn(records, u, c) = {}
        PROVE  Now'[c] = durable[c]
    <3>1. CASE UpdatesIn(records, t, c) # {}
      BY <2>1, <2>4, <3>1
    <3>2. CASE UpdatesIn(records, t, c) = {}
      BY <2>1, <2>2, <2>5, <3>2 DEF CellInv
    <3>3. QED BY <3>1, <3>2
  <2>6. QED BY <2>1, <2>2, <2>5, CellKept
<1>5. ASSUME NEW t \in Txn, NEW ops, Compensates(t, ops), Live' = Live, durable' = durable
      PROVE  CellInv'
  <2> DEFINE d == Head(ops).cell
  <2>1. /\ t \in Live /\ d \in Cell /\ UpdatesIn(records, t, d) # {}
        /\ Now' = [Now EXCEPT ![d] = Head(ops).before]
        /\ SameUpdates
    BY <1>5 DEF Compensates
  <2> HIDE DEF d
  <2>2. ASSUME NEW c \in Cell, \A u \in Live' : UpdatesIn(records, u, c) = {}
        PROVE  Now'[c] = durable[c]
    <3>1. c # d
      BY <1>5, <2>1, <2>2
    <3>2. Now'[c] = Now[c]
      BY <2>1, <3>1, NowType
    <3>3. QED BY <1>5, <2>2, <3>2 DEF CellInv
  <2>3. QED BY <1>5, <2>1, <2>2, CellKept
<1>6. ASSUME NEW t \in Txn, RollbackOne(t) PROVE CellInv'
  <2>1. Live' = Live /\ durable' = durable
    BY <1>6 DEF RollbackOne, Live, storeVars
  <2>2. QED BY <1>5, <1>6, <2>1, CellWrites
<1>7. ASSUME NEW t \in Txn, UndoOne(t) PROVE CellInv'
  <2>1. Live' = Live /\ durable' = durable
    BY <1>7 DEF UndoOne, Live, storeVars, managerVars
  <2>2. QED BY <1>5, <1>7, <2>1, CellWrites
<1>8. ASSUME (\E t \in Txn : StartRollback(t) \/ UndoNext(t)) \/ QuietStep PROVE CellInv'
  <2>1. Now' = Now /\ SameUpdates
    BY <1>8, QuietKeeps DEF QuietOf
  <2>2. Live' = Live
    BY <1>8 DEF StartRollback, UndoNext, QuietStep, Checkpoint, FlushPage, Crash, Analyze, Redo,
                StartUndo, Restart, Live, managerVars, TypeInv
  <2>3. durable' = durable
    BY <1>8 DEF StartRollback, UndoNext, QuietStep, Checkpoint, FlushPage, Crash, Analyze, Redo,
                StartUndo, Restart, storeVars
  <2>4. QED BY <2>1, <2>2, <2>3, CellKept DEF CellInv
<1>9. QED
  BY <1>1, <1>2, <1>3, <1>4, <1>6, <1>7, <1>8, StepKinds DEF QuietOf

LEMMA PendingStep ==
    ASSUME FlushAtCheckpoint, ControlInv, DataInv, Next
    PROVE  PendingInv'
<1> USE DEF ControlInv, DataInv
<1>1. ASSUME stage' # "running" PROVE PendingInv'
  BY <1>1 DEF PendingInv
<1>2. DOMAIN NoWrites = {}
  BY DEF NoWrites
<1>3. ASSUME stage = "running", SameUpdates, Now' = Now, NEW t \in Txn,
             \A u \in Txn \ {t} : pending'[u] = pending[u] /\ status'[u] = status[u],
             \/ t \notin Live' /\ pending'[t] = NoWrites
             \/ /\ t \in Live' /\ pending'[t] = pending[t]
                /\ t \in Live \/ \A c \in Cell : UpdatesIn(records, t, c) = {}
                /\ status'[t] = "live" => status[t] = "live" \/ t \notin Live
      PROVE  PendingInv'
  <2>1. \A u, c : UpdatesIn(records', u, c) = UpdatesIn(records, u, c)
    BY <1>3 DEF SameUpdates
  <2>2. ASSUME NEW u \in Txn
        PROVE  /\ u \in Live' => DOMAIN pending'[u] = {c \in Cell : UpdatesIn(records', u, c) # {}}
               /\ u \notin Live' => pending'[u] = NoWrites
               /\ status'[u] = "live" => \A c \in DOMAIN pending'[u] : Now'[c] = pending'[u][c]
    <3>1. CASE u # t
      <4>1. pending'[u] = pending[u] /\ status'[u] = status[u] /\ (u \in Live' <=> u \in Live)
        BY <1>3, <3>1 DEF Live
      <4>2. QED BY <1>3, <2>1, <4>1 DEF PendingInv
    <3>2. CASE u = t /\ t \notin Live'
      BY <1>2, <1>3, <3>2
    <3>3. CASE u = t /\ t \in Live'
      <4>1. CASE t \in Live
        BY <1>3, <2>1, <3>3, <4>1 DEF PendingInv
      <4>2. CASE t \notin Live
        BY <1>2, <1>3, <2>1, <3>3, <4>2 DEF PendingInv
      <4>3. QED BY <4>1, <4>2
    <3>4. QED BY <3>1, <3>2, <3>3
  <2>3. QED BY <2>2 DEF PendingInv
<1>4. ASSUME NEW t \in Txn, Begin(t) PROVE PendingInv'
  <2>1. Now' = Now /\ SameUpdates
    BY <1>4, QuietKeeps DEF QuietOf
  <2>2. /\ stage = "running" /\ status[t] = "idle" /\ pending' = pending
        /\ status' = [status EXCEPT ![t] = "live"]
    BY <1>4 DEF Begin, Running, storeVars
  <2>3. t \notin Live /\ t \in Live' /\ \A u \in Txn \ {t} : status'[u] = status[u]
    BY <2>2 DEF Live, TypeInv
  <2>4. \A c \in Cell : UpdatesIn(records, t, c) = {}
    BY <2>2 DEF IdleInv
  <2>5. QED BY <1>3, <2>1, <2>2, <2>3, <2>4
<1>5. ASSUME NEW t \in Txn, NEW c \in Cell, NEW v \in Byte, Update(t, c, v) PROVE PendingInv'
  <2>1. /\ t \in Live
        /\ \A u \in Live \ {t} : UpdatesIn(records, u, c) = {}
    BY <1>5, UpdateOwns
  <2>2. /\ \A u, d : u # t \/ d # c => UpdatesIn(records', u, d) = UpdatesIn(records, u, d)
        /\ UpdatesIn(records', t, c) # {}
    BY <1>5, UpdateAdds
  <2>3. Now' = [Now EXCEPT ![c] = v] /\ Now \in [Cell -> Byte]
    BY <1>5, CellWrites, NowType
  <2>4. /\ Live' = Live /\ status' = status /\ stage = "running"
        /\ pending' = [pending EXCEPT ![t] = Bind(pending[t], c, v)]
    BY <1>5 DEF Update, Live, managerVars, Running
  <2>5. /\ pending'[t] = Bind(pending[t], c, v)
        /\ \A u \in Txn \ {t} : pending'[u] = pending[u]
    BY <2>4 DEF TypeInv
  <2>6. /\ DOMAIN pending'[t] = DOMAIN pending[t] \union {c}
        /\ pending'[t][c] = v
        /\ \A d \in DOMAIN pending[t] : d # c => pending'[t][d] = pending[t][d]
    BY <2>5 DEF Bind
  <2>7. DOMAIN pending[t] = {d \in Cell : UpdatesIn(records, t, d) # {}}
    BY <2>1, <2>4 DEF PendingInv
  <2>8. ASSUME NEW u \in Txn
        PROVE  /\ u \in Live => DOMAIN pending'[u] = {d \in Cell : UpdatesIn(records', u, d) # {}}
               /\ u \notin Live => pending'[u] = NoWrites
               /\ status[u] = "live" => \A d \in DOMAIN pending'[u] : Now'[d] = pending'[u][d]
    <3>1. CASE u = t
      <4>1. \A d \in Cell : UpdatesIn(records', t, d) # {} <=> d = c \/ UpdatesIn(records, t, d) # {}
        BY <2>2
      <4>2. DOMAIN pending'[t] = {d \in Cell : UpdatesIn(records', t, d) # {}}
        BY <2>6, <2>7, <4>1
      <4>3. status[t] = "live" => \A d \in DOMAIN pending'[t] : Now'[d] = pending'[t][d]
        BY <2>3, <2>4, <2>6, <2>7 DEF PendingInv
      <4>4. QED BY <2>1, <3>1, <4>2, <4>3
    <3>2. CASE u # t
      <4>1. pending'[u] = pending[u]
        BY <2>5, <3>2
      <4>2. u \in Live => DOMAIN pending[u] = {d \in Cell : UpdatesIn(records', u, d) # {}}
        BY <2>2, <2>4, <3>2 DEF PendingInv
      <4>3. u \notin Live => pending[u] = NoWrites
        BY <2>4 DEF PendingInv
      <4>4. status[u] = "live" => \A d \in DOMAIN pending[u] : Now'[d] = pending[u][d]
        <5> SUFFICES ASSUME status[u] = "live", NEW d \in DOMAIN pending[u] PROVE Now'[d] = pending[u][d]
          OBVIOUS
        <5>1. u \in Live
          BY DEF Live
        <5>2. d \in Cell /\ UpdatesIn(records, u, d) # {}
          BY <2>4, <5>1 DEF PendingInv
        <5>3. d # c
          BY <2>1, <3>2, <5>1, <5>2
        <5>4. QED BY <2>3, <2>4, <5>2, <5>3 DEF PendingInv
      <4>5. QED BY <4>1, <4>2, <4>3, <4>4
    <3>3. QED BY <3>1, <3>2
  <2>9. QED BY <2>4, <2>8 DEF PendingInv
<1>6. ASSUME NEW t \in Txn, Commit(t) \/ EndRollback(t) PROVE PendingInv'
  <2>1. Now' = Now /\ SameUpdates
    BY <1>6, QuietKeeps DEF QuietOf
  <2>2. /\ stage = "running"
        /\ pending' = [pending EXCEPT ![t] = NoWrites]
        /\ \E s \in {"committed", "aborted"} : status' = [status EXCEPT ![t] = s]
    BY <1>6 DEF Commit, EndRollback, Running
  <2>3. /\ t \notin Live' /\ pending'[t] = NoWrites
        /\ \A u \in Txn \ {t} : status'[u] = status[u] /\ pending'[u] = pending[u]
    BY <2>2 DEF Live, TypeInv
  <2>4. QED BY <1>3, <2>1, <2>2, <2>3
<1>7. ASSUME NEW t \in Txn, StartRollback(t) PROVE PendingInv'
  <2>1. Now' = Now /\ SameUpdates
    BY <1>7, QuietKeeps DEF QuietOf
  <2>2. /\ stage = "running" /\ pending' = pending /\ status[t] = "live"
        /\ status' = [status EXCEPT ![t] = "rolling"]
    BY <1>7 DEF StartRollback, Running, storeVars
  <2>3. /\ t \in Live' /\ t \in Live
        /\ \A u \in Txn \ {t} : status'[u] = status[u]
    BY <2>2 DEF Live, TypeInv
  <2>4. QED BY <1>3, <2>1, <2>2, <2>3
<1>8. ASSUME NEW t \in Txn, RollbackOne(t) PROVE PendingInv'
  <2> DEFINE d == Head(toUndo[t]).cell
  <2>1. /\ t \in Live /\ d \in Cell /\ UpdatesIn(records, t, d) # {}
        /\ Now' = [Now EXCEPT ![d] = Head(toUndo[t]).before]
        /\ SameUpdates
    BY <1>8, CellWrites DEF Compensates
  <2>2. /\ stage = "running" /\ pending' = pending /\ status' = status /\ status[t] = "rolling"
    BY <1>8 DEF RollbackOne, Running, storeVars
  <2> HIDE DEF d
  <2>3. Live' = Live
    BY <2>2 DEF Live
  <2>4. ASSUME NEW u \in Txn, status[u] = "live", NEW c \in DOMAIN pending[u]
        PROVE  Now'[c] = pending[u][c]
    <3>1. u \in Live /\ u # t
      BY <2>2, <2>4 DEF Live
    <3>2. c \in Cell /\ UpdatesIn(records, u, c) # {} /\ Now[c] = pending[u][c]
      BY <2>2, <2>4, <3>1 DEF PendingInv
    <3>3. c # d
      BY <2>1, <3>1, <3>2 DEF CellInv, Owned
    <3>4. QED BY <2>1, <3>2, <3>3, NowType
  <2>5. \A u, c : UpdatesIn(records', u, c) = UpdatesIn(records, u, c)
    BY <2>1 DEF SameUpdates
  <2>6. QED BY <2>2, <2>3, <2>4, <2>5 DEF PendingInv
<1>9. ASSUME Checkpoint \/ \E p \in Page : FlushPage(p) PROVE PendingInv'
  <2>1. Now' = Now /\ SameUpdates
    BY <1>9, QuietKeeps DEF QuietStep
  <2>2. UNCHANGED <<pending, status, stage>>
    BY <1>9 DEF Checkpoint, FlushPage, managerVars, storeVars
  <2>3. Live' = Live
    BY <2>2 DEF Live
  <2>4. QED BY <2>1, <2>2, <2>3 DEF PendingInv, SameUpdates
<1>10. ASSUME Restart PROVE PendingInv'
  <2>1. Live = {} /\ \A t \in Txn : pending[t] = NoWrites
    BY <1>10 DEF Restart, StageInv, Nobody
  <2>2. pending' = pending /\ status' = status /\ Live' = Live
    BY <1>10 DEF Restart, managerVars, storeVars, Live
  <2>3. QED BY <1>2, <2>1, <2>2 DEF PendingInv, Live
<1>11. ASSUME \/ Crash \/ Analyze \/ Redo \/ StartUndo
              \/ \E t \in Txn : UndoNext(t) \/ UndoOne(t) \/ UndoEnd(t)
       PROVE  PendingInv'
  <2>1. stage' # "running"
    BY <1>11 DEF Crash, Analyze, Redo, StartUndo, UndoNext, UndoOne, UndoEnd
  <2>2. QED BY <1>1, <2>1
<1>12. QED
  BY <1>4, <1>5, <1>6, <1>7, <1>8, <1>9, <1>10, <1>11 DEF Next, Caller, Recover

LEMMA UndoStep ==
    ASSUME FlushAtCheckpoint, ControlInv, DataInv, Next
    PROVE  UndoInv'
<1> USE DEF ControlInv, DataInv
<1> DEFINE Same(u) == \A c : UpdatesIn(records', u, c) = UpdatesIn(records, u, c)
           Agree(u) == \A c \in Cell : UpdatesIn(records, u, c) # {} =>
                          Now'[c] = Now[c] /\ durable'[c] = durable[c]
           Rolls(u) == stage = "running" /\ status[u] = "rolling"
<1>1. ASSUME NEW u \in Txn, NEW ops, Restores(records, Now, durable, ops, u), Same(u), Agree(u)
      PROVE  Restores(records', Now', durable', ops, u)
  BY <1>1, RestoresKept
<1>2. ASSUME NEW u \in Txn, Same(u), Agree(u),
             Rolls(u)' => Rolls(u) /\ toUndo'[u] = toUndo[u],
             undoing'.txn = {u} => undoing' = undoing
      PROVE  /\ Rolls(u)' => Restores(records', Now', durable', toUndo'[u], u)
             /\ undoing'.txn = {u} => Restores(records', Now', durable', undoing'.ops, u)
  BY <1>1, <1>2 DEF UndoInv
<1>3. ASSUME \A u \in Txn :
               /\ Rolls(u)' => Restores(records', Now', durable', toUndo'[u], u)
               /\ undoing'.txn = {u} => Restores(records', Now', durable', undoing'.ops, u)
      PROVE  UndoInv'
  BY <1>3 DEF UndoInv
<1>4. \A t \in Txn : Nobody.txn # {t}
  BY DEF Nobody
<1>5. ASSUME NEW t \in Txn, NEW c \in Cell, NEW v \in Byte, Update(t, c, v) PROVE UndoInv'
  <2>1. \A u \in Live \ {t} : UpdatesIn(records, u, c) = {}
    BY <1>5, UpdateOwns
  <2>2. \A u, d : u # t => UpdatesIn(records', u, d) = UpdatesIn(records, u, d)
    BY <1>5, UpdateAdds
  <2>3. Now' = [Now EXCEPT ![c] = v] /\ Now \in [Cell -> Byte]
    BY <1>5, CellWrites, NowType
  <2>4. /\ UNCHANGED <<status, toUndo, stage, undoing, durable>> /\ stage = "running" /\ status[t] = "live"
    BY <1>5 DEF Update, managerVars, recoveryVars, Running
  <2>5. undoing' = Nobody
    BY <2>4 DEF StageInv
  <2>6. ASSUME NEW u \in Txn
        PROVE  /\ Rolls(u)' => Restores(records', Now', durable', toUndo'[u], u)
               /\ undoing'.txn = {u} => Restores(records', Now', durable', undoing'.ops, u)
    <3>1. CASE ~ Rolls(u)'
      BY <1>4, <2>5, <3>1
    <3>2. CASE Rolls(u)'
      <4>1. u # t /\ u \in Live
        BY <2>4, <3>2 DEF Live
      <4>2. Same(u) /\ Agree(u)
        BY <2>1, <2>2, <2>3, <2>4, <4>1
      <4>3. QED BY <1>2, <1>4, <2>4, <2>5, <4>2
    <3>3. QED BY <3>1, <3>2
  <2>7. QED BY <1>3, <2>6
<1>6. ASSUME NEW t \in Txn, StartRollback(t) PROVE UndoInv'
  <2>1. Now' = Now /\ SameUpdates
    BY <1>6, QuietKeeps DEF QuietOf
  <2>2. /\ UNCHANGED <<records, stage, undoing, durable>> /\ stage = "running" /\ status[t] = "live"
        /\ toUndo' = [toUndo EXCEPT ![t] = UndoOps(records, t)]
        /\ status' = [status EXCEPT ![t] = "rolling"]
    BY <1>6 DEF StartRollback, walVars, recoveryVars, storeVars, Running
  <2>3. undoing' = Nobody
    BY <2>2 DEF StageInv
  <2>4. \A u \in Txn : Same(u) /\ Agree(u)
    BY <2>1, <2>2
  <2>5. ASSUME NEW u \in Txn
        PROVE  /\ Rolls(u)' => Restores(records', Now', durable', toUndo'[u], u)
               /\ undoing'.txn = {u} => Restores(records', Now', durable', undoing'.ops, u)
    <3>1. CASE u = t
      <4>1. SavesIn(records, durable, t)
        BY <2>2 DEF CellInv, Live
      <4>2. Restores(records, Now, durable, UndoOps(records, t), t)
        BY <4>1, RestoresFromLog DEF LogInv
      <4>3. toUndo'[t] = UndoOps(records, t)
        BY <2>2 DEF TypeInv
      <4>4. QED BY <1>4, <2>1, <2>2, <2>3, <3>1, <4>2, <4>3
    <3>2. CASE u # t
      <4>1. status'[u] = status[u] /\ toUndo'[u] = toUndo[u]
        BY <2>2, <3>2 DEF TypeInv
      <4>2. QED BY <1>2, <1>4, <2>2, <2>3, <2>4, <4>1
    <3>3. QED BY <3>1, <3>2
  <2>6. QED BY <1>3, <2>5
<1>7. ASSUME NEW t \in Txn, RollbackOne(t) PROVE UndoInv'
  <2> DEFINE ops == toUndo[t]
             d == Head(ops).cell
  <2>1. /\ t \in Live /\ d \in Cell /\ UpdatesIn(records, t, d) # {}
        /\ Now' = [Now EXCEPT ![d] = Head(ops).before]
        /\ SameUpdates
    BY <1>7, CellWrites DEF Compensates
  <2>2. /\ UNCHANGED <<status, stage, undoing, durable>> /\ stage = "running" /\ status[t] = "rolling"
        /\ toUndo' = [toUndo EXCEPT ![t] = Tail(ops)] /\ ops # <<>>
    BY <1>7 DEF RollbackOne, recoveryVars, storeVars, Running
  <2>3. undoing' = Nobody
    BY <2>2 DEF StageInv
  <2>4. Now \in [Cell -> Byte] /\ ops \in Seq(UpdateRecord)
    BY NowType DEF TypeInv
  <2>5. Restores(records, Now, durable, ops, t)
    BY <2>2 DEF UndoInv
  <2>6. \A u \in Txn : toUndo'[u] = IF u = t THEN Tail(ops) ELSE toUndo[u]
    BY <2>2 DEF TypeInv
  <2>7. \A u \in Txn : Same(u)
    BY <2>1 DEF SameUpdates
  <2> HIDE DEF ops
  <2>8. Restores(records', Now', durable, Tail(ops), t)
    BY <2>1, <2>2, <2>4, <2>5, <2>7, RestoresTail
  <2>9. ASSUME NEW u \in Txn
        PROVE  /\ Rolls(u)' => Restores(records', Now', durable', toUndo'[u], u)
               /\ undoing'.txn = {u} => Restores(records', Now', durable', undoing'.ops, u)
    <3>1. CASE ~ Rolls(u)'
      BY <1>4, <2>3, <3>1
    <3>2. CASE u = t
      BY <1>4, <2>2, <2>3, <2>6, <2>8, <3>2
    <3>3. CASE Rolls(u)' /\ u # t
      <4>1. u \in Live
        BY <2>2, <3>3 DEF Live
      <4>2. Agree(u)
        <5>1. \A c \in Cell : UpdatesIn(records, u, c) # {} => c # d
          BY <2>1, <3>3, <4>1 DEF CellInv, Owned
        <5>2. QED BY <2>1, <2>2, <2>4, <5>1
      <4>3. QED BY <1>2, <1>4, <2>2, <2>3, <2>6, <2>7, <3>3, <4>2
    <3>4. QED BY <3>1, <3>2, <3>3
  <2>10. QED BY <1>3, <2>9
<1>8. ASSUME NEW t \in Txn, Commit(t) PROVE UndoInv'
  <2>1. Now' = Now /\ SameUpdates
    BY <1>8, QuietKeeps DEF QuietOf
  <2>2. /\ stage = "running" /\ status[t] = "live" /\ t \in Live
        /\ UNCHANGED <<toUndo, stage, undoing>>
        /\ status' = [status EXCEPT ![t] = "committed"]
        /\ durable' = [c \in Cell |-> IF c \in DOMAIN pending[t] THEN pending[t][c] ELSE durable[c]]
    BY <1>8 DEF Commit, Running, Live, recoveryVars
  <2>3. undoing' = Nobody
    BY <2>2 DEF StageInv
  <2>4. \A c \in Cell : UpdatesIn(records, t, c) = {} => durable'[c] = durable[c]
    BY <2>2 DEF PendingInv
  <2>5. ASSUME NEW u \in Txn
        PROVE  /\ Rolls(u)' => Restores(records', Now', durable', toUndo'[u], u)
               /\ undoing'.txn = {u} => Restores(records', Now', durable', undoing'.ops, u)
    <3>1. CASE ~ Rolls(u)'
      BY <1>4, <2>3, <3>1
    <3>2. CASE Rolls(u)'
      <4>1. u # t /\ Rolls(u) /\ u \in Live
        BY <2>2, <3>2 DEF Live, TypeInv
      <4>2. Same(u) /\ Agree(u)
        BY <2>1, <2>2, <2>4, <4>1 DEF CellInv, Owned, SameUpdates
      <4>3. QED BY <1>2, <1>4, <2>2, <2>3, <4>1, <4>2
    <3>3. QED BY <3>1, <3>2
  <2>6. QED BY <1>3, <2>5
<1>9. ASSUME \/ \E t \in Txn : Begin(t) \/ EndRollback(t) \/ UndoEnd(t)
             \/ QuietStep
      PROVE  UndoInv'
  <2>1. Now' = Now /\ SameUpdates
    BY <1>9, QuietKeeps DEF QuietOf
  <2>2. durable' = durable
    BY <1>9 DEF Begin, EndRollback, UndoEnd, QuietStep, Checkpoint, FlushPage, Crash, Analyze, Redo,
                StartUndo, Restart, storeVars
  <2>3. \A u \in Txn : Same(u) /\ Agree(u)
    BY <2>1, <2>2 DEF SameUpdates
  <2>4. undoing' = undoing \/ undoing' = Nobody
    BY <1>9 DEF Begin, EndRollback, UndoEnd, QuietStep, Checkpoint, FlushPage, Crash, Analyze, Redo,
                StartUndo, Restart, recoveryVars
  <2>5. ASSUME NEW u \in Txn, Rolls(u)' PROVE Rolls(u) /\ toUndo'[u] = toUndo[u]
    <3>1. CASE \E t \in Txn : Begin(t) \/ EndRollback(t) \/ UndoEnd(t)
      BY <2>5, <3>1 DEF Begin, EndRollback, UndoEnd, TypeInv
    <3>2. CASE Checkpoint \/ \E p \in Page : FlushPage(p)
      BY <2>5, <3>2 DEF Checkpoint, FlushPage, managerVars
    <3>3. CASE Crash \/ Analyze \/ Redo \/ StartUndo
      BY <2>5, <3>3 DEF Crash, Analyze, Redo, StartUndo
    <3>4. CASE Restart
      <4>1. Live = {} /\ status' = status
        BY <3>4 DEF Restart, StageInv, Nobody, managerVars
      <4>2. QED BY <2>5, <4>1 DEF Live
    <3>5. QED BY <1>9, <3>1, <3>2, <3>3, <3>4 DEF QuietStep
  <2>6. \A u \in Txn : undoing'.txn = {u} => undoing' = undoing
    BY <1>4, <2>4
  <2>7. QED BY <1>2, <1>3, <2>3, <2>5, <2>6
<1>10. ASSUME NEW t \in Txn, UndoNext(t) PROVE UndoInv'
  <2>1. Now' = Now /\ SameUpdates
    BY <1>10, QuietKeeps DEF QuietOf
  <2>2. /\ stage' = "undoing" /\ stage = "undoing" /\ durable' = durable /\ records' = records
        /\ undoing' = [txn |-> {t}, ops |-> UndoOps(records, t)] /\ t \in losers
    BY <1>10 DEF UndoNext, walVars, storeVars
  <2>3. t \in Live
    BY <2>2 DEF StageInv
  <2>4. Restores(records, Now, durable, UndoOps(records, t), t)
    BY <2>3, RestoresFromLog DEF CellInv, LogInv
  <2>5. ASSUME NEW u \in Txn, undoing'.txn = {u} PROVE Restores(records', Now', durable', undoing'.ops, u)
    <3>1. u = t /\ undoing'.ops = UndoOps(records, t)
      BY <2>2, <2>5
    <3>2. QED BY <2>1, <2>2, <2>4, <3>1
  <2>6. QED BY <1>3, <2>2, <2>5
<1>11. ASSUME NEW t \in Txn, UndoOne(t) PROVE UndoInv'
  <2> DEFINE ops == undoing.ops
  <2>1. /\ Now' = [Now EXCEPT ![Head(ops).cell] = Head(ops).before]
        /\ SameUpdates
    BY <1>11, CellWrites DEF Compensates
  <2>2. /\ stage' = "undoing" /\ durable' = durable /\ undoing.txn = {t}
        /\ undoing' = [undoing EXCEPT !.ops = Tail(ops)] /\ ops # <<>>
    BY <1>11 DEF UndoOne, storeVars
  <2>3. undoing'.txn = {t} /\ undoing'.ops = Tail(ops)
    BY <2>2 DEF TypeInv
  <2>4. Now \in [Cell -> Byte] /\ ops \in Seq(UpdateRecord)
    BY NowType DEF TypeInv
  <2>5. Restores(records, Now, durable, ops, t)
    BY <2>2 DEF UndoInv
  <2> HIDE DEF ops
  <2>6. Restores(records', Now', durable, Tail(ops), t)
    BY <2>1, <2>2, <2>4, <2>5, RestoresTail DEF SameUpdates
  <2>7. ASSUME NEW u \in Txn, undoing'.txn = {u} PROVE Restores(records', Now', durable', undoing'.ops, u)
    <3>1. u = t
      BY <2>3, <2>7
    <3>2. QED BY <2>2, <2>3, <2>6, <3>1
  <2>8. QED BY <1>3, <2>2, <2>7
<1>12. QED
  BY <1>5, <1>6, <1>7, <1>8, <1>9, <1>10, <1>11, StepKinds DEF QuietOf

LEMMA DataInit ==
    ASSUME Init
    PROVE  DataInv
<1>1. /\ records = <<>> /\ buffer = Blank /\ disk = Blank /\ stage = "running"
      /\ durable = [c \in Cell |-> 0] /\ pending = [t \in Txn |-> NoWrites]
      /\ status = [t \in Txn |-> "idle"] /\ undoing = Nobody
  BY DEF Init, WALInit
<1>2. Live = {}
  BY <1>1 DEF Live
<1>3. Len(records) = 0 /\ 1 .. 0 = {}
  BY <1>1
<1>4. \A c : WritesIn(records, c) = {}
  BY <1>3 DEF WritesIn
<1>5. \A c \in Cell : Get(Blank, c) = 0
  <2> SUFFICES ASSUME NEW c \in Cell PROVE Get(Blank, c) = 0
    OBVIOUS
  <2>1. c[1] \in Page /\ c[2] \in Nat \ {0}
    BY WALAssumption
  <2>2. Blank[c[1]] = <<>> /\ Len(<<>>) = 0
    BY <2>1 DEF Blank
  <2>3. ~ (0 >= c[2])
    BY <2>1
  <2>4. QED BY <2>2, <2>3 DEF Get
<1>6. \A c \in Cell : Now[c] = 0
  BY <1>1, <1>5 DEF Now, Contents
<1>7. BufferInv /\ DiskInv
  BY <1>1, <1>4, <1>5, <1>6 DEF BufferInv, DiskInv, LogHas
<1>8. CellInv
  BY <1>1, <1>2, <1>6 DEF CellInv, Owned
<1>9. PendingInv
  BY <1>1, <1>2 DEF PendingInv, Live
<1>10. UndoInv
  BY <1>1 DEF UndoInv, Nobody
<1>11. QED BY <1>7, <1>8, <1>9, <1>10 DEF DataInv

LEMMA DataStep ==
    ASSUME FlushAtCheckpoint, ControlInv, DataInv, [Next]_vars
    PROVE  DataInv'
<1>1. CASE Next
  <2>1. BufferInv' /\ DiskInv'
    <3>1. ASSUME NEW t \in Txn, \/ \E c \in Cell, v \in Byte : Update(t, c, v)
                                \/ RollbackOne(t) \/ UndoOne(t)
          PROVE  BufferInv' /\ DiskInv'
      BY <3>1, CellWrites DEF Compensates
    <3>2. ASSUME (\E t \in Txn : QuietOf(t)) \/ QuietStep PROVE BufferInv' /\ DiskInv'
      BY <3>2, QuietKeeps
    <3>3. QED BY <1>1, <3>1, <3>2, StepKinds
  <2>2. CellInv' /\ PendingInv' /\ UndoInv'
    BY <1>1, CellStep, PendingStep, UndoStep
  <2>3. QED BY <2>1, <2>2 DEF DataInv
<1>2. CASE UNCHANGED vars
  <2>1. UNCHANGED <<records, status, toUndo, buffer, disk, stage, undoing, durable, pending, crashed>>
    BY <1>2 DEF vars, walVars, managerVars, recoveryVars, storeVars
  <2>2. Live' = Live /\ Now' = Now
    BY <2>1 DEF Live, Now, Contents
  <2>3. BufferInv' /\ DiskInv'
    BY <2>1, <2>2 DEF DataInv, BufferInv, DiskInv
  <2>4. CellInv' /\ PendingInv'
    BY <2>1, <2>2 DEF DataInv, CellInv, Owned, PendingInv
  <2>5. UndoInv'
    BY <2>1, <2>2 DEF DataInv, UndoInv
  <2>6. QED BY <2>3, <2>4, <2>5 DEF DataInv
<1>3. QED BY <1>1, <1>2

LEMMA DataAlways ==
    ASSUME FlushAtCheckpoint
    PROVE  Spec => []DataInv
<1>1. Init => DataInv
  BY DataInit
<1>2. ControlInv /\ DataInv /\ [Next]_vars => DataInv'
  BY DataStep
<1>3. QED BY <1>1, <1>2, ControlAlways, PTL DEF Spec

\* When checkpoints write the pages out, redo brings memory back to what it
\* was when the crash came, whatever reached the disk, also when the crash hit
\* a recovery that had undone some of the work (redo, README.md's "repeating
\* history").
THEOREM RedoAlwaysRepeatsHistory ==
    ASSUME FlushAtCheckpoint
    PROVE  Spec => []RedoRepeatsHistory
<1>1. Init => RedoRepeatsHistory
  BY DEF Init, RedoRepeatsHistory
<1>2. ASSUME ControlInv, DataInv, RedoRepeatsHistory, [Next]_vars PROVE RedoRepeatsHistory'
  <2>1. CASE Redo
    <3>1. Now' = Now
      BY <1>2, <2>1, QuietKeeps DEF QuietStep
    <3>2. stage = "analyzed" /\ stage' = "redone" /\ crashed' = crashed
      BY <2>1 DEF Redo
    <3>3. Now = crashed /\ Now' = Contents(buffer')
      BY <3>2 DEF Now, Contents
    <3>4. QED BY <3>1, <3>2, <3>3 DEF RedoRepeatsHistory, Contents
  <2>2. CASE stage' # "redone"
    BY <2>2 DEF RedoRepeatsHistory
  <2>3. CASE UNCHANGED <<stage, buffer, crashed>>
    BY <1>2, <2>3 DEF RedoRepeatsHistory, Contents
  <2>4. Next => Redo \/ stage' # "redone" \/ UNCHANGED <<stage, buffer, crashed>>
    BY DEF Next, Caller, Recover, Begin, Update, Commit, StartRollback, RollbackOne, EndRollback,
           Checkpoint, FlushPage, Crash, Analyze, Redo, StartUndo, UndoNext, UndoOne, UndoEnd,
           Restart, Running
  <2>5. UNCHANGED vars => UNCHANGED <<stage, buffer, crashed>>
    BY DEF vars
  <2>6. QED BY <1>2, <2>1, <2>2, <2>3, <2>4, <2>5
<1>3. ControlInv /\ DataInv /\ RedoRepeatsHistory /\ [Next]_vars => RedoRepeatsHistory'
  BY <1>2
<1>4. QED BY <1>1, <1>3, ControlAlways, DataAlways, PTL DEF Spec

\* When checkpoints write the pages out, no page that undo has an operation
\* for is missing or too short, so every CLR that undo writes says what undo
\* has done (redo, and the length test of undo).
THEOREM UndoAlwaysFindsPages ==
    ASSUME FlushAtCheckpoint
    PROVE  Spec => []UndoFindsPages
<1>1. ASSUME ControlInv, DataInv PROVE UndoFindsPages
  <2> SUFFICES ASSUME NEW i \in DOMAIN undoing.ops
               PROVE  Len(buffer[undoing.ops[i].cell[1]]) >= undoing.ops[i].cell[2]
    BY DEF UndoFindsPages
  <2>1. TypeInv /\ StageInv /\ BufferInv /\ UndoInv
    BY <1>1 DEF ControlInv, DataInv
  <2>2. undoing.txn \in SUBSET Txn /\ undoing.ops \in Seq(UpdateRecord)
    BY <2>1 DEF TypeInv
  <2> DEFINE c == undoing.ops[i].cell
  <2>3. c \in Cell
    <3>1. undoing.ops[i] \in UpdateRecord
      BY <2>2, ElementOfSeq, LenProperties
    <3>2. QED BY <3>1 DEF UpdateRecord
  <2>4. undoing # Nobody
    <3>1. DOMAIN Nobody.ops = {}
      BY DEF Nobody
    <3>2. QED BY <3>1
  <2>5. stage = "undoing"
    BY <2>1, <2>4 DEF StageInv
  <2>6. PICK t \in Txn : undoing.txn = {t}
    BY <2>1, <2>4 DEF StageInv
  <2>7. Restores(records, Now, durable, undoing.ops, t)
    BY <2>1, <2>6 DEF UndoInv
  <2>8. UpdatesIn(records, t, c) # {}
    BY <2>7 DEF Restores
  <2>9. WritesIn(records, c) # {}
    BY <2>8 DEF UpdatesIn, UpdatesOn, WritesIn, IsUpdateOf
  <2>10. There(buffer, c)
    BY <2>1, <2>3, <2>5, <2>9 DEF BufferInv
  <2>11. QED BY <2>10 DEF There
<1>2. ControlInv /\ DataInv => UndoFindsPages
  BY <1>1
<1>3. QED BY <1>2, ControlAlways, DataAlways, PTL

\* When checkpoints write the pages out, committed work survives every crash
\* and uncommitted work leaves no trace: whenever the system is up, a cell
\* that no live transaction has written holds its last committed value
\* (commit, redo, undo and rollback together).
THEOREM CommittedAlwaysSurvives ==
    ASSUME FlushAtCheckpoint
    PROVE  Spec => []CommittedSurvives
<1>1. ASSUME ControlInv, DataInv PROVE CommittedSurvives
  <2> SUFFICES ASSUME stage = "running", NEW c \in Cell, \A t \in Live : c \notin DOMAIN pending[t]
               PROVE  Get(buffer, c) = durable[c]
    BY DEF CommittedSurvives
  <2>1. Live \subseteq Txn
    BY DEF Live
  <2>2. \A t \in Live : UpdatesIn(records, t, c) = {}
    BY <1>1, <2>1 DEF DataInv, PendingInv
  <2>3. Now[c] = durable[c]
    BY <1>1, <2>2 DEF DataInv, CellInv
  <2>4. QED BY <2>3 DEF Now, Contents
<1>2. ControlInv /\ DataInv => CommittedSurvives
  BY <1>1
<1>3. QED BY <1>2, ControlAlways, DataAlways, PTL

-----------------------------------------------------------------------------
(* Refinement: the pages behave as an atomic store.                        *)

AbsPending == [t \in Txn |-> IF t \in Rolling THEN NoWrites ELSE pending[t]]

AbsEnded == {t \in Txn : status[t] \in {"rolling", "committed", "aborted"}
                           \/ (status[t] = "live" /\ stage # "running")}

\* A rollback hides the writes of its transaction at once.
Hidden(c) == \E t \in Rolling : c \in DOMAIN pending[t]

Shown == [c \in Cell |-> IF Hidden(c) THEN durable[c] ELSE Now[c]]

ViewMeaning == StoreView = IF stage = "running" THEN Shown ELSE Store!Down

LEMMA ViewMeans == ViewMeaning
<1>1. stage # "running" => StoreView = Store!Down
  BY DEF StoreView, Store!Down
<1>2. ASSUME stage = "running" PROVE StoreView = Shown
  <2>1. \A c \in Cell : Now[c] = Get(buffer, c)
    BY <1>2 DEF Now, Contents
  <2>2. StoreView = [c \in Cell |-> IF Hidden(c) THEN durable[c] ELSE Get(buffer, c)]
    BY <1>2 DEF StoreView, Hidden
  <2>3. QED BY <2>1, <2>2 DEF Shown
<1>3. QED BY <1>1, <1>2 DEF ViewMeaning

LEMMA ViewMeansNext == ViewMeaning'
  BY ViewMeans, PTL

LEMMA StoreViewIs ==
    /\ StoreView = IF stage = "running" THEN Shown ELSE Store!Down
    /\ StoreView' = IF stage' = "running" THEN Shown' ELSE Store!Down
  BY ViewMeans, ViewMeansNext DEF ViewMeaning, Store!Down

\* While the system is up there is something to see.
LEMMA StoreUp ==
    ASSUME stage = "running"
    PROVE  Store!Up
<1>1. DOMAIN StoreView = Cell
  BY StoreViewIs DEF Shown
<1>2. DOMAIN Store!Down = {}
  BY DEF Store!Down
<1>3. Cell # {}
  BY WALAssumption
<1>4. QED BY <1>1, <1>2, <1>3 DEF Store!Up

LEMMA StoreSame ==
    ASSUME durable' = durable, AbsPending' = AbsPending, AbsEnded' = AbsEnded,
           StoreView' = StoreView
    PROVE  UNCHANGED Store!storeVars
  BY DEF Store!storeVars, AbsPending, AbsEnded

LEMMA StoreInit ==
    ASSUME Init
    PROVE  Store!SInit
<1>1. /\ stage = "running" /\ status = [t \in Txn |-> "idle"]
      /\ durable = [c \in Cell |-> 0] /\ pending = [t \in Txn |-> NoWrites]
  BY DEF Init
<1>2. Rolling = {} /\ AbsEnded = {} /\ AbsPending = [t \in Txn |-> NoWrites] /\ Live = {}
  BY <1>1 DEF Rolling, AbsEnded, AbsPending, Live
<1>3. CellInv
  BY DataInit DEF DataInv
<1>4. \A c \in Cell : Now[c] = durable[c] /\ ~ Hidden(c)
  BY <1>2, <1>3 DEF CellInv, Hidden
<1>5. StoreView = durable
  BY <1>1, <1>4, StoreViewIs DEF Shown
<1>6. QED BY <1>1, <1>2, <1>5 DEF Store!SInit, AbsPending, AbsEnded, Store!NoWrites, NoWrites

\* While the system is up, a transaction's pending cells are its own.
LEMMA PendingOwned ==
    ASSUME ControlInv, DataInv, stage = "running",
           NEW t \in Live, NEW u \in Live, NEW c \in DOMAIN pending[t], c \in DOMAIN pending[u]
    PROVE  t = u
<1>1. Live \subseteq Txn
  BY DEF Live
<1>2. c \in Cell /\ UpdatesIn(records, t, c) # {} /\ UpdatesIn(records, u, c) # {}
  BY <1>1 DEF DataInv, PendingInv
<1>3. QED BY <1>2 DEF DataInv, CellInv, Owned

LEMMA WriteSimulates ==
    ASSUME ControlInv, DataInv, NEW t \in Txn, NEW c \in Cell, NEW v \in Byte, Update(t, c, v)
    PROVE  Store!Write(t, c, v)
<1> USE DEF ControlInv, DataInv
<1>1. /\ stage = "running" /\ status[t] = "live" /\ UNCHANGED <<stage, status, durable>>
      /\ \A u \in Txn \ {t} : c \notin DOMAIN pending[u]
      /\ pending' = [pending EXCEPT ![t] = Bind(pending[t], c, v)]
  BY DEF Update, Running, managerVars
<1>2. Now' = [Now EXCEPT ![c] = v] /\ Now \in [Cell -> Byte]
  BY CellWrites, NowType
<1>3. t \notin Rolling /\ Rolling' = Rolling /\ Rolling \subseteq Txn /\ t \notin AbsEnded
  BY <1>1 DEF Rolling, AbsEnded
<1>4. \A u \in Txn : pending'[u] = IF u = t THEN Bind(pending[t], c, v) ELSE pending[u]
  BY <1>1 DEF TypeInv
<1>5. AbsPending[t] = pending[t]
  BY <1>3 DEF AbsPending
<1>6. \A u \in Txn \ {t} : c \notin DOMAIN AbsPending[u]
  BY <1>1 DEF AbsPending, NoWrites
<1>7. Bind(pending[t], c, v) =
        [d \in DOMAIN AbsPending[t] \union {c} |-> IF d = c THEN v ELSE AbsPending[t][d]]
  BY <1>5 DEF Bind
<1>8. AbsPending' = [AbsPending EXCEPT ![t] = Bind(pending[t], c, v)]
  BY <1>3, <1>4 DEF AbsPending
<1>9. AbsEnded' = AbsEnded
  BY <1>1 DEF AbsEnded
<1>10. \A d \in Cell : Hidden(d)' <=> Hidden(d)
  BY <1>3, <1>4 DEF Hidden
<1>11. ~ Hidden(c)
  BY <1>1, <1>3 DEF Hidden
<1>12. StoreView' = [StoreView EXCEPT ![c] = v]
  <2>1. StoreView = Shown /\ StoreView' = Shown'
    BY <1>1, StoreViewIs
  <2>2. Shown' = [d \in Cell |-> IF Hidden(d) THEN durable[d] ELSE Now'[d]]
    BY <1>1, <1>10 DEF Shown
  <2>3. QED BY <1>2, <1>11, <2>1, <2>2 DEF Shown
<1>13. Store!Up
  BY <1>1, StoreUp
<1>14. QED
  BY <1>1, <1>3, <1>6, <1>7, <1>8, <1>9, <1>12, <1>13
  DEF Store!Write, Store!Free, Store!Written, AbsPending, AbsEnded

LEMMA CommitSimulates ==
    ASSUME FlushAtCheckpoint, ControlInv, DataInv, NEW t \in Txn, Commit(t)
    PROVE  Store!Commit(t)
<1> USE DEF ControlInv, DataInv
<1>1. /\ stage = "running" /\ stage' = stage /\ status[t] = "live"
      /\ status' = [status EXCEPT ![t] = "committed"]
      /\ pending' = [pending EXCEPT ![t] = NoWrites]
      /\ durable' = [c \in Cell |-> IF c \in DOMAIN pending[t] THEN pending[t][c] ELSE durable[c]]
  BY DEF Commit, Running
<1>2. Now' = Now
  BY QuietKeeps DEF QuietOf
<1>3. \A u \in Txn : status'[u] = IF u = t THEN "committed" ELSE status[u]
  BY <1>1 DEF TypeInv
<1>4. \A u \in Txn : pending'[u] = IF u = t THEN NoWrites ELSE pending[u]
  BY <1>1 DEF TypeInv
<1>5. t \notin Rolling /\ Rolling' = Rolling /\ t \notin AbsEnded /\ AbsEnded' = AbsEnded \union {t}
  BY <1>1, <1>3 DEF Rolling, AbsEnded
<1>6. AbsPending[t] = pending[t]
  BY <1>5 DEF AbsPending
<1>7. AbsPending' = [AbsPending EXCEPT ![t] = NoWrites]
  BY <1>4, <1>5 DEF AbsPending
<1>8. \A c \in Cell : Hidden(c)' <=> Hidden(c)
  BY <1>4, <1>5 DEF Hidden, Rolling
<1>9. ASSUME NEW c \in Cell, Hidden(c) PROVE durable'[c] = durable[c]
  <2>1. PICK u \in Rolling : c \in DOMAIN pending[u]
    BY <1>9 DEF Hidden
  <2>2. u \in Live /\ t \in Live /\ u # t
    BY <1>1, <1>5 DEF Live, Rolling
  <2>3. c \notin DOMAIN pending[t]
    BY <1>1, <2>1, <2>2, PendingOwned
  <2>4. QED BY <1>1, <2>3
<1>10. StoreView' = StoreView
  <2>1. StoreView = Shown /\ StoreView' = Shown'
    BY <1>1, StoreViewIs
  <2>2. Shown' = [c \in Cell |-> IF Hidden(c) THEN durable'[c] ELSE Now[c]]
    BY <1>2, <1>8 DEF Shown
  <2>3. QED BY <1>9, <2>1, <2>2 DEF Shown
<1>11. Store!Up
  BY <1>1, StoreUp
<1>12. NoWrites = Store!NoWrites
  BY DEF NoWrites, Store!NoWrites
<1>13. durable' = [c \in Cell |-> IF c \in DOMAIN AbsPending[t] THEN AbsPending[t][c] ELSE durable[c]]
  BY <1>1, <1>6
<1>14. QED
  BY <1>5, <1>7, <1>10, <1>11, <1>12, <1>13 DEF Store!Commit, AbsPending, AbsEnded

LEMMA AbortSimulates ==
    ASSUME FlushAtCheckpoint, ControlInv, DataInv, NEW t \in Txn, StartRollback(t)
    PROVE  Store!Abort(t)
<1> USE DEF ControlInv, DataInv
<1>1. /\ stage = "running" /\ stage' = stage /\ status[t] = "live"
      /\ status' = [status EXCEPT ![t] = "rolling"]
      /\ UNCHANGED <<pending, durable>>
  BY DEF StartRollback, Running, storeVars
<1>2. Now' = Now
  BY QuietKeeps DEF QuietOf
<1>3. \A u \in Txn : status'[u] = IF u = t THEN "rolling" ELSE status[u]
  BY <1>1 DEF TypeInv
<1>4. /\ t \notin Rolling /\ Rolling' = Rolling \union {t}
      /\ t \notin AbsEnded /\ AbsEnded' = AbsEnded \union {t}
  BY <1>1, <1>3 DEF Rolling, AbsEnded
<1>5. AbsPending[t] = pending[t]
  BY <1>4 DEF AbsPending
<1>6. AbsPending' = [AbsPending EXCEPT ![t] = NoWrites]
  BY <1>1, <1>4 DEF AbsPending
<1>7. \A c \in Cell : Hidden(c)' <=> Hidden(c) \/ c \in DOMAIN pending[t]
  BY <1>1, <1>4 DEF Hidden
<1>8. StoreView' = [c \in Cell |-> IF c \in DOMAIN AbsPending[t] THEN durable[c] ELSE StoreView[c]]
  <2>1. StoreView = Shown /\ StoreView' = Shown'
    BY <1>1, StoreViewIs
  <2>2. Shown' = [c \in Cell |-> IF Hidden(c) \/ c \in DOMAIN pending[t] THEN durable[c] ELSE Now[c]]
    BY <1>1, <1>2, <1>7 DEF Shown
  <2>3. QED BY <1>5, <2>1, <2>2 DEF Shown
<1>9. Store!Up
  BY <1>1, StoreUp
<1>10. NoWrites = Store!NoWrites
  BY DEF NoWrites, Store!NoWrites
<1>11. QED
  BY <1>1, <1>4, <1>6, <1>8, <1>9, <1>10 DEF Store!Abort, AbsPending, AbsEnded

LEMMA CrashSimulates ==
    ASSUME ControlInv, DataInv, Crash
    PROVE  \E gone \in SUBSET Txn : Store!Crash(gone)
<1> USE DEF ControlInv, DataInv
<1> DEFINE interrupted == {t \in Txn : status[t] = "live"}
<1>1. /\ stage' = "crashed" /\ status' = status /\ durable' = durable
      /\ pending' = [t \in Txn |-> NoWrites]
  BY DEF Crash
<1>2. {t \in Txn : AbsPending[t] # NoWrites} \subseteq interrupted
  <2> SUFFICES ASSUME NEW t \in Txn, AbsPending[t] # NoWrites PROVE status[t] = "live"
    OBVIOUS
  <2>1. t \notin Rolling /\ pending[t] # NoWrites
    BY DEF AbsPending
  <2>2. stage = "running"
    BY <2>1 DEF StageInv
  <2>3. t \in Live
    BY <2>1, <2>2 DEF PendingInv
  <2>4. QED BY <2>1, <2>3 DEF Live, Rolling
<1>3. AbsEnded' = AbsEnded \union interrupted
  BY <1>1 DEF AbsEnded
<1>4. AbsPending' = [t \in Txn |-> NoWrites]
  BY <1>1 DEF AbsPending
<1>5. StoreView' = Store!Down
  BY <1>1, StoreViewIs
<1>6. NoWrites = Store!NoWrites
  BY DEF NoWrites, Store!NoWrites
<1>7. PICK gone \in SUBSET Txn : gone = interrupted
  OBVIOUS
<1>8. Store!Crash(gone)
  BY <1>1, <1>2, <1>3, <1>4, <1>5, <1>6, <1>7 DEF Store!Crash, AbsPending, AbsEnded
<1>9. QED BY <1>8

LEMMA RestartSimulates ==
    ASSUME FlushAtCheckpoint, ControlInv, DataInv, Restart
    PROVE  Store!Restart
<1> USE DEF ControlInv, DataInv
<1>1. /\ stage = "undoing" /\ stage' = "running"
      /\ UNCHANGED <<status, durable, pending>>
      /\ Live = {}
  BY DEF Restart, managerVars, storeVars, StageInv, Nobody
<1>2. Rolling = {} /\ Rolling' = {}
  BY <1>1 DEF Rolling, Live
<1>3. Now' = Now
  BY QuietKeeps DEF QuietStep
<1>4. \A c \in Cell : Now[c] = durable[c]
  BY <1>1 DEF CellInv
<1>5. Shown' = durable
  BY <1>1, <1>2, <1>3, <1>4 DEF Shown, Hidden, TypeInv
<1>6. StoreView = Store!Down /\ StoreView' = durable
  BY <1>1, <1>5, StoreViewIs
<1>7. AbsPending' = AbsPending
  BY <1>1, <1>2 DEF AbsPending
<1>8. AbsEnded' = AbsEnded
  BY <1>1 DEF AbsEnded, Live
<1>9. ~ Store!Up
  BY <1>6 DEF Store!Up
<1>10. QED BY <1>1, <1>6, <1>7, <1>8, <1>9 DEF Store!Restart, AbsPending, AbsEnded

\* The rest of a rollback, and all of recovery but its end, change nothing
\* that a reader can see.
LEMMA QuietSimulates ==
    ASSUME FlushAtCheckpoint, ControlInv, DataInv,
           \/ \E t \in Txn : \/ Begin(t) \/ RollbackOne(t) \/ EndRollback(t)
                             \/ UndoNext(t) \/ UndoOne(t) \/ UndoEnd(t)
           \/ Checkpoint \/ \E p \in Page : FlushPage(p)
           \/ Analyze \/ Redo \/ StartUndo
    PROVE  UNCHANGED Store!storeVars
<1> USE DEF ControlInv, DataInv
<1>1. ASSUME NEW t \in Txn, Begin(t) PROVE UNCHANGED Store!storeVars
  <2>1. /\ stage = "running" /\ stage' = stage /\ UNCHANGED <<pending, durable>>
        /\ status[t] = "idle" /\ status' = [status EXCEPT ![t] = "live"]
    BY <1>1 DEF Begin, Running, storeVars
  <2>2. Now' = Now
    BY <1>1, QuietKeeps DEF QuietOf
  <2>3. Rolling' = Rolling /\ AbsEnded' = AbsEnded
    BY <2>1 DEF Rolling, AbsEnded, TypeInv
  <2>4. AbsPending' = AbsPending
    BY <2>1, <2>3 DEF AbsPending
  <2>5. Shown' = Shown
    BY <2>1, <2>2, <2>3 DEF Shown, Hidden
  <2>6. StoreView' = StoreView
    BY <2>1, <2>5, StoreViewIs
  <2>7. QED BY <2>1, <2>3, <2>4, <2>6, StoreSame
<1>2. ASSUME NEW t \in Txn, RollbackOne(t) PROVE UNCHANGED Store!storeVars
  <2> DEFINE d == Head(toUndo[t]).cell
  <2>1. /\ t \in Live /\ d \in Cell /\ UpdatesIn(records, t, d) # {}
        /\ Now' = [Now EXCEPT ![d] = Head(toUndo[t]).before]
    BY <1>2, CellWrites DEF Compensates
  <2> HIDE DEF d
  <2>2. /\ stage = "running" /\ stage' = stage /\ UNCHANGED <<pending, durable, status>>
        /\ status[t] = "rolling"
    BY <1>2 DEF RollbackOne, Running, storeVars
  <2>3. Rolling' = Rolling /\ AbsEnded' = AbsEnded
    BY <2>2 DEF Rolling, AbsEnded
  <2>4. AbsPending' = AbsPending
    BY <2>2, <2>3 DEF AbsPending
  <2>5. Hidden(d)
    <3>1. d \in DOMAIN pending[t] /\ t \in Rolling
      BY <2>1, <2>2 DEF PendingInv, Rolling
    <3>2. QED BY <3>1 DEF Hidden
  <2>6. Shown' = Shown
    <3>1. \A c \in Cell : c # d => Now'[c] = Now[c]
      BY <2>1, NowType
    <3>2. \A c \in Cell : Hidden(c)' <=> Hidden(c)
      BY <2>2, <2>3 DEF Hidden
    <3>3. QED BY <2>2, <2>5, <3>1, <3>2 DEF Shown
  <2>7. StoreView' = StoreView
    BY <2>2, <2>6, StoreViewIs
  <2>8. QED BY <2>2, <2>3, <2>4, <2>7, StoreSame
<1>3. ASSUME NEW t \in Txn, EndRollback(t) PROVE UNCHANGED Store!storeVars
  <2>1. /\ stage = "running" /\ stage' = stage /\ durable' = durable
        /\ status[t] = "rolling" /\ toUndo[t] = <<>>
        /\ status' = [status EXCEPT ![t] = "aborted"]
        /\ pending' = [pending EXCEPT ![t] = NoWrites]
    BY <1>3 DEF EndRollback, Running
  <2>2. Now' = Now
    BY <1>3, QuietKeeps DEF QuietOf
  <2>3. \A u \in Txn : /\ status'[u] = IF u = t THEN "aborted" ELSE status[u]
                       /\ pending'[u] = IF u = t THEN NoWrites ELSE pending[u]
    BY <2>1 DEF TypeInv
  <2>4. t \in Rolling /\ t \in Live /\ Rolling' = Rolling \ {t} /\ AbsEnded' = AbsEnded
    BY <2>1, <2>3 DEF Rolling, Live, AbsEnded
  <2>5. AbsPending' = AbsPending
    BY <2>3, <2>4 DEF AbsPending
  <2>6. \A c \in Cell : UpdatesIn(records, t, c) # {} => Now[c] = durable[c]
    <3>1. Restores(records, Now, durable, <<>>, t)
      BY <2>1 DEF UndoInv
    <3>2. QED BY <3>1, RestoresDone
  <2>7. DOMAIN pending[t] = {c \in Cell : UpdatesIn(records, t, c) # {}}
    BY <2>1, <2>4 DEF PendingInv
  <2>8. \A c \in Cell : Hidden(c) <=> Hidden(c)' \/ c \in DOMAIN pending[t]
    BY <2>3, <2>4 DEF Hidden, Rolling
  <2>9. Shown' = Shown
    BY <2>1, <2>2, <2>6, <2>7, <2>8 DEF Shown
  <2>10. StoreView' = StoreView
    BY <2>1, <2>9, StoreViewIs
  <2>11. QED BY <2>1, <2>4, <2>5, <2>10, StoreSame
<1>4. ASSUME Checkpoint \/ \E p \in Page : FlushPage(p) PROVE UNCHANGED Store!storeVars
  <2>1. Now' = Now
    BY <1>4, QuietKeeps DEF QuietStep
  <2>2. UNCHANGED <<pending, status, stage, durable>>
    BY <1>4 DEF Checkpoint, FlushPage, managerVars, storeVars
  <2>3. Rolling' = Rolling /\ AbsEnded' = AbsEnded
    BY <2>2 DEF Rolling, AbsEnded
  <2>4. AbsPending' = AbsPending
    BY <2>2, <2>3 DEF AbsPending
  <2>5. Shown' = Shown
    BY <2>1, <2>2, <2>3 DEF Shown, Hidden
  <2>6. StoreView' = StoreView
    BY <2>2, <2>5, StoreViewIs
  <2>7. QED BY <2>2, <2>3, <2>4, <2>6, StoreSame
<1>5. ASSUME \/ Analyze \/ Redo \/ StartUndo
             \/ \E t \in Txn : UndoNext(t) \/ UndoOne(t) \/ UndoEnd(t)
      PROVE  UNCHANGED Store!storeVars
  <2>1. /\ stage # "running" /\ stage' # "running" /\ UNCHANGED <<pending, durable>>
    BY <1>5 DEF Analyze, Redo, StartUndo, UndoNext, UndoOne, UndoEnd, storeVars
  <2>2. AbsEnded' = AbsEnded
    <3>1. CASE status' = status
      BY <2>1, <3>1 DEF AbsEnded
    <3>2. ASSUME NEW t \in Txn, UndoEnd(t) PROVE AbsEnded' = AbsEnded
      <4>1. t \in Live /\ status' = [status EXCEPT ![t] = "aborted"]
        BY <3>2 DEF UndoEnd, StageInv
      <4>2. QED BY <2>1, <4>1 DEF AbsEnded, Live, TypeInv
    <3>3. QED BY <1>5, <3>1, <3>2 DEF Analyze, Redo, StartUndo, UndoNext, UndoOne, managerVars
  <2>3. AbsPending = [t \in Txn |-> NoWrites] /\ AbsPending' = [t \in Txn |-> NoWrites]
    <3>1. \A t \in Txn : pending[t] = NoWrites /\ pending'[t] = NoWrites
      BY <2>1 DEF StageInv
    <3>2. QED BY <3>1 DEF AbsPending
  <2>4. StoreView' = StoreView
    BY <2>1, StoreViewIs
  <2>5. QED BY <2>1, <2>2, <2>3, <2>4, StoreSame
<1>6. QED BY <1>1, <1>2, <1>3, <1>4, <1>5

LEMMA StoreStep ==
    ASSUME FlushAtCheckpoint, ControlInv, DataInv, [Next]_vars
    PROVE  [Store!SNext]_(Store!storeVars)
<1>1. CASE UNCHANGED vars
  BY <1>1 DEF vars, walVars, managerVars, storeVars, Store!storeVars, StoreView, Rolling
<1>2. ASSUME NEW t \in Txn, NEW c \in Cell, NEW v \in Byte, Update(t, c, v) PROVE Store!SNext
  BY <1>2, WriteSimulates DEF Store!SNext
<1>3. ASSUME NEW t \in Txn, Commit(t) PROVE Store!SNext
  BY <1>3, CommitSimulates DEF Store!SNext
<1>4. ASSUME NEW t \in Txn, StartRollback(t) PROVE Store!SNext
  BY <1>4, AbortSimulates DEF Store!SNext
<1>5. ASSUME Crash PROVE Store!SNext
  BY <1>5, CrashSimulates DEF Store!SNext
<1>6. ASSUME Restart PROVE Store!SNext
  BY <1>6, RestartSimulates DEF Store!SNext
<1>7. ASSUME \/ \E t \in Txn : \/ Begin(t) \/ RollbackOne(t) \/ EndRollback(t)
                               \/ UndoNext(t) \/ UndoOne(t) \/ UndoEnd(t)
             \/ Checkpoint \/ \E p \in Page : FlushPage(p)
             \/ Analyze \/ Redo \/ StartUndo
      PROVE  UNCHANGED Store!storeVars
  BY <1>7, QuietSimulates
<1>8. QED
  BY <1>1, <1>2, <1>3, <1>4, <1>5, <1>6, <1>7 DEF Next, Caller, Recover

\* When checkpoints write the pages out, log, buffer, disk, rollback and
\* recovery together implement an atomic store: through any number of crashes
\* the writes of a transaction become durable together or disappear together.
THEOREM RecoveryImplementsAtomicStore ==
    ASSUME FlushAtCheckpoint
    PROVE  Spec => ImplementsAtomicStore
<1>1. Init => Store!SInit
  BY StoreInit
<1>2. ControlInv /\ DataInv /\ [Next]_vars => [Store!SNext]_(Store!storeVars)
  BY StoreStep
<1>3. QED
  BY <1>1, <1>2, ControlAlways, DataAlways, PTL DEF Spec, ImplementsAtomicStore, Store!StoreSpec
=============================================================================
