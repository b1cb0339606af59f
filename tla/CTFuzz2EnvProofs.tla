-------------------------- MODULE CTFuzz2EnvProofs --------------------------
(***************************************************************************)
(* Proofs about CTFuzz2Env for every value of its constants: type          *)
(* correctness, the safety invariants, and the refinement of SeedCorpus.   *)
(***************************************************************************)
EXTENDS CTFuzz2Env, SequenceTheorems, TLAPS

-----------------------------------------------------------------------------
(* The inductive invariant.                                                *)

\* The two queues.  A path may be known without being queued (an execution
\* that earned nothing), but its edges are then covered by others.
QueuesOK ==
  /\ queue \in Seq(Row) /\ queue2 \in Seq(Row)
  /\ OneSeedPerPath
  /\ QueuedPaths \subseteq uniquePath
  /\ CoverageWitnessed
  /\ \A p \in uniquePath : p \subseteq virgin
  /\ \A r \in Rows(queue) : ValidActions(r) # {}

\* The cycle and the step in progress.  At depth 1 every scheduled row has an
\* action left; at depth 2 the row of a full step is what the probe produced.
CycleOK ==
  /\ IndexInCycle
  /\ phase \in {"ready", "fuzzing"} => QueuedPaths # {}
  /\ phase = "loading" => index = 1 /\ current = << >>
  /\ depth = 1 => \A r \in Rows(current) : ValidActions(r) # {}
  /\ localStep = 1 => /\ depth = 2
                      /\ savedInput \in Row
                      /\ ValidActions(savedInput) # {}
  /\ phase = "fuzzing" => row \in Row /\ action \in ValidActions(row)

IInv == TypeOK /\ QueuesOK /\ CycleOK

-----------------------------------------------------------------------------
(* Lemmas about the operations on one queue.                               *)

\* Searching for a path that is queued finds a row with that path.
LEMMA PositionProperty ==
  ASSUME NEW q \in Seq(Row), NEW p \in PathsOf(q)
  PROVE  Position(q, p) \in 1..Len(q) /\ q[Position(q, p)].path = p
BY DEF Position, PathsOf

\* Appending a row adds its path.
LEMMA AppendRow ==
  ASSUME NEW q \in Seq(Row), NEW r \in Row
  PROVE  /\ Append(q, r) \in Seq(Row)
         /\ PathsOf(Append(q, r)) = PathsOf(q) \cup {r.path}
         /\ Rows(Append(q, r)) \subseteq Rows(q) \cup {r}
         /\ DistinctPaths(q) /\ r.path \notin PathsOf(q) => DistinctPaths(Append(q, r))
<1> DEFINE a == Append(q, r)
<1>1. /\ a \in Seq(Row) /\ Len(a) = Len(q) + 1 /\ DOMAIN a = 1..(Len(q) + 1)
      /\ DOMAIN q = 1..Len(q) /\ Len(q) \in Nat
      /\ a[Len(q) + 1] = r
      /\ \A i \in 1..Len(q) : a[i] = q[i]
  OBVIOUS
<1> HIDE DEF a
<1>2. PathsOf(a) = PathsOf(q) \cup {r.path}
  <2>1. PathsOf(a) \subseteq PathsOf(q) \cup {r.path}
    BY <1>1 DEF PathsOf
  <2>2. PathsOf(q) \subseteq PathsOf(a)
    BY <1>1 DEF PathsOf
  <2>3. r.path \in PathsOf(a)
    BY <1>1 DEF PathsOf
  <2> QED BY <2>1, <2>2, <2>3
<1>3. Rows(a) \subseteq Rows(q) \cup {r}
  BY <1>1 DEF Rows
<1>4. ASSUME DistinctPaths(q), r.path \notin PathsOf(q)
      PROVE  DistinctPaths(a)
  BY <1>1, <1>4 DEF DistinctPaths, PathsOf
<1> QED BY <1>1, <1>2, <1>3, <1>4 DEF a

\* Removing the row with a path removes that path and no other.
LEMMA WithoutRow ==
  ASSUME NEW q \in Seq(Row), DistinctPaths(q), NEW p \in PathsOf(q)
  PROVE  /\ Without(q, p) \in Seq(Row)
         /\ PathsOf(Without(q, p)) = PathsOf(q) \ {p}
         /\ Rows(Without(q, p)) \subseteq Rows(q)
         /\ DistinctPaths(Without(q, p))
<1> DEFINE k == Position(q, p)
           w == Without(q, p)
           old(i) == IF i < k THEN i ELSE i + 1
<1>1. k \in 1..Len(q) /\ q[k].path = p /\ DOMAIN q = 1..Len(q) /\ Len(q) \in Nat
  BY PositionProperty
<1>2. w = SubSeq(q, 1, k - 1) \o SubSeq(q, k + 1, Len(q))
  BY DEF Without, RemoveAt
<1> HIDE DEF k, w
<1>3. /\ w \in Seq(Row) /\ Len(w) = Len(q) - 1 /\ DOMAIN w = 1..(Len(q) - 1)
      /\ \A i \in 1..(Len(q) - 1) : w[i] = q[old(i)]
  <2> DEFINE u == SubSeq(q, 1, k - 1)
             v == SubSeq(q, k + 1, Len(q))
  <2>0. \A i \in 1..Len(q) : q[i] \in Row
    BY <1>1
  <2>1. /\ u \in Seq(Row) /\ Len(u) = k - 1
        /\ \A i \in 1..(k - 1) : u[i] = q[i]
    <3>1. \A i \in 1..(k - 1) : q[i] \in Row
      BY <1>1, <2>0
    <3>2. /\ u \in Seq(Row)
          /\ Len(u) = IF 1 <= k - 1 THEN (k - 1) - 1 + 1 ELSE 0
          /\ \A i \in 1..((k - 1) - 1 + 1) : u[i] = q[1 + i - 1]
      <4> k - 1 \in Int BY <1>1
      <4> QED BY <3>1, SubSeqProperties
    <3> HIDE DEF u
    <3> QED BY <1>1, <3>2
  <2>2. /\ v \in Seq(Row) /\ Len(v) = Len(q) - k
        /\ \A i \in 1..(Len(q) - k) : v[i] = q[k + i]
    <3>1. \A i \in (k + 1)..Len(q) : q[i] \in Row
      BY <1>1, <2>0
    <3>2. /\ v \in Seq(Row)
          /\ Len(v) = IF k + 1 <= Len(q) THEN Len(q) - (k + 1) + 1 ELSE 0
          /\ \A i \in 1..(Len(q) - (k + 1) + 1) : v[i] = q[(k + 1) + i - 1]
      <4> k + 1 \in Int /\ Len(q) \in Int BY <1>1
      <4> QED BY <3>1, SubSeqProperties
    <3> HIDE DEF v
    <3>3. Len(v) = Len(q) - k
      <4>1. k \in Int /\ Len(q) \in Int /\ k <= Len(q)
        BY <1>1
      <4>2. Len(v) = IF k + 1 <= Len(q) THEN Len(q) - (k + 1) + 1 ELSE 0
        BY <3>2
      <4> QED BY <4>1, <4>2
    <3>4. ASSUME NEW i \in 1..(Len(q) - k)
          PROVE  v[i] = q[k + i]
      <4>1. i \in 1..(Len(q) - (k + 1) + 1) /\ (k + 1) + i - 1 = k + i
        BY <1>1
      <4> QED BY <3>2, <4>1
    <3> QED BY <3>2, <3>3, <3>4
  <2>3. w = u \o v
    BY <1>2
  <2> HIDE DEF u, v
  <2>4. w \in Seq(Row) /\ Len(w) = Len(q) - 1 /\ DOMAIN w = 1..(Len(q) - 1)
    <3>1. w \in Seq(Row) /\ Len(w) = Len(u) + Len(v)
      BY <2>1, <2>2, <2>3, ConcatProperties
    <3>2. Len(w) = Len(q) - 1
      BY <1>1, <2>1, <2>2, <3>1
    <3> QED BY <3>1, <3>2
  <2>5. ASSUME NEW i \in 1..(Len(q) - 1)
        PROVE  w[i] = q[old(i)]
    <3>1. CASE i < k
      BY <1>1, <2>1, <2>2, <2>3, <3>1
    <3>2. CASE i >= k
      <4>1. i - (k - 1) \in 1..(Len(q) - k) /\ k + (i - (k - 1)) = i + 1
        BY <1>1, <3>2
      <4>2. w[i] = v[i - (k - 1)]
        BY <1>1, <2>1, <2>2, <2>3, <3>2
      <4> QED BY <1>1, <2>2, <3>2, <4>1, <4>2
    <3> QED BY <1>1, <3>1, <3>2
  <2> QED BY <2>4, <2>5
<1>4. \A i \in 1..(Len(q) - 1) : old(i) \in 1..Len(q) /\ old(i) # k
  BY <1>1
<1>5. \A i, j \in 1..(Len(q) - 1) : old(i) = old(j) => i = j
  BY <1>1
<1>6. \A m \in 1..Len(q) : m # k => \E i \in 1..(Len(q) - 1) : old(i) = m
  <2>1. SUFFICES ASSUME NEW m \in 1..Len(q), m # k
                 PROVE  \E i \in 1..(Len(q) - 1) : old(i) = m
    OBVIOUS
  <2>2. CASE m < k
    BY <1>1, <2>1, <2>2
  <2>3. CASE m > k
    <3>1. m - 1 \in 1..(Len(q) - 1) /\ old(m - 1) = m
      BY <1>1, <2>3
    <3> QED BY <3>1
  <2> QED BY <1>1, <2>1, <2>2, <2>3
<1> HIDE DEF old
<1>7. Rows(w) \subseteq Rows(q)
  BY <1>1, <1>3, <1>4 DEF Rows
<1>8. DistinctPaths(w)
  <2>1. SUFFICES ASSUME NEW i \in 1..(Len(q) - 1), NEW j \in 1..(Len(q) - 1),
                        w[i].path = w[j].path
                 PROVE  i = j
    BY <1>3 DEF DistinctPaths
  <2>2. q[old(i)].path = q[old(j)].path
    BY <1>3, <2>1
  <2>3. old(i) = old(j)
    BY <1>1, <1>4, <2>2 DEF DistinctPaths
  <2> QED BY <1>5, <2>3
<1>9. PathsOf(w) = PathsOf(q) \ {p}
  <2>1. \A i \in 1..(Len(q) - 1) : w[i].path \in PathsOf(q) /\ w[i].path # p
    BY <1>1, <1>3, <1>4 DEF PathsOf, DistinctPaths
  <2>3. PathsOf(w) \subseteq PathsOf(q) \ {p}
    BY <1>3, <2>1 DEF PathsOf
  <2>2. ASSUME NEW t \in PathsOf(q), t # p
        PROVE  t \in PathsOf(w)
    <3>1. PICK m \in 1..Len(q) : q[m].path = t
      BY <1>1 DEF PathsOf
    <3>2. PICK i \in 1..(Len(q) - 1) : old(i) = m
      BY <1>1, <1>6, <2>2, <3>1
    <3>3. w[i].path = t
      BY <1>3, <3>1, <3>2
    <3> QED BY <1>3, <3>3 DEF PathsOf
  <2> QED BY <2>3, <2>2
<1> QED BY <1>3, <1>7, <1>8, <1>9 DEF w

\* Overwriting the row with a path keeps the paths.
LEMMA ReplacedRow ==
  ASSUME NEW q \in Seq(Row), DistinctPaths(q), NEW r \in Row, r.path \in PathsOf(q)
  PROVE  /\ ReplaceRow(q, r) \in Seq(Row)
         /\ PathsOf(ReplaceRow(q, r)) = PathsOf(q)
         /\ Rows(ReplaceRow(q, r)) \subseteq Rows(q) \cup {r}
         /\ DistinctPaths(ReplaceRow(q, r))
<1> DEFINE k == Position(q, r.path)
           w == ReplaceRow(q, r)
<1>1. k \in 1..Len(q) /\ q[k].path = r.path /\ DOMAIN q = 1..Len(q) /\ Len(q) \in Nat
  BY PositionProperty
<1>2. w = [q EXCEPT ![k] = r]
  BY DEF ReplaceRow
<1> HIDE DEF k, w
<1>3. /\ w \in Seq(Row) /\ DOMAIN w = 1..Len(q) /\ w[k] = r
      /\ \A i \in 1..Len(q) : i # k => w[i] = q[i]
  BY <1>1, <1>2
<1>4. \A i \in 1..Len(q) : w[i].path = q[i].path
  BY <1>1, <1>3
<1>5. PathsOf(w) = PathsOf(q) /\ DistinctPaths(w)
  BY <1>1, <1>3, <1>4 DEF PathsOf, DistinctPaths
<1>6. Rows(w) \subseteq Rows(q) \cup {r}
  BY <1>1, <1>3 DEF Rows
<1> QED BY <1>3, <1>5, <1>6 DEF w

\* The rows of a queue and its paths.
LEMMA RowsAndPaths ==
  ASSUME NEW q \in Seq(Row)
  PROVE  /\ \A r \in Rows(q) : r \in Row /\ r.path \in PathsOf(q)
         /\ \A p \in PathsOf(q) : \E r \in Rows(q) : r.path = p
         /\ q # << >> => PathsOf(q) # {}
         /\ PathsOf(<< >>) = {} /\ Rows(<< >>) = {}
<1>1. DOMAIN q = 1..Len(q) /\ Len(q) \in Nat /\ \A i \in 1..Len(q) : q[i] \in Row
  OBVIOUS
<1>2. q # << >> => Len(q) # 0
  OBVIOUS
<1>3. q # << >> => PathsOf(q) # {}
  <2>1. SUFFICES ASSUME q # << >>
                 PROVE  PathsOf(q) # {}
    OBVIOUS
  <2>2. q[1].path \in PathsOf(q)
    BY <1>1, <1>2, <2>1 DEF PathsOf
  <2> QED BY <2>2
<1>4. \A r \in Rows(q) : r \in Row /\ r.path \in PathsOf(q)
  BY <1>1 DEF Rows, PathsOf
<1>5. \A p \in PathsOf(q) : \E r \in Rows(q) : r.path = p
  BY <1>1 DEF Rows, PathsOf
<1>6. PathsOf(<< >>) = {} /\ Rows(<< >>) = {}
  BY DEF Rows, PathsOf
<1> QED BY <1>3, <1>4, <1>5, <1>6

-----------------------------------------------------------------------------
(* Lemmas about the operations on the two queues.                          *)

\* A fresh row is a row with an action left.
LEMMA FreshRow ==
  ASSUME NEW n \in Lens, NEW p \in Paths
  PROVE  Fresh(n, p) \in Row /\ Fresh(n, p).path = p /\ ValidActions(Fresh(n, p)) # {}
<1>1. Fresh(n, p) \in Row /\ Fresh(n, p).path = p
  BY DEF Fresh, Row
<1>2. PICK a \in Actions : TRUE
  BY EnvAssumption
<1>3. Fresh(n, p).tried[a] = 0 /\ ActionMaxTry[a] > 0
  BY EnvAssumption DEF Fresh
<1>4. a \in ValidActions(Fresh(n, p))
  BY <1>3 DEF ValidActions
<1> QED BY <1>1, <1>4

\* push_to_queue keeps one seed per path and at most adds the path of the row,
\* which it leaves out only if the path is known.
LEMMA PushedQueues ==
  ASSUME QueuesOK, NEW r \in Row, ValidActions(r) # {}, SetQueues(PushToQueue(r))
  PROVE  /\ queue' \in Seq(Row) /\ queue2' \in Seq(Row)
         /\ OneSeedPerPath'
         /\ \A s \in Rows(queue') : ValidActions(s) # {}
         /\ \/ QueuedPaths' = QueuedPaths \cup {r.path}
            \/ QueuedPaths' = QueuedPaths /\ r.path \in uniquePath
<1> DEFINE p == r.path
<1>1. /\ queue \in Seq(Row) /\ queue2 \in Seq(Row)
      /\ DistinctPaths(queue) /\ DistinctPaths(queue2)
      /\ PathsOf(queue) \cap PathsOf(queue2) = {}
      /\ PathsOf(queue) \cup PathsOf(queue2) \subseteq uniquePath
      /\ \A s \in Rows(queue) : ValidActions(s) # {}
  BY DEF QueuesOK, OneSeedPerPath, QueuedPaths
<1>2. CASE p \notin uniquePath
  <2>1. queue' = Append(queue, r) /\ queue2' = queue2
    BY <1>2 DEF SetQueues, PushToQueue
  <2>2. p \notin PathsOf(queue) /\ p \notin PathsOf(queue2)
    BY <1>1, <1>2
  <2>3. /\ queue' \in Seq(Row) /\ DistinctPaths(queue')
        /\ PathsOf(queue') = PathsOf(queue) \cup {p}
        /\ Rows(queue') \subseteq Rows(queue) \cup {r}
    BY <1>1, <2>1, <2>2, AppendRow
  <2>4. PathsOf(queue') \cap PathsOf(queue2') = {}
    BY <1>1, <2>1, <2>2, <2>3
  <2>5. QueuedPaths' = QueuedPaths \cup {p}
    BY <2>1, <2>3 DEF QueuedPaths
  <2> QED BY <1>1, <2>1, <2>3, <2>4, <2>5 DEF OneSeedPerPath
<1>3. CASE p \in uniquePath /\ p \in PathsOf(queue)
  <2>1. queue2' = queue2 /\ (queue' = queue \/ queue' = ReplaceRow(queue, r))
    BY <1>3 DEF SetQueues, PushToQueue
  <2>2. /\ queue' \in Seq(Row) /\ DistinctPaths(queue')
        /\ PathsOf(queue') = PathsOf(queue)
        /\ Rows(queue') \subseteq Rows(queue) \cup {r}
    BY <1>1, <1>3, <2>1, ReplacedRow
  <2>3. QueuedPaths' = QueuedPaths
    BY <2>1, <2>2 DEF QueuedPaths
  <2> QED BY <1>1, <1>3, <2>1, <2>2, <2>3 DEF OneSeedPerPath
<1>4. CASE p \in uniquePath /\ p \notin PathsOf(queue) /\ p \in PathsOf(queue2)
  <2>1. CASE queue' = queue /\ queue2' = queue2
    BY <1>1, <1>4, <2>1 DEF QueuedPaths, OneSeedPerPath
  <2>2. CASE queue' = Append(queue, r) /\ queue2' = Without(queue2, p)
    <3>1. /\ queue' \in Seq(Row) /\ DistinctPaths(queue')
          /\ PathsOf(queue') = PathsOf(queue) \cup {p}
          /\ Rows(queue') \subseteq Rows(queue) \cup {r}
      BY <1>1, <1>4, <2>2, AppendRow
    <3>2. /\ queue2' \in Seq(Row) /\ DistinctPaths(queue2')
          /\ PathsOf(queue2') = PathsOf(queue2) \ {p}
      BY <1>1, <1>4, <2>2, WithoutRow
    <3>3. PathsOf(queue') \cap PathsOf(queue2') = {}
      BY <1>1, <3>1, <3>2
    <3>4. QueuedPaths' = QueuedPaths \cup {p}
      BY <1>4, <3>1, <3>2 DEF QueuedPaths
    <3> QED BY <1>1, <3>1, <3>2, <3>3, <3>4 DEF OneSeedPerPath
  <2> QED BY <1>4, <2>1, <2>2 DEF SetQueues, PushToQueue
<1>5. CASE p \in uniquePath /\ p \notin PathsOf(queue) /\ p \notin PathsOf(queue2)
  <2>1. queue' = queue /\ queue2' = queue2
    BY <1>5 DEF SetQueues, PushToQueue
  <2> QED BY <1>1, <1>5, <2>1 DEF QueuedPaths, OneSeedPerPath
<1> QED BY <1>2, <1>3, <1>4, <1>5

\* An execution whose new edges are rewarded keeps the queues in order, and
\* adds its path to them or nothing at all.
LEMMA LearnedQueues ==
  ASSUME QueuesOK, NEW n \in Lens, NEW p \in Paths, NEW rewarded \in BOOLEAN,
         NewEdges(p) => rewarded, Learn(n, p, rewarded)
  PROVE  /\ QueuesOK'
         /\ \/ QueuedPaths' = QueuedPaths \cup {p}
            \/ QueuedPaths' = QueuedPaths /\ virgin' = virgin
<1>1. virgin' = virgin \cup p /\ uniquePath' = uniquePath \cup {p}
  BY DEF Learn
<1>2. /\ QueuedPaths \subseteq uniquePath
      /\ virgin = UNION QueuedPaths
      /\ \A t \in uniquePath : t \subseteq virgin
  BY DEF QueuesOK, CoverageWitnessed
<1>3. /\ queue' \in Seq(Row) /\ queue2' \in Seq(Row)
      /\ OneSeedPerPath'
      /\ \A s \in Rows(queue') : ValidActions(s) # {}
      /\ \/ QueuedPaths' = QueuedPaths \cup {p}
         \/ QueuedPaths' = QueuedPaths /\ p \subseteq virgin
  <2>1. CASE rewarded
    <3>1. SetQueues(PushToQueue(Fresh(n, p)))
      BY <2>1 DEF Learn
    <3>2. /\ Fresh(n, p) \in Row /\ Fresh(n, p).path = p
          /\ ValidActions(Fresh(n, p)) # {}
      BY FreshRow
    <3> QED BY <1>2, <3>1, <3>2, PushedQueues
  <2>2. CASE ~rewarded
    <3>1. queue' = queue /\ queue2' = queue2
      BY <2>2 DEF Learn
    <3>2. p \subseteq virgin
      BY <2>2 DEF NewEdges
    <3> QED BY <3>1, <3>2 DEF QueuesOK, OneSeedPerPath, QueuedPaths
  <2> QED BY <2>1, <2>2
<1>4. CASE QueuedPaths' = QueuedPaths \cup {p}
  <2>1. virgin' = UNION (QueuedPaths')
    BY <1>1, <1>2, <1>4
  <2>2. QueuedPaths' \subseteq uniquePath'
    BY <1>1, <1>2, <1>4
  <2>3. \A t \in uniquePath' : t \subseteq virgin'
    BY <1>1, <1>2
  <2> QED BY <1>3, <1>4, <2>1, <2>2, <2>3 DEF QueuesOK, CoverageWitnessed
<1>5. CASE QueuedPaths' = QueuedPaths /\ p \subseteq virgin
  <2>1. virgin' = virgin
    BY <1>1, <1>5
  <2>2. QueuedPaths' \subseteq uniquePath' /\ virgin' = UNION (QueuedPaths')
    BY <1>1, <1>2, <1>5, <2>1
  <2>3. \A t \in uniquePath' : t \subseteq virgin'
    BY <1>1, <1>2
  <2> QED BY <1>3, <1>5, <2>1, <2>2, <2>3 DEF QueuesOK, CoverageWitnessed
<1> QED BY <1>3, <1>4, <1>5

\* update_seed_queue keeps the paths of the two queues, and moves a row to
\* queue2 when it has no action left.
LEMMA UpdatedQueues ==
  ASSUME QueuesOK, NEW r \in Row, UNCHANGED <<virgin, uniquePath>>,
         SetQueues(UpdateSeedQueue(r, ValidActions(r) = {}))
  PROVE  QueuesOK' /\ QueuedPaths' = QueuedPaths
<1> DEFINE p == r.path
<1>1. /\ queue \in Seq(Row) /\ queue2 \in Seq(Row)
      /\ DistinctPaths(queue) /\ DistinctPaths(queue2)
      /\ PathsOf(queue) \cap PathsOf(queue2) = {}
      /\ \A s \in Rows(queue) : ValidActions(s) # {}
  BY DEF QueuesOK, OneSeedPerPath
<1>2. /\ queue' \in Seq(Row) /\ queue2' \in Seq(Row)
      /\ OneSeedPerPath'
      /\ QueuedPaths' = QueuedPaths
      /\ \A s \in Rows(queue') : ValidActions(s) # {}
  <2>1. CASE p \in PathsOf(queue) /\ ValidActions(r) = {}
    <3>1. queue' = Without(queue, p) /\ queue2' = Append(queue2, r)
      BY <2>1 DEF SetQueues, UpdateSeedQueue
    <3>2. /\ queue' \in Seq(Row) /\ DistinctPaths(queue')
          /\ PathsOf(queue') = PathsOf(queue) \ {p}
          /\ Rows(queue') \subseteq Rows(queue)
      BY <1>1, <2>1, <3>1, WithoutRow
    <3>3. p \notin PathsOf(queue2)
      BY <1>1, <2>1
    <3>4. /\ queue2' \in Seq(Row) /\ DistinctPaths(queue2')
          /\ PathsOf(queue2') = PathsOf(queue2) \cup {p}
      BY <1>1, <3>1, <3>3, AppendRow
    <3>5. PathsOf(queue') \cap PathsOf(queue2') = {}
      BY <1>1, <3>2, <3>4
    <3>6. QueuedPaths' = QueuedPaths
      BY <2>1, <3>2, <3>4 DEF QueuedPaths
    <3> QED BY <1>1, <3>2, <3>4, <3>5, <3>6 DEF OneSeedPerPath
  <2>2. CASE p \in PathsOf(queue) /\ ValidActions(r) # {}
    <3>1. queue' = ReplaceRow(queue, r) /\ queue2' = queue2
      BY <2>2 DEF SetQueues, UpdateSeedQueue
    <3>2. /\ queue' \in Seq(Row) /\ DistinctPaths(queue')
          /\ PathsOf(queue') = PathsOf(queue)
          /\ Rows(queue') \subseteq Rows(queue) \cup {r}
      BY <1>1, <2>2, <3>1, ReplacedRow
    <3>3. QueuedPaths' = QueuedPaths
      BY <3>1, <3>2 DEF QueuedPaths
    <3> QED BY <1>1, <2>2, <3>1, <3>2, <3>3 DEF OneSeedPerPath
  <2>3. CASE p \notin PathsOf(queue) /\ p \in PathsOf(queue2)
    <3>1. queue' = queue /\ queue2' = ReplaceRow(queue2, r)
      BY <2>3 DEF SetQueues, UpdateSeedQueue
    <3>2. /\ queue2' \in Seq(Row) /\ DistinctPaths(queue2')
          /\ PathsOf(queue2') = PathsOf(queue2)
      BY <1>1, <2>3, <3>1, ReplacedRow
    <3>3. QueuedPaths' = QueuedPaths
      BY <3>1, <3>2 DEF QueuedPaths
    <3> QED BY <1>1, <3>1, <3>2, <3>3 DEF OneSeedPerPath
  <2>4. CASE p \notin PathsOf(queue) /\ p \notin PathsOf(queue2)
    <3>1. queue' = queue /\ queue2' = queue2
      BY <2>4 DEF SetQueues, UpdateSeedQueue
    <3> QED BY <1>1, <3>1 DEF QueuedPaths, OneSeedPerPath
  <2> QED BY <2>1, <2>2, <2>3, <2>4
<1>3. QueuedPaths' \subseteq uniquePath' /\ virgin' = UNION (QueuedPaths')
  BY <1>2 DEF QueuesOK, CoverageWitnessed
<1>4. \A t \in uniquePath' : t \subseteq virgin'
  BY DEF QueuesOK
<1> QED BY <1>2, <1>3, <1>4 DEF QueuesOK, CoverageWitnessed

\* With a seed in one of the queues, the list of a cycle is a non-empty list of
\* rows, taken from queue unless that is empty, which makes the depth 2.
LEMMA CreatedList ==
  ASSUME NEW q \in Seq(Row), NEW q2 \in Seq(Row), depth \in 1..2,
         CreateCurrentSeedList(q, q2), PathsOf(q) \cup PathsOf(q2) # {}
  PROVE  /\ current' \in Seq(Row) /\ Len(current') > 0
         /\ phase' = "ready"
         /\ depth' \in 1..2
         /\ depth' = 2 \/ Rows(current') \subseteq Rows(q)
         /\ depth = 2 => depth' = 2
<1>1. ASSUME NEW s \in Seq(Row), s # << >>, NEW o \in SortedOrders(s),
             current' = [i \in DOMAIN s |-> s[o[i]]]
      PROVE  /\ current' \in Seq(Row) /\ Len(current') > 0
             /\ Rows(current') \subseteq Rows(s)
  <2>1. DOMAIN s = 1..Len(s) /\ Len(s) \in Nat /\ Len(s) > 0
    BY <1>1
  <2>2. o \in [1..Len(s) -> 1..Len(s)]
    BY <1>1, <2>1 DEF SortedOrders
  <2>3. \A i \in 1..Len(s) : s[o[i]] \in Row
    <3>1. \A j \in 1..Len(s) : s[j] \in Row
      BY <2>1
    <3> QED BY <2>2, <3>1
  <2>4. current' \in [1..Len(s) -> Row]
    BY <1>1, <2>1, <2>3
  <2>5. current' \in Seq(Row) /\ Len(current') = Len(s)
    BY <2>1, <2>4
  <2>6. Rows(current') \subseteq Rows(s)
    BY <1>1, <2>1, <2>2 DEF Rows
  <2> QED BY <2>1, <2>5, <2>6
<1>2. CASE /\ q # << >> /\ UNCHANGED depth /\ phase' = "ready"
           /\ \E o \in SortedOrders(q) : current' = [i \in DOMAIN q |-> q[o[i]]]
  BY <1>1, <1>2, RowsAndPaths
<1>3. CASE /\ q2 # << >> /\ depth' = 2 /\ phase' = "ready"
           /\ \E o \in SortedOrders(q2) : current' = [i \in DOMAIN q2 |-> q2[o[i]]]
  BY <1>1, <1>3, RowsAndPaths
<1>4. CASE q = << >> /\ q2 = << >>
  BY <1>4 DEF PathsOf
<1> QED BY <1>2, <1>3, <1>4 DEF CreateCurrentSeedList

\* With no seed in either queue the process exits, with the list as it was.
LEMMA NothingListed ==
  ASSUME NEW q \in Seq(Row), NEW q2 \in Seq(Row),
         CreateCurrentSeedList(q, q2), PathsOf(q) \cup PathsOf(q2) = {}
  PROVE  phase' = "exited" /\ UNCHANGED <<current, depth>>
<1>1. q = << >> /\ q2 = << >>
  BY RowsAndPaths
<1> QED BY <1>1 DEF CreateCurrentSeedList

-----------------------------------------------------------------------------
(* The invariant.                                                          *)

\* The invariant holds of an environment that has not been reset yet.
LEMMA InitInvariant == Init => IInv
<1> SUFFICES ASSUME Init PROVE IInv
  OBVIOUS
<1>1. TypeOK
  BY EnvAssumption DEF Init, TypeOK
<1>2. PathsOf(<< >>) = {} /\ Rows(<< >>) = {}
  BY DEF PathsOf, Rows
<1>3. QueuesOK
  BY <1>2 DEF Init, QueuesOK, OneSeedPerPath, DistinctPaths, QueuedPaths, CoverageWitnessed
<1>4. CycleOK
  BY <1>2 DEF Init, CycleOK, IndexInCycle
<1> QED BY <1>1, <1>3, <1>4 DEF IInv

\* reset() starts with nothing known and nothing scheduled.
LEMMA ResetInvariant == IInv /\ Reset => IInv'
<1> SUFFICES ASSUME IInv, Reset PROVE IInv'
  OBVIOUS
<1>1. TypeOK'
  BY EnvAssumption DEF IInv, TypeOK, Reset, stepVars
<1>2. PathsOf(<< >>) = {} /\ Rows(<< >>) = {}
  BY DEF PathsOf, Rows
<1>3. QueuesOK'
  BY <1>2 DEF Reset, QueuesOK, OneSeedPerPath, DistinctPaths, QueuedPaths, CoverageWitnessed
<1>4. CycleOK'
  BY <1>2 DEF Reset, CycleOK, IndexInCycle
<1> QED BY <1>1, <1>3, <1>4 DEF IInv

\* Running a seed changes the queues only.
LEMMA LoadSeedInvariant ==
  ASSUME IInv, NEW n \in Lens, NEW p \in Paths, LoadSeed(n, p)
  PROVE  IInv'
<1>1. Learn(n, p, NewEdges(p)) /\ QueuesOK /\ NewEdges(p) \in BOOLEAN
  BY DEF IInv, LoadSeed, NewEdges
<1>2. QueuesOK'
  BY <1>1, LearnedQueues
<1>3. virgin' \subseteq Edges /\ uniquePath' \subseteq Paths
  BY <1>1, EnvAssumption DEF Learn, IInv, TypeOK
<1>4. TypeOK'
  BY <1>2, <1>3, EnvAssumption DEF IInv, TypeOK, QueuesOK, LoadSeed, cycleVars, stepVars
<1>5. CycleOK'
  BY DEF IInv, CycleOK, IndexInCycle, LoadSeed, cycleVars, stepVars
<1> QED BY <1>2, <1>4, <1>5 DEF IInv

\* The end of reset() builds the first list, or exits.
LEMMA FinishResetInvariant == IInv /\ FinishReset => IInv'
<1> SUFFICES ASSUME IInv, FinishReset PROVE IInv'
  OBVIOUS
<1>1. QueuesOK'
  BY DEF IInv, QueuesOK, OneSeedPerPath, QueuedPaths, CoverageWitnessed, FinishReset, queueVars
<1>4. /\ queue \in Seq(Row) /\ queue2 \in Seq(Row) /\ depth \in 1..2
      /\ CreateCurrentSeedList(queue, queue2)
  BY DEF IInv, TypeOK, FinishReset
<1>2. CASE QueuedPaths # {}
  <2>2. /\ current' \in Seq(Row) /\ Len(current') > 0
        /\ phase' = "ready"
        /\ depth' \in 1..2
        /\ depth' = 2 \/ Rows(current') \subseteq Rows(queue)
        /\ depth = 2 => depth' = 2
    BY <1>2, <1>4, CreatedList DEF QueuedPaths
  <2>3. TypeOK'
    BY <1>2, <2>2 DEF IInv, TypeOK, FinishReset, queueVars, stepVars
  <2>4. CycleOK'
    <3>1. QueuedPaths' = QueuedPaths /\ index' = index /\ localStep' = localStep
      BY DEF QueuedPaths, FinishReset, queueVars
    <3>2. index = 1
      BY DEF IInv, CycleOK, FinishReset
    <3> QED BY <1>2, <2>2, <3>1, <3>2
            DEF IInv, CycleOK, IndexInCycle, QueuesOK, FinishReset, queueVars, stepVars
  <2> QED BY <1>1, <2>3, <2>4 DEF IInv
<1>3. CASE QueuedPaths = {}
  <2>0. phase' = "exited" /\ UNCHANGED <<current, depth>>
    BY <1>3, <1>4, NothingListed DEF QueuedPaths
  <2>1. TypeOK'
    BY <2>0 DEF IInv, TypeOK, FinishReset, queueVars, stepVars
  <2>2. CycleOK'
    BY <2>0 DEF IInv, CycleOK, IndexInCycle, FinishReset, queueVars, stepVars
  <2> QED BY <1>1, <2>1, <2>2 DEF IInv
<1> QED BY <1>2, <1>3

\* The row of a full step is a row with an action left: the assertion at 368.
LEMMA StepRowProperty ==
  ASSUME IInv, phase = "ready", localStep + 1 = depth
  PROVE  StepRow \in Row /\ ValidActions(StepRow) # {}
<1>1. CASE localStep = 0
  <2>1. index \in 1..Len(current) /\ current \in Seq(Row) /\ depth = 1
    BY <1>1 DEF IInv, TypeOK, CycleOK, IndexInCycle
  <2>2. current[index] \in Row /\ current[index] \in Rows(current)
    BY <2>1 DEF Rows
  <2> QED BY <1>1, <2>1, <2>2 DEF StepRow, IInv, CycleOK
<1>2. CASE localStep = 1
  BY <1>2 DEF StepRow, IInv, CycleOK
<1> QED BY <1>1, <1>2 DEF IInv, TypeOK

\* A full step begins with an action that its row has left.
LEMMA BeginStepInvariant ==
  ASSUME IInv, NEW a \in Actions, BeginStep(a)
  PROVE  IInv'
<1>1. row' \in Row /\ ValidActions(row') # {} /\ row' = StepRow
  BY StepRowProperty DEF BeginStep
<1>2. action' \in ValidActions(row')
  BY <1>1 DEF BeginStep, PickedAction
<1>3. TypeOK'
  BY <1>1, <1>2 DEF IInv, TypeOK, BeginStep, queueVars, cycleVars, ValidActions
<1>4. QueuesOK'
  BY DEF IInv, QueuesOK, OneSeedPerPath, QueuedPaths, CoverageWitnessed, BeginStep, queueVars
<1>5. CycleOK'
  BY <1>1, <1>2 DEF IInv, CycleOK, IndexInCycle, QueuedPaths, BeginStep, queueVars, cycleVars
<1> QED BY <1>3, <1>4, <1>5 DEF IInv

\* One turn of the loop changes the queues and the tries left.
LEMMA TryInvariant ==
  ASSUME IInv, NEW n \in Lens, NEW p \in Paths, NEW crash \in BOOLEAN, Try(n, p, crash)
  PROVE  IInv'
<1>1. /\ Learn(n, p, NewEdges(p) \/ crash) /\ QueuesOK
      /\ (NewEdges(p) \/ crash) \in BOOLEAN
  BY DEF IInv, Try, NewEdges
<1>2. /\ QueuesOK'
      /\ QueuedPaths' = QueuedPaths \cup {p} \/ QueuedPaths' = QueuedPaths
  BY <1>1, LearnedQueues
<1>3. virgin' \subseteq Edges /\ uniquePath' \subseteq Paths
  BY <1>1, EnvAssumption DEF Learn, IInv, TypeOK
<1>4. idle' \in Nat /\ tries' \in 0..MaxTry
  BY EnvAssumption DEF IInv, TypeOK, Try
<1>5. TypeOK'
  BY <1>2, <1>3, <1>4 DEF IInv, TypeOK, QueuesOK, Try, cycleVars
<1>6. CycleOK'
  BY <1>2 DEF IInv, CycleOK, IndexInCycle, Try, cycleVars
<1> QED BY <1>2, <1>5, <1>6 DEF IInv

\* A full step ends with its row written back and the next row scheduled.
LEMMA EndStepInvariant ==
  IInv /\ EndStep => IInv' /\ QueuedPaths' = QueuedPaths /\ phase' = "ready"
<1> SUFFICES ASSUME IInv, EndStep
             PROVE  IInv' /\ QueuedPaths' = QueuedPaths /\ phase' = "ready"
  OBVIOUS
<1>1. row \in Row /\ action \in Actions
  BY DEF IInv, CycleOK, EndStep, EndStepWith, ValidActions
<1>2. CountedRow \in Row
  BY <1>1 DEF CountedRow, Row
<1>3. QueuesOK' /\ QueuedPaths' = QueuedPaths
  BY <1>2, UpdatedQueues DEF IInv, EndStep, EndStepWith
<1>4. queue' \in Seq(Row) /\ queue2' \in Seq(Row) /\ depth \in 1..2
  BY <1>3 DEF IInv, TypeOK, QueuesOK
<1>8. QueuedPaths # {}
  BY DEF IInv, CycleOK, EndStep, EndStepWith
<1>5. /\ current' \in Seq(Row) /\ index' \in 1..Len(current')
      /\ phase' = "ready" /\ depth' \in 1..2
      /\ depth' = 1 => \A r \in Rows(current') : ValidActions(r) # {}
  <2>1. CASE index < Len(current)
    BY <2>1 DEF IInv, TypeOK, CycleOK, IndexInCycle, EndStep, EndStepWith, NextRow
  <2>2. CASE ~(index < Len(current))
    <3>1. index' = 1 /\ CreateCurrentSeedList(queue', queue2')
      BY <2>2 DEF EndStep, EndStepWith, NextRow
    <3>2. /\ current' \in Seq(Row) /\ Len(current') > 0
          /\ phase' = "ready" /\ depth' \in 1..2
          /\ depth' = 2 \/ Rows(current') \subseteq Rows(queue')
      BY <1>3, <1>4, <1>8, <3>1, CreatedList DEF QueuedPaths
    <3> QED BY <1>3, <3>1, <3>2 DEF QueuesOK
  <2> QED BY <2>1, <2>2
<1>6. TypeOK'
  BY <1>4, <1>5 DEF IInv, TypeOK, EndStep, EndStepWith
<1>7. CycleOK'
  BY <1>3, <1>5, <1>8 DEF IInv, CycleOK, IndexInCycle, EndStep, EndStepWith
<1> QED BY <1>3, <1>5, <1>6, <1>7 DEF IInv

\* The probe changes the queues and saves a fresh row for the step to come.
LEMMA ProbeInvariant ==
  ASSUME IInv, NEW n \in Lens, NEW p \in Paths, NEW crash \in BOOLEAN, Probe(n, p, crash)
  PROVE  IInv'
<1>1. /\ Learn(n, p, NewEdges(p) \/ crash) /\ QueuesOK
      /\ (NewEdges(p) \/ crash) \in BOOLEAN
  BY DEF IInv, Probe, NewEdges
<1>2. /\ QueuesOK'
      /\ QueuedPaths' = QueuedPaths \cup {p} \/ QueuedPaths' = QueuedPaths
  BY <1>1, LearnedQueues
<1>3. virgin' \subseteq Edges /\ uniquePath' \subseteq Paths
  BY <1>1, EnvAssumption DEF Learn, IInv, TypeOK
<1>4. savedInput' \in Row /\ ValidActions(savedInput') # {}
  BY FreshRow DEF Probe
<1>5. localStep = 0 /\ depth = 2 /\ localStep' = 1 /\ depth' = 2
  BY DEF IInv, TypeOK, Probe
<1>6. TypeOK'
  BY <1>2, <1>3, <1>4, <1>5 DEF IInv, TypeOK, QueuesOK, Probe, stepVars
<1>7. CycleOK'
  BY <1>2, <1>4, <1>5 DEF IInv, CycleOK, IndexInCycle, Probe, stepVars
<1> QED BY <1>2, <1>6, <1>7 DEF IInv

\* Every behaviour of the environment satisfies the inductive invariant.
THEOREM Invariant == Spec => []IInv
<1>1. Init => IInv
  BY InitInvariant
<1>2. IInv /\ [Next]_vars => IInv'
  <2> SUFFICES ASSUME IInv, [Next]_vars PROVE IInv'
    OBVIOUS
  <2>1. CASE Reset
    BY <2>1, ResetInvariant
  <2>2. CASE \E n \in Lens, p \in Paths : LoadSeed(n, p)
    BY <2>2, LoadSeedInvariant
  <2>3. CASE FinishReset
    BY <2>3, FinishResetInvariant
  <2>4. CASE \E a \in Actions : BeginStep(a)
    BY <2>4, BeginStepInvariant
  <2>5. CASE \E n \in Lens, p \in Paths, crash \in BOOLEAN : Try(n, p, crash)
    BY <2>5, TryInvariant
  <2>6. CASE \E n \in Lens, p \in Paths, crash \in BOOLEAN : Probe(n, p, crash)
    BY <2>6, ProbeInvariant
  <2>7. CASE EndStep
    BY <2>7, EndStepInvariant
  <2>8. CASE UNCHANGED vars
    BY <2>8 DEF IInv, TypeOK, QueuesOK, CycleOK, OneSeedPerPath, CoverageWitnessed,
                IndexInCycle, QueuedPaths, vars, queueVars, cycleVars, stepVars
  <2> QED BY <2>1, <2>2, <2>3, <2>4, <2>5, <2>6, <2>7, <2>8 DEF Next, Step
<1> QED BY <1>1, <1>2, PTL DEF Spec

-----------------------------------------------------------------------------
(* The theorems.                                                           *)

\* Every variable keeps its type.
THEOREM TypeCorrect == Spec => []TypeOK
BY Invariant, PTL DEF IInv

\* Every edge in virgin_map is witnessed by a queued seed, and no other is in it.
THEOREM Witnesses == Spec => []CoverageWitnessed
<1>1. IInv => CoverageWitnessed
  BY DEF IInv, QueuesOK
<1> QED BY <1>1, Invariant, PTL

\* The two queues together never hold two seeds for one path.
THEOREM NoDuplicateSeeds == Spec => []OneSeedPerPath
<1>1. IInv => OneSeedPerPath
  BY DEF IInv, QueuesOK
<1> QED BY <1>1, Invariant, PTL

\* The assertion of step_raw at 368 never fails.
THEOREM AssertionHolds == Spec => []AssertValidAction
<1>1. IInv => AssertValidAction
  BY StepRowProperty DEF AssertValidAction
<1> QED BY <1>1, Invariant, PTL

\* The scheduled row always exists, and a step never finds both queues empty.
THEOREM ScheduleInRange == Spec => []IndexInCycle
<1>1. IInv => IndexInCycle
  BY DEF IInv, CycleOK
<1> QED BY <1>1, Invariant, PTL

\* What an execution teaches the two queues is at most one step of the corpus.
LEMMA LearnedCorpus ==
  ASSUME IInv, NEW n \in Lens, NEW p \in Paths, NEW rewarded \in BOOLEAN,
         NewEdges(p) => rewarded, Learn(n, p, rewarded)
  PROVE  [Corpus!Next]_(Corpus!vars)
<1>1. /\ virgin = UNION QueuedPaths
      /\ virgin' = virgin \cup p
      /\ \/ QueuedPaths' = QueuedPaths \cup {p}
         \/ QueuedPaths' = QueuedPaths /\ virgin' = virgin
  BY LearnedQueues DEF IInv, QueuesOK, CoverageWitnessed, Learn
<1>2. CASE QueuedPaths' = QueuedPaths \cup {p} /\ p \notin QueuedPaths
  <2>1. Corpus!Add(p)
    BY <1>1, <1>2 DEF Corpus!Add
  <2> QED BY <2>1 DEF Corpus!Next
<1>3. CASE QueuedPaths' = QueuedPaths \cup {p} /\ p \in QueuedPaths
  <2>1. QueuedPaths' = QueuedPaths /\ virgin' = virgin
    BY <1>1, <1>3
  <2> QED BY <2>1 DEF Corpus!vars
<1>4. CASE QueuedPaths' = QueuedPaths /\ virgin' = virgin
  BY <1>4 DEF Corpus!vars
<1> QED BY <1>1, <1>2, <1>3, <1>4

\* The two queues implement one corpus of paths: a path enters once, when an
\* execution of it is rewarded, and stays until reset().
THEOREM Implementation == Spec => ImplementsCorpus
<1>1. Init => Corpus!Init
  BY DEF Init, Corpus!Init, QueuedPaths, PathsOf
<1>2. IInv /\ [Next]_vars => [Corpus!Next]_(Corpus!vars)
  <2> SUFFICES ASSUME IInv, [Next]_vars PROVE [Corpus!Next]_(Corpus!vars)
    OBVIOUS
  <2>1. CASE Reset
    <3>1. Corpus!Clear
      BY <2>1 DEF Reset, Corpus!Clear, QueuedPaths, PathsOf
    <3> QED BY <3>1 DEF Corpus!Next
  <2>2. ASSUME NEW n \in Lens, NEW p \in Paths, LoadSeed(n, p)
        PROVE  [Corpus!Next]_(Corpus!vars)
    <3>1. Learn(n, p, NewEdges(p)) /\ NewEdges(p) \in BOOLEAN
      BY <2>2 DEF LoadSeed, NewEdges
    <3> QED BY <3>1, LearnedCorpus
  <2>3. ASSUME NEW n \in Lens, NEW p \in Paths, NEW crash \in BOOLEAN,
               Try(n, p, crash) \/ Probe(n, p, crash)
        PROVE  [Corpus!Next]_(Corpus!vars)
    <3>1. /\ Learn(n, p, NewEdges(p) \/ crash)
          /\ (NewEdges(p) \/ crash) \in BOOLEAN
      BY <2>3 DEF Try, Probe, NewEdges
    <3> QED BY <3>1, LearnedCorpus
  <2>4. CASE EndStep
    <3>1. QueuedPaths' = QueuedPaths /\ virgin' = virgin
      BY <2>4, EndStepInvariant DEF EndStep, EndStepWith
    <3> QED BY <3>1 DEF Corpus!vars
  <2>5. CASE FinishReset \/ (\E a \in Actions : BeginStep(a)) \/ UNCHANGED vars
    <3>1. UNCHANGED <<queue, queue2, virgin>>
      BY <2>5 DEF FinishReset, BeginStep, vars, queueVars
    <3> QED BY <3>1 DEF Corpus!vars, QueuedPaths
  <2> QED BY <2>1, <2>2, <2>3, <2>4, <2>5 DEF Next, Step
<1> QED BY <1>1, <1>2, Invariant, PTL DEF Spec, ImplementsCorpus, Corpus!Spec
=============================================================================
