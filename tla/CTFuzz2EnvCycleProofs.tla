----------------------- MODULE CTFuzz2EnvCycleProofs ------------------------
(***************************************************************************)
(* More proofs about CTFuzz2Env, for every value of its constants: what    *)
(* the list of a cycle, made before its steps, may be relied on for while  *)
(* they change the queues.                                                 *)
(***************************************************************************)
EXTENDS CTFuzz2EnvProofs, FiniteSetTheorems

-----------------------------------------------------------------------------
(* The inductive invariant, of depth 1 and beside IInv.                     *)

\* A row of the list from the scheduled one on: its path is queued and has not been used up since the
\* list was made, and the queued row of that path has not been used more.
StillQueued(r) ==
  /\ r.path \in PathsOf(queue) /\ r.path \notin PathsOf(queue2)
  /\ \A s \in Rows(queue) : s.path = r.path => \A a \in Actions : r.tried[a] >= s.tried[a]

SplitOK ==
  depth = 1 =>
    /\ \A r \in Rows(queue2) : ValidActions(r) = {}
    /\ DistinctPaths(current)
    /\ index # 0
    /\ phase = "loading" => current = << >>
    /\ phase \in {"ready", "fuzzing"} => \A i \in index..Len(current) : StillQueued(current[i])
    /\ phase = "fuzzing" => row = current[index]

\* The row s may take the place of r.
Supersedes(s, r) == s.len < r.len \/ \A a \in Actions : s.tried[a] >= r.tried[a]

-----------------------------------------------------------------------------
(* Rows of the queues.                                                      *)

\* Two queued rows of one path are one.
LEMMA SameRow ==
  ASSUME QueuesOK, NEW r \in QueuedRows, NEW s \in QueuedRows, r.path = s.path
  PROVE  r = s
<1>1. /\ \A t \in Rows(queue) : t.path \in PathsOf(queue)
      /\ \A t \in Rows(queue2) : t.path \in PathsOf(queue2)
  BY DEF Rows, PathsOf
<1>2. CASE r \in Rows(queue) /\ s \in Rows(queue)
  BY <1>2 DEF QueuesOK, OneSeedPerPath, DistinctPaths, Rows
<1>3. CASE r \in Rows(queue2) /\ s \in Rows(queue2)
  BY <1>3 DEF QueuesOK, OneSeedPerPath, DistinctPaths, Rows
<1>4. PathsOf(queue) \cap PathsOf(queue2) = {}
  BY DEF QueuesOK, OneSeedPerPath
<1> QED BY <1>1, <1>2, <1>3, <1>4 DEF QueuedRows

\* Every row supersedes itself.
LEMMA SupersedesSelf ==
  ASSUME NEW r \in Row
  PROVE  Supersedes(r, r)
  BY DEF Supersedes, Row

\* The paths of a subset of the rows are a subset.
LEMMA FewerPaths ==
  ASSUME NEW q \in Seq(Row), NEW w \in Seq(Row), NEW r, Rows(w) \subseteq Rows(q) \union {r}
  PROVE  PathsOf(w) \subseteq PathsOf(q) \union {r.path}
<1> SUFFICES ASSUME NEW p \in PathsOf(w)
             PROVE  p \in PathsOf(q) \union {r.path}
  OBVIOUS
<1>1. PICK s \in Rows(w) : s.path = p
  BY RowsAndPaths
<1> QED BY <1>1, RowsAndPaths

\* An execution adds one fresh row at most, to the first queue, in the place of longer ones only.
LEMMA LearnedRows ==
  ASSUME QueuesOK, NEW n \in Lens, NEW p \in Paths, NEW rewarded \in BOOLEAN,
         Learn(n, p, rewarded)
  PROVE  /\ Rows(queue2') \subseteq Rows(queue2)
         /\ \/ Rows(queue') \subseteq Rows(queue)
            \/ /\ Rows(queue') \subseteq Rows(queue) \union {Fresh(n, p)}
               /\ \A r \in QueuedRows : r.path = p => r.len > n
<1> DEFINE f == Fresh(n, p)
<1>1. /\ queue \in Seq(Row) /\ queue2 \in Seq(Row)
      /\ DistinctPaths(queue) /\ DistinctPaths(queue2)
      /\ PathsOf(queue) \cap PathsOf(queue2) = {}
      /\ PathsOf(queue) \cup PathsOf(queue2) \subseteq uniquePath
  BY DEF QueuesOK, OneSeedPerPath, QueuedPaths
<1>2. f \in Row /\ f.path = p /\ f.len = n
  BY FreshRow DEF Fresh
<1>3. CASE queue' = queue /\ queue2' = queue2
  BY <1>3
<1>4. CASE rewarded /\ p \notin uniquePath
  <2>1. queue' = Append(queue, f) /\ queue2' = queue2
    BY <1>2, <1>4 DEF Learn, SetQueues, PushToQueue
  <2>2. Rows(queue') \subseteq Rows(queue) \union {f}
    BY <1>1, <1>2, <2>1, AppendRow
  <2>3. \A r \in QueuedRows : r.path # p
    BY <1>1, <1>4, RowsAndPaths DEF QueuedRows
  <2> QED BY <2>1, <2>2, <2>3
<1>5. CASE rewarded /\ p \in uniquePath /\ p \in PathsOf(queue) /\ queue[Position(queue, p)].len > n
  <2>1. queue' = ReplaceRow(queue, f) /\ queue2' = queue2
    BY <1>2, <1>5 DEF Learn, SetQueues, PushToQueue
  <2>2. Rows(queue') \subseteq Rows(queue) \union {f}
    BY <1>1, <1>2, <1>5, <2>1, ReplacedRow
  <2>3. /\ queue[Position(queue, p)] \in QueuedRows
        /\ queue[Position(queue, p)].path = p
    BY <1>1, <1>5, PositionProperty DEF QueuedRows, Rows
  <2>4. \A r \in QueuedRows : r.path = p => r.len > n
    BY <1>5, <2>3, SameRow
  <2> QED BY <2>1, <2>2, <2>4
<1>6. CASE /\ rewarded /\ p \in uniquePath /\ p \notin PathsOf(queue) /\ p \in PathsOf(queue2)
           /\ queue2[Position(queue2, p)].len > n
  <2>1. queue' = Append(queue, f) /\ queue2' = Without(queue2, p)
    BY <1>2, <1>6 DEF Learn, SetQueues, PushToQueue
  <2>2. Rows(queue') \subseteq Rows(queue) \union {f}
    BY <1>1, <1>2, <2>1, AppendRow
  <2>3. Rows(queue2') \subseteq Rows(queue2)
    BY <1>1, <1>6, <2>1, WithoutRow
  <2>4. /\ queue2[Position(queue2, p)] \in QueuedRows
        /\ queue2[Position(queue2, p)].path = p
    BY <1>1, <1>6, PositionProperty DEF QueuedRows, Rows
  <2>5. \A r \in QueuedRows : r.path = p => r.len > n
    BY <1>6, <2>4, SameRow
  <2> QED BY <2>2, <2>3, <2>5
<1>7. \/ queue' = queue /\ queue2' = queue2
      \/ rewarded /\ p \notin uniquePath
      \/ rewarded /\ p \in uniquePath /\ p \in PathsOf(queue) /\ queue[Position(queue, p)].len > n
      \/ /\ rewarded /\ p \in uniquePath /\ p \notin PathsOf(queue) /\ p \in PathsOf(queue2)
         /\ queue2[Position(queue2, p)].len > n
  <2> HIDE DEF f
  <2>1. CASE ~rewarded
    BY <2>1 DEF Learn
  <2>2. CASE rewarded
    <3>1. SetQueues(PushToQueue(f))
      BY <2>2 DEF Learn, f
    <3> QED BY <1>2, <2>2, <3>1 DEF SetQueues, PushToQueue
  <2> QED BY <2>1, <2>2
<1> QED BY <1>3, <1>4, <1>5, <1>6, <1>7

\* Writing back a row whose path is not in the second queue puts it there only if it is used up.
LEMMA UpdatedRows ==
  ASSUME QueuesOK, NEW r \in Row, r.path \notin PathsOf(queue2),
         SetQueues(UpdateSeedQueue(r, ValidActions(r) = {}))
  PROVE  /\ Rows(queue') \subseteq Rows(queue) \union {r}
         /\ \/ queue2' = queue2
            \/ Rows(queue2') \subseteq Rows(queue2) \union {r} /\ ValidActions(r) = {}
<1>1. /\ queue \in Seq(Row) /\ queue2 \in Seq(Row)
      /\ DistinctPaths(queue) /\ DistinctPaths(queue2)
  BY DEF QueuesOK, OneSeedPerPath
<1>2. CASE r.path \in PathsOf(queue) /\ ValidActions(r) = {}
  <2>1. queue' = Without(queue, r.path) /\ queue2' = Append(queue2, r)
    BY <1>2 DEF SetQueues, UpdateSeedQueue
  <2>2. Rows(queue') \subseteq Rows(queue)
    BY <1>1, <1>2, <2>1, WithoutRow
  <2>3. Rows(queue2') \subseteq Rows(queue2) \union {r}
    BY <1>1, <2>1, AppendRow
  <2> QED BY <1>2, <2>2, <2>3
<1>3. CASE r.path \in PathsOf(queue) /\ ValidActions(r) # {}
  <2>1. queue' = ReplaceRow(queue, r) /\ queue2' = queue2
    BY <1>3 DEF SetQueues, UpdateSeedQueue
  <2> QED BY <1>1, <1>3, <2>1, ReplacedRow
<1>4. CASE r.path \notin PathsOf(queue)
  BY <1>4 DEF SetQueues, UpdateSeedQueue
<1> QED BY <1>2, <1>3, <1>4

\* The list of a cycle at depth 1 holds the rows of the first queue, each once.
LEMMA CreatedDistinct ==
  ASSUME NEW q \in Seq(Row), NEW q2 \in Seq(Row), DistinctPaths(q), depth \in 1..2,
         CreateCurrentSeedList(q, q2), depth' = 1, phase' = "ready"
  PROVE  /\ depth = 1 /\ current' \in Seq(Row)
         /\ DistinctPaths(current') /\ Rows(current') \subseteq Rows(q)
<1>0. PathsOf(q) \cup PathsOf(q2) # {}
  BY RowsAndPaths DEF CreateCurrentSeedList
<1>1. current' \in Seq(Row) /\ Rows(current') \subseteq Rows(q)
  BY <1>0, CreatedList
<1>2. PICK o \in SortedOrders(q) : current' = [i \in DOMAIN q |-> q[o[i]]]
  BY DEF CreateCurrentSeedList
<1>3. depth = 1 /\ DOMAIN q = 1..Len(q) /\ Len(q) \in Nat
  BY DEF CreateCurrentSeedList
<1>4. \A i \in 1..Len(q) : o[i] \in 1..Len(q) /\ Cardinality(q[o[i]].path) \in Nat
  <2>1. \A i \in 1..Len(q) : o[i] \in 1..Len(q)
    BY <1>2, <1>3 DEF SortedOrders
  <2>2. \A i \in 1..Len(q) : q[i].path \subseteq Edges
    <3>1. \A i \in 1..Len(q) : q[i] \in Row
      BY <1>3
    <3>2. \A r \in Row : r.path \in Paths
      BY DEF Row
    <3> QED BY <3>1, <3>2, EnvAssumption
  <2>3. \A i \in 1..Len(q) : IsFiniteSet(q[i].path)
    BY <2>2, EnvAssumption, FS_Subset
  <2>4. \A i \in 1..Len(q) : Cardinality(q[i].path) \in Nat
    BY <2>3, FS_CardinalityType
  <2> QED BY <2>1, <2>4
<1>5. \A i, j \in 1..Len(q) : i < j => o[i] # o[j]
  <2> SUFFICES ASSUME NEW i \in 1..Len(q), NEW j \in 1..Len(q), i < j, o[i] = o[j]
               PROVE  FALSE
    OBVIOUS
  <2> DEFINE c == Cardinality(q[o[i]].path)
  <2>1. c > c \/ (c = c /\ o[i] < o[i])
    BY <1>2, <1>3 DEF SortedOrders
  <2>2. c \in Nat /\ o[i] \in Nat
    BY <1>3, <1>4
  <2> HIDE DEF c
  <2> QED BY <2>1, <2>2
<1>6. \A i, j \in 1..Len(q) : o[i] = o[j] => i = j
  BY <1>3, <1>5
<1>7. DistinctPaths(current')
  BY <1>2, <1>3, <1>4, <1>6 DEF DistinctPaths
<1> QED BY <1>1, <1>3, <1>7

-----------------------------------------------------------------------------
(* The invariant.                                                           *)

\* An execution leaves the rows still to be scheduled as they were.
LEMMA LearnSplit ==
  ASSUME IInv, SplitOK, NEW n \in Lens, NEW p \in Paths, NEW rewarded \in BOOLEAN,
         NewEdges(p) => rewarded, Learn(n, p, rewarded), UNCHANGED <<phase, cycleVars, row>>, IInv'
  PROVE  SplitOK'
<1> USE DEF cycleVars
<1> SUFFICES ASSUME depth = 1
             PROVE  SplitOK'
  BY DEF SplitOK
<1>1. QueuesOK /\ QueuesOK' /\ queue \in Seq(Row) /\ queue2 \in Seq(Row) /\ queue2' \in Seq(Row)
  BY DEF IInv, QueuesOK
<1>2. /\ Rows(queue2') \subseteq Rows(queue2)
      /\ Rows(queue') \subseteq Rows(queue) \union {Fresh(n, p)}
  BY <1>1, LearnedRows
<1>3. PathsOf(queue2') \subseteq PathsOf(queue2)
  <2> SUFFICES ASSUME NEW t \in PathsOf(queue2')
               PROVE  t \in PathsOf(queue2)
    OBVIOUS
  <2>1. PICK s \in Rows(queue2') : s.path = t
    BY <1>1, RowsAndPaths
  <2> QED BY <1>1, <1>2, <2>1, RowsAndPaths
<1>4. ASSUME phase \in {"ready", "fuzzing"}, NEW i \in index..Len(current)
      PROVE  StillQueued(current[i])'
  <2>1. StillQueued(current[i])
    BY <1>4 DEF SplitOK
  <2>2. current[i] \in Row
    BY <1>4 DEF IInv, TypeOK, CycleOK, IndexInCycle
  <2>3. \A a \in Actions : current[i].tried[a] >= Fresh(n, p).tried[a]
    BY <2>2 DEF Row, Fresh
  <2>4. QueuedPaths \subseteq QueuedPaths'
    BY <1>1, LearnedQueues
  <2> QED BY <1>2, <1>3, <2>1, <2>3, <2>4 DEF StillQueued, QueuedPaths
<1> QED BY <1>2, <1>4 DEF SplitOK

\* A new list at depth 1 starts with the queues as it was made from them.
LEMMA ListSplit ==
  ASSUME QueuesOK, depth \in 1..2, CreateCurrentSeedList(queue, queue2), depth' = 1, phase' = "ready"
  PROVE  /\ depth = 1 /\ DistinctPaths(current')
         /\ \A i \in 1..Len(current') : StillQueued(current'[i])
<1>1. queue \in Seq(Row) /\ queue2 \in Seq(Row) /\ DistinctPaths(queue)
  BY DEF QueuesOK, OneSeedPerPath
<1>2. /\ depth = 1 /\ current' \in Seq(Row)
      /\ DistinctPaths(current') /\ Rows(current') \subseteq Rows(queue)
  BY <1>1, CreatedDistinct
<1>3. ASSUME NEW r \in Rows(queue)
      PROVE  StillQueued(r)
  <2>1. r \in Row /\ r.path \in PathsOf(queue) /\ r.path \notin PathsOf(queue2)
    BY <1>1, <1>3, RowsAndPaths DEF QueuesOK, OneSeedPerPath
  <2>2. \A s \in Rows(queue) : s.path = r.path => s = r
    BY <1>3, SameRow DEF QueuedRows
  <2>3. \A a \in Actions : r.tried[a] >= r.tried[a]
    BY <2>1 DEF Row
  <2> QED BY <2>1, <2>2, <2>3 DEF StillQueued
<1>4. \A i \in 1..Len(current') : current'[i] \in Rows(current')
  BY <1>2 DEF Rows
<1> QED BY <1>2, <1>3, <1>4

\* What the end of a step at depth 1 writes back is the scheduled row, used once more.
LEMMA WrittenBack ==
  ASSUME IInv, SplitOK, depth = 1, EndStep
  PROVE  /\ CountedRow \in Row /\ CountedRow.path = current[index].path
         /\ CountedRow.path \notin PathsOf(queue2)
         /\ index \in 1..Len(current) /\ current[index] \in Row /\ current \in Seq(Row)
         /\ \A r \in QueuedRows : r.path = CountedRow.path => Supersedes(CountedRow, r)
         /\ Rows(queue') \subseteq Rows(queue) \union {CountedRow}
         /\ \/ queue2' = queue2
            \/ Rows(queue2') \subseteq Rows(queue2) \union {CountedRow} /\ ValidActions(CountedRow) = {}
<1>1. phase = "fuzzing" /\ row = current[index] /\ index \in 1..Len(current) /\ current \in Seq(Row)
  BY DEF EndStep, EndStepWith, IInv, CycleOK, IndexInCycle, SplitOK, TypeOK
<1>2. row \in Row /\ action \in Actions /\ StillQueued(row)
  BY <1>1 DEF IInv, CycleOK, ValidActions, SplitOK
<1>3. CountedRow \in Row /\ CountedRow.path = row.path
  BY <1>2 DEF CountedRow, Row
<1>4. \A a \in Actions : CountedRow.tried[a] >= row.tried[a] /\ CountedRow.tried[a] \in Nat /\ row.tried[a] \in Nat
  BY <1>2 DEF CountedRow, Row
<1>5. ASSUME NEW r \in QueuedRows, r.path = CountedRow.path
      PROVE  Supersedes(CountedRow, r)
  <2>1. r \in Rows(queue) /\ r \in Row
    BY <1>2, <1>3, <1>5, RowsAndPaths DEF QueuedRows, StillQueued, IInv, TypeOK
  <2>2. \A a \in Actions : row.tried[a] >= r.tried[a] /\ r.tried[a] \in Nat
    BY <1>2, <1>3, <1>5, <2>1 DEF StillQueued, Row
  <2> QED BY <1>4, <2>2 DEF Supersedes
<1>6. SetQueues(UpdateSeedQueue(CountedRow, ValidActions(CountedRow) = {}))
  BY DEF EndStep, EndStepWith
<1>7. CountedRow.path \notin PathsOf(queue2)
  BY <1>2, <1>3 DEF StillQueued
<1> QED BY <1>1, <1>2, <1>3, <1>5, <1>6, <1>7, UpdatedRows DEF IInv

\* The rest of the list has other paths, and a new list is made of the queues.
LEMMA EndStepSplit ==
  ASSUME IInv, SplitOK, EndStep, IInv'
  PROVE  SplitOK'
<1> SUFFICES ASSUME depth' = 1
             PROVE  SplitOK'
  BY DEF SplitOK
<1>1. depth = 1 /\ phase = "fuzzing" /\ phase' = "ready" /\ depth \in 1..2
  BY EndStepInvariant DEF EndStep, EndStepWith, NextRow, CreateCurrentSeedList, IInv, TypeOK
<1> DEFINE c == CountedRow
<1>2. /\ c \in Row /\ c.path = current[index].path
      /\ c.path \notin PathsOf(queue2)
      /\ index \in 1..Len(current) /\ current[index] \in Row /\ current \in Seq(Row)
      /\ Rows(queue') \subseteq Rows(queue) \union {c}
      /\ \/ queue2' = queue2
         \/ Rows(queue2') \subseteq Rows(queue2) \union {c} /\ ValidActions(c) = {}
  BY <1>1, WrittenBack
<1> HIDE DEF c
<1>3. queue2 \in Seq(Row) /\ queue2' \in Seq(Row) /\ QueuesOK'
  BY DEF IInv, QueuesOK
<1>4. \A r \in Rows(queue2') : ValidActions(r) = {}
  BY <1>1, <1>2 DEF SplitOK
<1>5. CASE index < Len(current)
  <2>1. index' = index + 1 /\ current' = current
    BY <1>5 DEF EndStep, EndStepWith, NextRow
  <2>4. index' # 0
    BY <1>2, <2>1
  <2>2. PathsOf(queue2') \subseteq PathsOf(queue2) \union {c.path}
    BY <1>2, <1>3, FewerPaths
  <2>3. ASSUME NEW i \in index'..Len(current)
        PROVE  StillQueued(current[i])'
    <3>1. i \in index..Len(current) /\ i # index /\ i \in 1..Len(current)
      BY <1>2, <2>1
    <3>2. StillQueued(current[i]) /\ current[i].path # c.path
      BY <1>1, <1>2, <3>1 DEF SplitOK, DistinctPaths
    <3>3. QueuedPaths' = QueuedPaths
      BY EndStepInvariant
    <3> QED BY <1>2, <2>1, <2>2, <3>2, <3>3 DEF StillQueued, QueuedPaths
  <2> QED BY <1>1, <1>4, <2>1, <2>3, <2>4 DEF SplitOK
<1>6. CASE ~(index < Len(current))
  <2>1. index' = 1 /\ CreateCurrentSeedList(queue', queue2')
    BY <1>6 DEF EndStep, EndStepWith, NextRow
  <2>2. /\ current' \in Seq(Row) /\ DistinctPaths(current') /\ Rows(current') \subseteq Rows(queue')
    BY <1>1, <1>3, <2>1, CreatedDistinct DEF QueuesOK, OneSeedPerPath
  <2>3. ASSUME NEW r \in Rows(queue')
        PROVE  StillQueued(r)'
    <3>1. r \in Row /\ r.path \in PathsOf(queue') /\ r.path \notin PathsOf(queue2')
      BY <1>3, <2>3, RowsAndPaths DEF QueuesOK, OneSeedPerPath
    <3>2. \A s \in Rows(queue') : s.path = r.path => s = r
      BY <1>3, <2>3 DEF QueuesOK, OneSeedPerPath, DistinctPaths, Rows
    <3>3. \A a \in Actions : r.tried[a] >= r.tried[a]
      BY <3>1 DEF Row
    <3> QED BY <3>1, <3>2, <3>3 DEF StillQueued
  <2>4. \A i \in 1..Len(current') : StillQueued(current[i])'
    BY <2>2, <2>3 DEF Rows
  <2> QED BY <1>1, <1>4, <2>1, <2>2, <2>4 DEF SplitOK
<1> QED BY <1>5, <1>6

\* Every step keeps the split.
LEMMA SplitStep ==
  ASSUME IInv, SplitOK, [Next]_vars, IInv'
  PROVE  SplitOK'
<1>1. CASE UNCHANGED vars
  BY <1>1 DEF SplitOK, StillQueued, vars, queueVars, cycleVars, stepVars
<1>2. CASE Reset
  <2>1. Rows(<< >>) = {} /\ PathsOf(<< >>) = {}
    BY DEF Rows, PathsOf
  <2> QED BY <1>2, <2>1 DEF Reset, SplitOK, DistinctPaths
<1>3. ASSUME NEW n \in Lens, NEW p \in Paths, LoadSeed(n, p)
      PROVE  SplitOK'
  <2>1. Learn(n, p, NewEdges(p)) /\ NewEdges(p) \in BOOLEAN /\ UNCHANGED <<phase, cycleVars, row>>
    BY <1>3 DEF LoadSeed, NewEdges, stepVars
  <2> QED BY <2>1, LearnSplit
<1>4. CASE FinishReset
  <2> SUFFICES ASSUME depth' = 1
               PROVE  SplitOK'
    BY DEF SplitOK
  <2>1. CASE phase' = "ready"
    <3>1. /\ depth = 1 /\ DistinctPaths(current')
          /\ \A i \in 1..Len(current') : StillQueued(current'[i])
      BY <1>4, <2>1, ListSplit DEF IInv, TypeOK, FinishReset
    <3>2. index' = 1 /\ queue' = queue /\ queue2' = queue2
      BY <1>4 DEF FinishReset, queueVars, IInv, CycleOK
    <3> QED BY <2>1, <3>1, <3>2 DEF SplitOK, StillQueued
  <2>2. CASE phase' = "exited" /\ UNCHANGED <<current, depth>>
    BY <1>4, <2>2 DEF FinishReset, queueVars, SplitOK
  <2> QED BY <1>4, <2>1, <2>2 DEF FinishReset, CreateCurrentSeedList
<1>5. ASSUME NEW a \in Actions, BeginStep(a)
      PROVE  SplitOK'
  <2>1. depth = 1 => localStep = 0
    BY <1>5 DEF BeginStep, IInv, TypeOK
  <2>2. depth = 1 => row' = current[index]
    BY <1>5, <2>1 DEF BeginStep, StepRow
  <2> QED BY <1>5, <2>2 DEF BeginStep, SplitOK, StillQueued, queueVars, cycleVars
<1>6. ASSUME NEW n \in Lens, NEW p \in Paths, NEW crash \in BOOLEAN, Try(n, p, crash)
      PROVE  SplitOK'
  <2>1. /\ Learn(n, p, NewEdges(p) \/ crash) /\ (NewEdges(p) \/ crash) \in BOOLEAN
        /\ UNCHANGED <<phase, cycleVars, row>>
    BY <1>6 DEF Try, NewEdges
  <2> QED BY <2>1, LearnSplit
<1>7. ASSUME NEW n \in Lens, NEW p \in Paths, NEW crash \in BOOLEAN, Probe(n, p, crash)
      PROVE  SplitOK'
  <2>1. depth' = 2
    BY <1>7 DEF Probe, IInv, TypeOK
  <2> QED BY <2>1 DEF SplitOK
<1>8. CASE EndStep
  BY <1>8, EndStepSplit
<1> QED BY <1>1, <1>2, <1>3, <1>4, <1>5, <1>6, <1>7, <1>8 DEF Next, Step

\* Every behaviour of the environment keeps its queues split.
THEOREM SplitInvariant == Spec => [](IInv /\ SplitOK)
<1>1. Init => SplitOK
  BY DEF Init, SplitOK, Rows, DistinctPaths
<1>2. IInv /\ SplitOK /\ [Next]_vars /\ IInv' => SplitOK'
  BY SplitStep
<1> QED BY <1>1, <1>2, Invariant, PTL DEF Spec

-----------------------------------------------------------------------------
(* The theorems.                                                           *)

\* Line 415 "drop to queue 2 if all action is done" keeps the two queues apart by use.
THEOREM QueuesStaySplit == Spec => []QueuesSplitByUse
<1>1. IInv /\ SplitOK => QueuesSplitByUse
  BY DEF IInv, QueuesOK, SplitOK, QueuesSplitByUse
<1> QED BY <1>1, SplitInvariant, PTL

\* At depth 1 a queued row takes the place of another only if it is shorter or used no less.
LEMMA StepSupersedes ==
  ASSUME IInv, SplitOK, depth = 1, [Next]_vars,
         NEW r \in QueuedRows, NEW s \in QueuedRows', r.path = s.path
  PROVE  Supersedes(s, r)
<1>1. QueuesOK /\ r \in Row
  BY RowsAndPaths DEF IInv, QueuesOK, QueuedRows
<1>2. CASE s \in QueuedRows
  BY <1>1, <1>2, SameRow, SupersedesSelf
<1>3. CASE s \notin QueuedRows
  <2>1. ~UNCHANGED <<queue, queue2>>
    BY <1>3 DEF QueuedRows
  <2>2. ASSUME NEW n \in Lens, NEW p \in Paths, NEW rewarded \in BOOLEAN, Learn(n, p, rewarded)
        PROVE  Supersedes(s, r)
    <3>1. s = Fresh(n, p) /\ \A t \in QueuedRows : t.path = p => t.len > n
      BY <1>1, <1>3, <2>2, LearnedRows DEF QueuedRows
    <3>2. s.path = p /\ s.len = n /\ n \in Nat /\ r.len \in Nat
      BY <1>1, <3>1, EnvAssumption DEF Fresh, Row
    <3> QED BY <3>1, <3>2 DEF Supersedes
  <2>3. CASE EndStep
    <3>1. s = CountedRow
      BY <1>3, <2>3, WrittenBack DEF QueuedRows
    <3> QED BY <2>3, <3>1, WrittenBack
  <2>4. CASE Reset
    BY <2>4 DEF Reset, QueuedRows, Rows
  <2>5. ASSUME NEW n \in Lens, NEW p \in Paths, LoadSeed(n, p)
        PROVE  Supersedes(s, r)
    <3>1. Learn(n, p, NewEdges(p)) /\ NewEdges(p) \in BOOLEAN
      BY <2>5 DEF LoadSeed, NewEdges
    <3> QED BY <2>2, <3>1
  <2>6. ASSUME NEW n \in Lens, NEW p \in Paths, NEW crash \in BOOLEAN, Try(n, p, crash) \/ Probe(n, p, crash)
        PROVE  Supersedes(s, r)
    <3>1. Learn(n, p, NewEdges(p) \/ crash) /\ (NewEdges(p) \/ crash) \in BOOLEAN
      BY <2>6 DEF Try, Probe, NewEdges
    <3> QED BY <2>2, <3>1
  <2> QED BY <2>1, <2>3, <2>4, <2>5, <2>6 DEF Next, Step, FinishReset, BeginStep, vars, queueVars
<1> QED BY <1>2, <1>3

\* The use made of a seed's actions is forgotten only when a shorter input takes its place.
THEOREM UseIsKept == Spec => UseForgottenOnlyForShorter
<1>1. ASSUME IInv, SplitOK, [Next]_vars
      PROVE  [depth = 1 =>
                \A r \in QueuedRows, s \in QueuedRows' :
                  r.path = s.path => s.len < r.len \/ \A a \in Actions : s.tried[a] >= r.tried[a]]_vars
  BY <1>1, StepSupersedes DEF Supersedes
<1> QED BY <1>1, SplitInvariant, PTL DEF Spec, UseForgottenOnlyForShorter


-----------------------------------------------------------------------------
(* Depth 1 advances.                                                       *)

Listed == {current[i] : i \in index..Len(current)}

\* The row s is further on the way to the end of depth 1 than r, or as far.
Further(s, r) == s.len < r.len \/ (s.len = r.len /\ \A a \in Actions : s.tried[a] >= r.tried[a])

\* No row falls behind itself.
LEMMA FurtherSelf ==
  ASSUME NEW r \in Row
  PROVE  Further(r, r)
  BY DEF Further, Row

\* The rows used next: one for each path, a copy before the queued row.
NextRowsOK ==
  /\ Listed \subseteq NextRows /\ NextRows \subseteq Row
  /\ \A r \in Listed, s \in NextRows : r.path = s.path => r = s
  /\ \A s \in NextRows : s \notin Listed => s \in QueuedRows /\ \A r \in Listed : r.path # s.path
  /\ \A s \in QueuedRows : (\A r \in Listed : r.path # s.path) => s \in NextRows
  /\ \A r, s \in QueuedRows : r.path = s.path => r = s

AtDepthOne == IInv /\ SplitOK /\ depth = 1

\* The list of the cycle has each path once, and so have the queues.
LEMMA NextRowsProperty == AtDepthOne => NextRowsOK
<1> SUFFICES ASSUME AtDepthOne PROVE NextRowsOK
  OBVIOUS
<1> USE DEF AtDepthOne
<1>1. /\ current \in Seq(Row) /\ queue \in Seq(Row) /\ queue2 \in Seq(Row)
      /\ index \in Nat \ {0} /\ DistinctPaths(current)
  BY DEF IInv, TypeOK, SplitOK
<1>2. \A i \in index..Len(current) : i \in DOMAIN current /\ current[i] \in Row
  BY <1>1
<1>3. Listed \subseteq Row /\ QueuedRows \subseteq Row
  BY <1>1, <1>2, RowsAndPaths DEF Listed, QueuedRows
<1>4. \A r, s \in Listed : r.path = s.path => r = s
  BY <1>1, <1>2 DEF Listed, DistinctPaths
<1>5. NextRows = Listed \union {r \in QueuedRows : \A s \in Listed : s.path # r.path}
  BY DEF NextRows, Listed
<1>6. \A r, s \in QueuedRows : r.path = s.path => r = s
  BY SameRow DEF IInv
<1> QED BY <1>3, <1>4, <1>5, <1>6 DEF NextRowsOK

\* What update_seed_queue writes is queued afterwards.
LEMMA UpdatedIsQueued ==
  ASSUME QueuesOK, NEW r \in Row, r.path \in PathsOf(queue),
         SetQueues(UpdateSeedQueue(r, ValidActions(r) = {}))
  PROVE  r \in QueuedRows'
<1>1. /\ queue \in Seq(Row) /\ queue2 \in Seq(Row) /\ r.path \in PathsOf(queue)
      /\ DOMAIN queue = 1..Len(queue)
  BY DEF QueuesOK
<1>2. CASE ValidActions(r) = {}
  <2>1. queue2' = Append(queue2, r)
    BY <1>1, <1>2 DEF SetQueues, UpdateSeedQueue
  <2>2. Len(queue2) + 1 \in DOMAIN Append(queue2, r) /\ Append(queue2, r)[Len(queue2) + 1] = r
    BY <1>1
  <2> QED BY <2>1, <2>2 DEF QueuedRows, Rows
<1>3. CASE ValidActions(r) # {}
  <2>1. queue' = [queue EXCEPT ![Position(queue, r.path)] = r]
    BY <1>1, <1>3 DEF SetQueues, UpdateSeedQueue, ReplaceRow
  <2>2. Position(queue, r.path) \in 1..Len(queue)
    BY <1>1, PositionProperty
  <2>3. Position(queue, r.path) \in DOMAIN queue' /\ queue'[Position(queue, r.path)] = r
    BY <1>1, <2>1, <2>2
  <2> QED BY <2>3 DEF QueuedRows, Rows
<1> QED BY <1>2, <1>3

\* An execution changes no copy in the list and puts a row in the place of a longer one only.
LEMMA LearnAdvances ==
  ASSUME IInv, SplitOK, IInv', SplitOK', depth = 1, NEW n \in Lens, NEW p \in Paths, NEW rewarded \in BOOLEAN,
         Learn(n, p, rewarded), UNCHANGED cycleVars,
         NEW r \in NextRows, NEW s \in NextRows', r.path = s.path
  PROVE  Further(s, r)
<1>1. Listed' = Listed /\ depth' = 1 /\ QueuesOK
  BY DEF Listed, cycleVars, IInv
<1>5. NextRowsOK /\ NextRowsOK'
  <2>1. AtDepthOne /\ AtDepthOne'
    BY <1>1 DEF AtDepthOne
  <2> QED BY <2>1, NextRowsProperty, PTL
<1>2. r \in Row
  BY <1>5 DEF NextRowsOK
<1>3. CASE s \in Listed \/ r \in Listed
  <2>1. r = s
    BY <1>1, <1>3, <1>5 DEF NextRowsOK
  <2> QED BY <1>2, <2>1, FurtherSelf
<1>4. CASE s \notin Listed /\ r \notin Listed
  <2>1. r \in QueuedRows /\ s \in QueuedRows'
    BY <1>1, <1>4, <1>5 DEF NextRowsOK
  <2>2. CASE s \in QueuedRows
    <3>1. r = s
      BY <1>5, <2>1, <2>2 DEF NextRowsOK
    <3> QED BY <1>2, <3>1, FurtherSelf
  <2>3. CASE s \notin QueuedRows
    <3>1. s = Fresh(n, p) /\ \A t \in QueuedRows : t.path = p => t.len > n
      BY <1>1, <2>1, <2>3, LearnedRows DEF QueuedRows
    <3>2. s.path = p /\ s.len = n /\ n \in Nat /\ r.len \in Nat
      BY <1>2, <3>1, EnvAssumption DEF Fresh, Row
    <3> QED BY <2>1, <3>1, <3>2 DEF Further
  <2> QED BY <2>2, <2>3
<1> QED BY <1>3, <1>4

\* The end of a step writes back the copy, counted, for the path of the step, and leaves the rows of
\* the other paths as they are, the copies in the list or what a new list is made of.
LEMMA EndStepAdvances ==
  ASSUME IInv, SplitOK, IInv', SplitOK', depth = 1, depth' = 1, EndStep
  PROVE  /\ \A r \in NextRows, s \in NextRows' : r.path = s.path => Further(s, r)
         /\ \E s \in NextRows' :
              s.path = row.path /\ s.len = row.len /\ s.tried[action] > row.tried[action]
<1> DEFINE c == CountedRow
<1>1. phase = "fuzzing" /\ row = current[index] /\ row \in Row /\ action \in Actions /\ index \in Nat \ {0}
  BY DEF EndStep, EndStepWith, IInv, CycleOK, TypeOK, SplitOK, ValidActions
<1>2. /\ c \in Row /\ c.path = row.path /\ c.len = row.len
      /\ c.tried[action] = row.tried[action] + 1 /\ row.tried[action] \in Nat
      /\ \A a \in Actions : c.tried[a] >= row.tried[a]
  BY <1>1 DEF CountedRow, Row
<1>3. index \in 1..Len(current) /\ current \in Seq(Row) /\ row.path \in PathsOf(queue)
  <2>1. index \in 1..Len(current) /\ current \in Seq(Row)
    BY WrittenBack
  <2> QED BY <1>1, <2>1 DEF SplitOK, StillQueued
<1>4. /\ c \in QueuedRows'
      /\ QueuedRows' \subseteq QueuedRows \union {c}
  <2>1. SetQueues(UpdateSeedQueue(c, ValidActions(c) = {}))
    BY DEF EndStep, EndStepWith
  <2>2. c \in QueuedRows'
    BY <1>2, <1>3, <2>1, UpdatedIsQueued DEF IInv
  <2>3. QueuedRows' \subseteq QueuedRows \union {c}
    BY WrittenBack DEF QueuedRows
  <2> QED BY <2>2, <2>3
<1> HIDE DEF c
<1>5. row \in Listed
  BY <1>1, <1>3 DEF Listed
<1>6. QueuesOK' /\ NextRowsOK /\ NextRowsOK'
  <2>1. AtDepthOne /\ AtDepthOne'
    BY DEF AtDepthOne
  <2> QED BY <2>1, NextRowsProperty, PTL DEF IInv
<1>7. /\ Listed' \subseteq QueuedRows' \/ Listed' = Listed \ {row}
      /\ \A r \in Listed : r.path # row.path => r \in Listed' \/ Listed = {row}
  <2>1. CASE index < Len(current)
    <3>1. index' = index + 1 /\ current' = current
      BY <2>1 DEF EndStep, EndStepWith, NextRow
    <3>2. DistinctPaths(current) /\ DOMAIN current = 1..Len(current) /\ Len(current) \in Nat
      BY <1>3 DEF SplitOK
    <3>3. \A i \in (index + 1)..Len(current) : current[i] # row
      BY <1>1, <1>3, <3>2 DEF DistinctPaths
    <3>4. \A i \in index..Len(current) : i = index \/ i \in (index + 1)..Len(current)
      BY <1>3, <3>2
    <3>5. \A i \in (index + 1)..Len(current) : i \in index..Len(current)
      BY <1>3, <3>2
    <3>6. Listed' = {current[i] : i \in (index + 1)..Len(current)}
      BY <3>1 DEF Listed
    <3>7. Listed' = Listed \ {row}
      BY <1>1, <3>3, <3>4, <3>5, <3>6 DEF Listed
    <3> QED BY <1>1, <3>7
  <2>2. CASE ~(index < Len(current))
    <3>1. index' = 1 /\ CreateCurrentSeedList(queue', queue2') /\ phase' = "ready"
      BY <2>2, EndStepInvariant DEF EndStep, EndStepWith, NextRow
    <3>2. current' \in Seq(Row) /\ Rows(current') \subseteq Rows(queue')
      BY <1>6, <3>1, CreatedDistinct DEF QueuesOK, OneSeedPerPath
    <3>3. \A i \in 1..Len(current') : current'[i] \in Rows(current')
      BY <3>2 DEF Rows
    <3>4. Listed' \subseteq QueuedRows'
      BY <3>1, <3>2, <3>3 DEF Listed, QueuedRows
    <3>5. Listed = {row}
      <4>1. Len(current) \in Nat /\ \A i \in index..Len(current) : i = index
        BY <1>3, <2>2
      <4> QED BY <1>1, <1>5, <4>1 DEF Listed
    <3> QED BY <3>4, <3>5
  <2> QED BY <2>1, <2>2
<1>8. \A s \in NextRows' : s \in QueuedRows' \/ s \in Listed \ {row}
  BY <1>6, <1>7 DEF NextRowsOK
<1>9. ASSUME NEW r \in NextRows, NEW s \in NextRows', r.path = s.path
      PROVE  Further(s, r)
  <2>1. r \in Row /\ s \in Row
    BY <1>6 DEF NextRowsOK
  <2>2. CASE r.path = row.path
    <3>1. r = row
      BY <1>5, <1>6, <2>2 DEF NextRowsOK
    <3>2. s \notin Listed \ {row}
      BY <1>5, <1>9, <2>2, <1>6 DEF NextRowsOK
    <3>3. s = c
      BY <1>2, <1>4, <1>6, <1>8, <1>9, <2>2, <3>2 DEF NextRowsOK
    <3> QED BY <1>2, <3>1, <3>3 DEF Further
  <2>3. CASE r.path # row.path
    <3>1. CASE s \in Listed \/ (r \in Listed /\ r \in Listed')
      <4>1. r = s
        BY <1>6, <1>9, <3>1 DEF NextRowsOK
      <4> QED BY <2>1, <4>1, FurtherSelf
    <3>2. CASE s \notin Listed /\ ~(r \in Listed /\ r \in Listed')
      <4>1. s \in QueuedRows' /\ r \notin Listed
        BY <1>7, <1>8, <2>3, <3>2
      <4>2. s \in QueuedRows
        BY <1>2, <1>4, <1>9, <2>3, <4>1
      <4>3. r = s
        BY <1>6, <1>9, <4>1, <4>2 DEF NextRowsOK
      <4> QED BY <2>1, <4>3, FurtherSelf
    <3> QED BY <3>1, <3>2
  <2> QED BY <2>2, <2>3
<1>10. c \in NextRows'
  <2>1. CASE \A s \in Listed' : s.path # c.path
    BY <1>4, <1>6, <2>1 DEF NextRowsOK
  <2>2. ASSUME NEW s \in Listed', s.path = c.path
        PROVE  c \in NextRows'
    <3>1. s \in NextRows'
      BY <1>6 DEF NextRowsOK
    <3>2. s \notin Listed \ {row}
      BY <1>2, <1>5, <2>2, <1>6 DEF NextRowsOK
    <3>3. s = c
      BY <1>2, <1>4, <1>6, <1>8, <2>2, <3>1, <3>2 DEF NextRowsOK
    <3> QED BY <3>1, <3>3
  <2> QED BY <2>1, <2>2
<1> QED BY <1>2, <1>9, <1>10

\* Every other step leaves the rows used next alone or learns from one execution.
LEMMA StepAdvances ==
  ASSUME IInv, SplitOK, IInv', SplitOK', depth = 1, depth' = 1, Next,
         NEW r \in NextRows, NEW s \in NextRows', r.path = s.path
  PROVE  Further(s, r)
<1>1. NextRowsOK /\ NextRowsOK' /\ r \in Row
  <2>1. AtDepthOne /\ AtDepthOne'
    BY DEF AtDepthOne
  <2>2. NextRowsOK /\ NextRowsOK'
    BY <2>1, NextRowsProperty, PTL
  <2> QED BY <2>2 DEF NextRowsOK
<1>2. CASE Listed' \subseteq QueuedRows' /\ Listed = {} /\ QueuedRows' \subseteq QueuedRows
  <2>1. r \in QueuedRows /\ s \in QueuedRows
    BY <1>1, <1>2 DEF NextRowsOK
  <2>2. r = s
    BY <1>1, <2>1 DEF NextRowsOK
  <2> QED BY <1>1, <2>2, FurtherSelf
<1>3. CASE UNCHANGED <<queue, queue2, current, index>>
  <2>1. NextRows' = NextRows
    BY <1>3 DEF NextRows, QueuedRows
  <2>2. r = s
    BY <1>1, <2>1 DEF NextRowsOK
  <2> QED BY <1>1, <2>2, FurtherSelf
<1>4. CASE Reset
  <2>1. NextRows' = {}
    <3>1. \A i \in 1..0 : FALSE
      OBVIOUS
    <3> QED BY <1>4, <3>1 DEF Reset, NextRows, QueuedRows, Rows
  <2> QED BY <2>1
<1>5. ASSUME NEW n \in Lens, NEW p \in Paths, LoadSeed(n, p)
      PROVE  Further(s, r)
  <2>1. Learn(n, p, NewEdges(p)) /\ NewEdges(p) \in BOOLEAN /\ UNCHANGED cycleVars
    BY <1>5 DEF LoadSeed, NewEdges
  <2> QED BY <2>1, LearnAdvances
<1>6. ASSUME NEW n \in Lens, NEW p \in Paths, NEW crash \in BOOLEAN, Try(n, p, crash)
      PROVE  Further(s, r)
  <2>1. Learn(n, p, NewEdges(p) \/ crash) /\ (NewEdges(p) \/ crash) \in BOOLEAN /\ UNCHANGED cycleVars
    BY <1>6 DEF Try, NewEdges
  <2> QED BY <2>1, LearnAdvances
<1>7. CASE FinishReset
  <2>1. CASE phase' = "ready"
    <3>1. UNCHANGED <<queue, queue2>> /\ index' = 1 /\ index = 1 /\ current = << >>
      BY <1>7 DEF FinishReset, queueVars, IInv, CycleOK, SplitOK
    <3>2. current' \in Seq(Row) /\ Rows(current') \subseteq Rows(queue)
      BY <1>7, <2>1, CreatedDistinct DEF FinishReset, IInv, TypeOK, QueuesOK, OneSeedPerPath
    <3>3. \A i \in 1..Len(current') : current'[i] \in Rows(current')
      BY <3>2 DEF Rows
    <3>4. Listed' \subseteq QueuedRows' /\ QueuedRows' = QueuedRows
      BY <3>1, <3>2, <3>3 DEF Listed, QueuedRows
    <3>5. Listed = {}
      BY <3>1 DEF Listed
    <3> QED BY <1>2, <3>4, <3>5
  <2>2. CASE UNCHANGED <<current, depth>>
    BY <1>3, <1>7, <2>2 DEF FinishReset, queueVars
  <2> QED BY <1>7, <2>1, <2>2 DEF FinishReset, CreateCurrentSeedList
<1>8. ASSUME NEW a \in Actions, BeginStep(a)
      PROVE  Further(s, r)
  BY <1>3, <1>8 DEF BeginStep, queueVars, cycleVars
<1>9. ASSUME NEW n \in Lens, NEW p \in Paths, NEW crash \in BOOLEAN, Probe(n, p, crash)
      PROVE  FALSE
  BY <1>9 DEF Probe, IInv, TypeOK
<1>10. CASE EndStep
  BY <1>10, EndStepAdvances
<1> QED BY <1>4, <1>5, <1>6, <1>7, <1>8, <1>9, <1>10 DEF Next, Step

\* For any paths, lengths and numbers of tries: the steps of depth 1 lead to its end.  Lengths cannot
\* shrink nor tries be used for ever.
THEOREM DepthOneAdvances == Spec => CycleAdvances
<1>1. ASSUME IInv, SplitOK, IInv', SplitOK', Next, depth = 1, depth' = 1
      PROVE  /\ \A r \in NextRows, s \in NextRows' : r.path = s.path => Further(s, r)
             /\ phase = "fuzzing" /\ phase' = "ready" =>
                  \E s \in NextRows' :
                    s.path = row.path /\ s.len = row.len /\ s.tried[action] > row.tried[action]
  <2>1. phase = "fuzzing" /\ phase' = "ready" => EndStep
    BY <1>1 DEF Next, Step, Reset, LoadSeed, FinishReset, BeginStep, Try, Probe
  <2> QED BY <1>1, <2>1, StepAdvances, EndStepAdvances
<1>2. (IInv /\ SplitOK) /\ (IInv /\ SplitOK)' /\ [Next]_vars =>
        [depth = 1 /\ depth' = 1 =>
           /\ \A r \in NextRows, s \in NextRows' :
                r.path = s.path =>
                  s.len < r.len \/ (s.len = r.len /\ \A a \in Actions : s.tried[a] >= r.tried[a])
           /\ phase = "fuzzing" /\ phase' = "ready" =>
                \E s \in NextRows' :
                  /\ s.path = row.path
                  /\ s.len < row.len \/ (s.len = row.len /\ s.tried[action] > row.tried[action])]_vars
  BY <1>1 DEF Further
<1> QED BY <1>2, SplitInvariant, PTL DEF Spec, CycleAdvances

=============================================================================
