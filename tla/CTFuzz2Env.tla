----------------------------- MODULE CTFuzz2Env -----------------------------
(***************************************************************************)
(* The seed scheduler of ct_fuzz_2_env.py: two queues of seeds, the list   *)
(* of the seeds scheduled in the current cycle, and the two kinds of step  *)
(* (depth 1: mutate the scheduled seed; depth 2: mutate it once, then      *)
(* mutate the result).                                                     *)
(*                                                                         *)
(* An input is known by its length only and an execution of the target by  *)
(* the set of edges it covers (the hash of the coverage map stands for     *)
(* that set) and whether it crashed.  How many inputs the mutator offers   *)
(* for a step, and which, is left open within MaxTry and Lens.             *)
(***************************************************************************)
EXTENDS Naturals, Sequences, FiniteSets, SequencesExt

CONSTANTS Edges,          \* indices of the coverage map
          Paths,          \* the coverage maps an execution may produce
          Lens,           \* lengths of inputs
          Actions,        \* the mutation actions
          ActionMaxTry,   \* ACTION_MAX_TRY
          NumSeeds,       \* len(self._seed)
          MaxTry,         \* bound on the inputs the mutator offers for one step
          StopSoon,       \* self.stop_soon
          MaxResets       \* bound on the calls of reset()

ASSUME EnvAssumption ==
  /\ Paths \subseteq SUBSET Edges
  /\ IsFiniteSet(Edges)
  /\ Lens \subseteq Nat
  /\ Actions # {} /\ "none" \notin Actions
  /\ ActionMaxTry \in [Actions -> Nat \ {0}]
  /\ NumSeeds \in Nat \ {0}
  /\ MaxTry \in Nat
  /\ StopSoon \in Nat
  /\ MaxResets \in Nat \ {0}

VARIABLES
  phase,        \* "new", "loading", "ready", "fuzzing" (inside a step) or "exited"
  virgin,       \* virgin_map: the edges covered so far
  uniquePath,   \* unique_path: hashes of the paths seen
  queue,        \* seed_queue
  queue2,       \* seed_queue_2: seeds on which every action is used up
  current,      \* current_seed: the rows scheduled in this cycle
  index,        \* index into current, from 1
  localStep,    \* local_step
  depth,        \* depth
  savedInput,   \* saved_input: what the probe of a depth 2 step produced, or NoRow
  seeds,        \* seeds that load_seed_to_queue has still to run
  row,          \* info_seed of the step in progress, or NoRow
  action,       \* action of the step in progress, or NoAction
  tries,        \* max_try: inputs left in the step in progress
  idle,         \* total_try - local_last_find in the step in progress
  resets        \* bound: calls of reset() so far

queueVars == <<virgin, uniquePath, queue, queue2>>
cycleVars == <<current, index, localStep, depth, savedInput>>
stepVars  == <<row, action, tries, idle>>
vars == <<phase, queueVars, cycleVars, seeds, stepVars, resets>>

-----------------------------------------------------------------------------
(* Rows of a queue: [seed, action checklist, exec_time, coverage, hash].   *)

Row == [len : Lens, tried : [Actions -> Nat], path : Paths]

NoRow == [len |-> 0, tried |-> <<>>, path |-> {}]

NoAction == "none"

\* create_info with no checklist
Fresh(n, p) == [len |-> n, tried |-> [a \in Actions |-> 0], path |-> p]

ValidActions(r) == {a \in Actions : r.tried[a] < ActionMaxTry[a]}

Rows(q) == {q[i] : i \in DOMAIN q}

PathsOf(q) == {q[i].path : i \in DOMAIN q}

DistinctPaths(q) == \A i, j \in DOMAIN q : q[i].path = q[j].path => i = j

\* The position of the row with a path, and the queue without that row.
Position(q, p) == CHOOSE i \in DOMAIN q : q[i].path = p

Without(q, p) == RemoveAt(q, Position(q, p))

ReplaceRow(q, r) == [q EXCEPT ![Position(q, r.path)] = r]

-----------------------------------------------------------------------------
(* The queue operations, as the values of the two queues afterwards.       *)

\* Fault: a row is replaced by one of the same length, too.
PushToQueueSameLength(r) ==
  IF r.path \notin uniquePath
  THEN <<Append(queue, r), queue2>>
  ELSE IF r.path \in PathsOf(queue)
  THEN IF queue[Position(queue, r.path)].len >= r.len
       THEN <<ReplaceRow(queue, r), queue2>>
       ELSE <<queue, queue2>>
  ELSE <<queue, queue2>>

\* push_to_queue.  A path is recorded in uniquePath without being queued when
\* an execution earns no reward; such a path is not queued later either.
PushToQueue(r) ==
  IF r.path \notin uniquePath
  THEN <<Append(queue, r), queue2>>
  ELSE IF r.path \in PathsOf(queue)
  THEN IF queue[Position(queue, r.path)].len > r.len
       THEN <<ReplaceRow(queue, r), queue2>>
       ELSE <<queue, queue2>>
  ELSE IF r.path \in PathsOf(queue2)
  THEN IF queue2[Position(queue2, r.path)].len > r.len
       THEN <<Append(queue, r), Without(queue2, r.path)>>
       ELSE <<queue, queue2>>
  ELSE <<queue, queue2>>

\* Fault: a row that is used up is copied to queue2 and stays in queue.
UpdateCopiesRow(r, drop) ==
  IF r.path \in PathsOf(queue)
  THEN <<ReplaceRow(queue, r), IF drop THEN Append(queue2, r) ELSE queue2>>
  ELSE IF r.path \in PathsOf(queue2)
  THEN <<queue, ReplaceRow(queue2, r)>>
  ELSE <<queue, queue2>>

\* Fault: a row that is used up is deleted.
UpdateDeletesRow(r, drop) ==
  IF r.path \in PathsOf(queue)
  THEN <<IF drop THEN Without(queue, r.path) ELSE ReplaceRow(queue, r), queue2>>
  ELSE <<queue, queue2>>

\* Fault: a row that is used up stays where it is.
UpdateNeverDrops(r, drop) ==
  IF r.path \in PathsOf(queue)
  THEN <<ReplaceRow(queue, r), queue2>>
  ELSE <<queue, queue2>>

\* update_seed_queue: the row is overwritten, whatever it has become meanwhile.
UpdateSeedQueue(r, drop) ==
  IF r.path \in PathsOf(queue)
  THEN IF drop
       THEN <<Without(queue, r.path), Append(queue2, r)>>
       ELSE <<ReplaceRow(queue, r), queue2>>
  ELSE IF r.path \in PathsOf(queue2)
  THEN <<queue, ReplaceRow(queue2, r)>>
  ELSE <<queue, queue2>>

SetQueues(queues) ==
  /\ queue' = queues[1]
  /\ queue2' = queues[2]

\* tmp.sort(key = -coverage) is stable: the orders of q that it may produce
\* (there is exactly one).
SortedOrders(q) ==
  {o \in [DOMAIN q -> DOMAIN q] :
     \A i, j \in DOMAIN q : i < j =>
       LET before == Cardinality(q[o[i]].path)
           after == Cardinality(q[o[j]].path)
       IN  before > after \/ (before = after /\ o[i] < o[j])}

-----------------------------------------------------------------------------
TypeOK ==
  /\ phase \in {"new", "loading", "ready", "fuzzing", "exited"}
  /\ virgin \subseteq Edges
  /\ uniquePath \subseteq Paths
  /\ queue \in Seq(Row)
  /\ queue2 \in Seq(Row)
  /\ current \in Seq(Row)
  /\ index \in Nat
  /\ localStep \in 0..1
  /\ depth \in 1..2
  /\ savedInput \in Row \cup {NoRow}
  /\ seeds \in 0..NumSeeds
  /\ row \in Row \cup {NoRow}
  /\ action \in Actions \cup {NoAction}
  /\ tries \in 0..MaxTry
  /\ idle \in Nat
  /\ resets \in 0..MaxResets

Init ==
  /\ phase = "new"
  /\ virgin = {}
  /\ uniquePath = {}
  /\ queue = << >>
  /\ queue2 = << >>
  /\ current = << >>
  /\ index = 1
  /\ localStep = 0
  /\ depth = 1
  /\ savedInput = NoRow
  /\ seeds = 0
  /\ row = NoRow
  /\ action = NoAction
  /\ tries = 0
  /\ idle = 0
  /\ resets = 0

-----------------------------------------------------------------------------
(* What the coverage of an execution changes.                              *)

\* Fault: the hash is recorded before the row is pushed, which then finds it.
LearnHashFirst(n, p, rewarded) ==
  /\ virgin' = virgin \cup p
  /\ uniquePath' = uniquePath \cup {p}
  /\ IF rewarded /\ p \in uniquePath
     THEN SetQueues(PushToQueue(Fresh(n, p)))
     ELSE UNCHANGED <<queue, queue2>>

\* add_to_virgin_map, then push_to_queue if there is a reward (new edges, or
\* 100 for a crash), else add_to_unique_path.
Learn(n, p, rewarded) ==
  /\ virgin' = virgin \cup p
  /\ uniquePath' = uniquePath \cup {p}
  /\ IF rewarded
     THEN SetQueues(PushToQueue(Fresh(n, p)))
     ELSE UNCHANGED <<queue, queue2>>

NewEdges(p) == ~(p \subseteq virgin)

-----------------------------------------------------------------------------
(* create_current_seed_list and the move to the next row.                  *)

\* Fault: the depth is incremented instead of set.
CreateListDeeper(q, q2) ==
  /\ phase' = "ready"
  /\ IF q # << >>
     THEN current' = q /\ UNCHANGED depth
     ELSE current' = q2 /\ depth' = depth + 1

\* The list is made from queue or, when that is empty, from queue2: then the
\* depth becomes 2, and nothing but reset() makes it 1 again.  With no seed in
\* either, the process exits.
CreateCurrentSeedList(q, q2) ==
  \/ /\ q # << >>
     /\ \E o \in SortedOrders(q) : current' = [i \in DOMAIN q |-> q[o[i]]]
     /\ phase' = "ready"
     /\ UNCHANGED depth
  \/ /\ q = << >>
     /\ q2 # << >>
     /\ \E o \in SortedOrders(q2) : current' = [i \in DOMAIN q2 |-> q2[o[i]]]
     /\ phase' = "ready"
     /\ depth' = 2
  \/ /\ q = << >>
     /\ q2 = << >>
     /\ phase' = "exited"
     /\ UNCHANGED <<current, depth>>

\* Fault: the index is not set back for the new list.
NextRowKeepsIndex ==
  /\ index' = index + 1
  /\ IF index < Len(current)
     THEN phase' = "ready" /\ UNCHANGED <<current, depth>>
     ELSE CreateCurrentSeedList(queue', queue2')

NextRow ==
  IF index < Len(current)
  THEN /\ index' = index + 1
       /\ phase' = "ready"
       /\ UNCHANGED <<current, depth>>
  ELSE /\ index' = 1
       /\ CreateCurrentSeedList(queue', queue2')

-----------------------------------------------------------------------------
(* reset(): forget everything, run the seeds, build the first list.        *)

Reset ==
  /\ phase \in {"new", "ready"}
  /\ resets < MaxResets
  /\ resets' = resets + 1
  /\ phase' = "loading"
  /\ seeds' = NumSeeds
  /\ virgin' = {}
  /\ uniquePath' = {}
  /\ queue' = << >>
  /\ queue2' = << >>
  /\ current' = << >>
  /\ index' = 1
  /\ localStep' = 0
  /\ depth' = 1
  /\ savedInput' = NoRow
  /\ UNCHANGED stepVars

\* load_seed_to_queue: a crash earns nothing here.
LoadSeed(n, p) ==
  /\ phase = "loading"
  /\ seeds > 0
  /\ seeds' = seeds - 1
  /\ Learn(n, p, NewEdges(p))
  /\ UNCHANGED <<phase, cycleVars, stepVars, resets>>

\* The first list; the process exits here when no seed covered anything.
FinishReset ==
  /\ phase = "loading"
  /\ seeds = 0
  /\ CreateCurrentSeedList(queue, queue2)
  /\ UNCHANGED <<queueVars, index, localStep, savedInput, seeds, stepVars, resets>>

-----------------------------------------------------------------------------
(* step_raw with local_step + 1 = depth.                                   *)

\* The row of the step: the scheduled one, or what the probe produced.
StepRow == IF localStep = 0 THEN current[index] ELSE savedInput

\* An action that is used up is replaced by one that is not, drawn at random;
\* line 368 asserts that there is one.
PickedAction(r, a) ==
  IF a \in ValidActions(r) THEN {a} ELSE ValidActions(r)

BeginStep(a) ==
  /\ phase = "ready"
  /\ localStep + 1 = depth
  /\ phase' = "fuzzing"
  /\ row' = StepRow
  /\ action' \in PickedAction(StepRow, a)
  /\ tries' \in 0..MaxTry
  /\ idle' = 0
  /\ UNCHANGED <<queueVars, cycleVars, seeds, resets>>

\* One turn of the loop.  Leaving it early on stop_soon drops the tries left.
Try(n, p, crash) ==
  LET rewarded == NewEdges(p) \/ crash
  IN  /\ phase = "fuzzing"
      /\ tries > 0
      /\ Learn(n, p, rewarded)
      /\ idle' = IF rewarded THEN 0 ELSE idle + 1
      /\ tries' = IF idle' > StopSoon THEN 0 ELSE tries - 1
      /\ UNCHANGED <<phase, cycleVars, seeds, row, action, resets>>

EndStepWith(counted, drop) ==
  /\ phase = "fuzzing"
  /\ tries = 0
  /\ SetQueues(UpdateSeedQueue(counted, drop))
  /\ localStep' = 0
  /\ NextRow
  /\ row' = NoRow
  /\ action' = NoAction
  /\ idle' = 0
  /\ UNCHANGED <<virgin, uniquePath, savedInput, seeds, tries, resets>>

CountedRow == [row EXCEPT !.tried[action] = @ + 1]

\* Fault: a row goes to queue2 as soon as the action of the step is used up.
EndStepDropsEarly == EndStepWith(CountedRow, action \notin ValidActions(CountedRow))

\* Fault: the action is counted on a copy that is not written back.
EndStepUncounted == EndStepWith(row, ValidActions(row) = {})

\* The copy of the row taken when the step began goes back to the queues with
\* the action counted, into queue2 if that was the last one.
EndStep == EndStepWith(CountedRow, ValidActions(CountedRow) = {})

-----------------------------------------------------------------------------
(* step_raw with local_step + 1 < depth: one execution, whose input becomes *)
(* the row of the next step.                                               *)

Probe(n, p, crash) ==
  /\ phase = "ready"
  /\ localStep + 1 < depth
  /\ Learn(n, p, NewEdges(p) \/ crash)
  /\ savedInput' = Fresh(n, p)
  /\ localStep' = localStep + 1
  /\ UNCHANGED <<phase, current, index, depth, seeds, stepVars, resets>>

Step ==
  \/ \E a \in Actions : BeginStep(a)
  \/ \E n \in Lens, p \in Paths, crash \in BOOLEAN : Try(n, p, crash) \/ Probe(n, p, crash)
  \/ EndStep

Next ==
  \/ Reset
  \/ \E n \in Lens, p \in Paths : LoadSeed(n, p)
  \/ FinishReset
  \/ Step

Spec == Init /\ [][Next]_vars

\* The agent's loop (dqn.fit, dqn.test, the random drivers) calls step again as
\* soon as it returns.  Nothing obliges it to call reset again.
Fairness ==
  /\ WF_vars(\E n \in Lens, p \in Paths : LoadSeed(n, p))
  /\ WF_vars(FinishReset)
  /\ WF_vars(Step)

FairSpec == Spec /\ Fairness

-----------------------------------------------------------------------------
(* Safety.                                                                 *)

QueuedPaths == PathsOf(queue) \cup PathsOf(queue2)

\* Every edge marked in virgin_map is covered by a seed that is still queued,
\* and nothing else is marked (add_to_virgin_map 243-252 and the queues
\* 257-309 are kept in step only by the order of the calls in step_raw).
CoverageWitnessed == virgin = UNION QueuedPaths

\* The queues hold one seed per path between them (the searches by hash at
\* 261-282 and 292-307 stop at the first match and rely on it).
OneSeedPerPath ==
  /\ DistinctPaths(queue)
  /\ DistinctPaths(queue2)
  /\ PathsOf(queue) \cap PathsOf(queue2) = {}

\* The assertion at 368 holds: the row of a step about to run has an action left.
AssertValidAction ==
  phase = "ready" /\ localStep + 1 = depth => ValidActions(StepRow) # {}

\* Once reset has returned, the index stays inside the list of the cycle (358 and
\* 436 index it unchecked), and the exit of create_current_seed_list (328) is taken
\* only by a reset whose seeds covered nothing: no step ever finds both queues
\* empty, which would end the process in the middle of a run.
IndexInCycle ==
  /\ phase \in {"ready", "fuzzing"} => index \in 1..Len(current)
  /\ phase = "exited" => current = << >>

\* Line 415 "drop to queue 2 if all action is done": while the depth is 1,
\* seed_queue holds the seeds with actions left and seed_queue_2 the others.
\* (At depth 2 a probe may overwrite a row of seed_queue_2 with a fresh one.)
QueuesSplitByUse ==
  /\ \A r \in Rows(queue) : ValidActions(r) # {}
  /\ depth = 1 => \A r \in Rows(queue2) : ValidActions(r) = {}

-----------------------------------------------------------------------------
(* Action properties.                                                      *)

\* Line 304 "Compare len, time exec": a seed of seed_queue_2 is only ever
\* overwritten by one that is not longer.
Queue2OnlyShrinks ==
  [][\A r \in Rows(queue2), s \in Rows(queue2') :
       r.path = s.path => s.len <= r.len]_vars

QueuedRows == Rows(queue) \cup Rows(queue2)

\* While the depth is 1, the use made of a seed's actions is forgotten only when a shorter input
\* takes its place: neither the old row that the end of a step writes back over a newer one
\* (294-305, hence the stale copies in the list of the cycle) nor a move between the queues gives
\* tries back for nothing.
UseForgottenOnlyForShorter ==
  [][depth = 1 =>
       \A r \in QueuedRows, s \in QueuedRows' :
         r.path = s.path => s.len < r.len \/ \A a \in Actions : s.tried[a] >= r.tried[a]]_vars

\* The rows that are used next: the copies that the list of the cycle still has, and the queued rows
\* of the other paths.
NextRows ==
  LET listed == {current[i] : i \in index..Len(current)}
  IN  listed \cup {r \in QueuedRows : \A s \in listed : s.path # r.path}

\* While the depth is 1, every step of the agent brings the end of it nearer: the row that a path is
\* used by next only ever gets shorter or, at the same length, more used, and the end of a step
\* makes it so.  Of the queued rows alone this is not true: a stale copy may take the place of a
\* shorter and fresh row.  The copies in the list (316-334) are what keeps the cycles from going
\* round for ever.
CycleAdvances ==
  [][depth = 1 /\ depth' = 1 =>
       /\ \A r \in NextRows, s \in NextRows' :
            r.path = s.path =>
              s.len < r.len \/ (s.len = r.len /\ \A a \in Actions : s.tried[a] >= r.tried[a])
       /\ phase = "fuzzing" /\ phase' = "ready" =>
            \E s \in NextRows' :
              /\ s.path = row.path
              /\ s.len < row.len \/ (s.len = row.len /\ s.tried[action] > row.tried[action])]_vars

-----------------------------------------------------------------------------
(* Liveness, under FairSpec.                                               *)

\* Depth 1 comes to an end: every action of every seed is used up after
\* finitely many steps, although new and shorter seeds keep being queued.
DepthTwoReached == phase = "ready" ~> depth = 2

-----------------------------------------------------------------------------
(* Refinement.                                                             *)

Corpus == INSTANCE SeedCorpus WITH corpus <- QueuedPaths

\* The two queues implement one corpus of paths that only grows until reset().
ImplementsCorpus == Corpus!Spec
=============================================================================
