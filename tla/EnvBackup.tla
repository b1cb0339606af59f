------------------------------ MODULE EnvBackup ------------------------------
(***************************************************************************)
(* save_env, load_env and load_env_in_reset of CTFuzz2Env, with what       *)
(* Python shares: a checklist is an object, a row refers to one, and the   *)
(* queues of an environment and of a backup may be the same lists.         *)
(*                                                                         *)
(* The scheduling is that of CTFuzz2Env, cut down: one action, inputs of   *)
(* one length, one execution a step, every new path rewarded, equal        *)
(* coverage.                                                               *)
(* current_seed is never changed in place, so it is a value.               *)
(*                                                                         *)
(* Bounds: MaxLists checklists, MaxStores sets of lists.                   *)
(***************************************************************************)
EXTENDS Naturals, Sequences, SequencesExt, TLC

CONSTANTS Paths, Seeds, MaxTry, MaxLists, MaxStores

VARIABLES
  uses,          \* the checklists made so far: how often the action was used
  stores,        \* sets of lists made so far: unique_path, seed_queue, seed_queue_2
  env,           \* the environment: its lists (a number) and its scalars
  need_load_env, env_backup,
  raised,        \* an exception ended the run
  saved, copied  \* history: what save_env saw, and whether env was just restored from it by copy

vars == <<uses, stores, env, need_load_env, env_backup, raised, saved, copied>>

None      == <<>>
NewStores == [unique |-> {}, queue |-> <<>>, queue2 |-> <<>>]
Scalars   == [current |-> <<>>, index |-> 1, local_step |-> 0, depth |-> 1, saved_input |-> None]

Mine     == stores[env.lists]
PathOf(q) == {q[k].path : k \in DOMAIN q}
Without(q, p) == SelectSeq(q, LAMBDA r : r.path # p)
Replaced(q, row) == [k \in DOMAIN q |-> IF q[k].path = row.path THEN row ELSE q[k]]

(* ---- one step of the agent ---------------------------------------------- *)

\* push_to_queue and add_to_unique_path: a rewarded input with a path that is new
Push(lists, found, checks) ==
  [lists EXCEPT !.unique = @ \union {found},
                !.queue = IF found \in lists.unique THEN @
                          ELSE Append(@, [path |-> found, checks |-> checks])]

\* update_seed_queue
Update(lists, row, drop) ==
  IF row.path \in PathOf(lists.queue)
  THEN IF drop
       THEN [lists EXCEPT !.queue = Without(@, row.path), !.queue2 = Append(@, row)]
       ELSE [lists EXCEPT !.queue = Replaced(@, row)]
  ELSE [lists EXCEPT !.queue2 = Replaced(@, row)]

\* the end of a step: on to the next row, or to a new list
Next(lists, e) ==
  LET on == [e EXCEPT !.index = @ + 1, !.local_step = 0]
  IN IF on.index <= Len(e.current) THEN on
     ELSE IF lists.queue # <<>> THEN [on EXCEPT !.index = 1, !.current = lists.queue]
     ELSE [on EXCEPT !.index = 1, !.current = lists.queue2, !.depth = 2]

\* local_step + 1 = depth.  A tuple of one is read here only if the copied backup was saved between
\* a probe and its full step; otherwise the next probe has overwritten it.
FullStep ==
  /\ env.local_step + 1 = env.depth
  /\ IF env.local_step = 1 /\ env.saved_input.tuple
     THEN raised' = TRUE /\ UNCHANGED <<uses, stores, env>>
     ELSE LET row == IF env.local_step = 0 THEN env.current[env.index] ELSE env.saved_input.row
          IN IF uses[row.checks] >= MaxTry
             THEN raised' = TRUE /\ UNCHANGED <<uses, stores, env>>
             ELSE \E found \in Paths :
                    LET used  == [uses EXCEPT ![row.checks] = @ + 1]
                        grown == IF found \in Mine.unique THEN used ELSE Append(used, 0)
                        lists == Update(Push(Mine, found, Len(grown)), row, used[row.checks] >= MaxTry)
                    IN /\ Len(grown) <= MaxLists
                       /\ uses' = grown
                       /\ stores' = [stores EXCEPT ![env.lists] = lists]
                       /\ env' = Next(lists, env)
                       /\ UNCHANGED raised

\* the first half of a step at depth 2: one input, kept with a checklist of its own
Probe ==
  /\ env.local_step + 1 # env.depth
  /\ Len(uses) < MaxLists
  /\ uses' = Append(uses, 0)
  /\ \E found \in Paths :
       /\ stores' = [stores EXCEPT ![env.lists] = Push(Mine, found, Len(uses'))]
       /\ env' = [env EXCEPT !.local_step = 1,
                             !.saved_input = [tuple |-> FALSE,
                                              row |-> [path |-> found, checks |-> Len(uses')]]]
  /\ UNCHANGED raised

Step ==
  /\ ~raised /\ env.current # <<>>
  /\ FullStep \/ Probe
  /\ copied' = FALSE
  /\ UNCHANGED <<need_load_env, env_backup, saved>>

(* ---- backups -------------------------------------------------------------- *)

\* what a step can see of environment e with the lists l
Snapshot(l, e, used) ==
  LET seen(q) == [k \in DOMAIN q |-> <<q[k].path, used[q[k].checks]>>]
  IN <<l.unique, seen(l.queue), seen(l.queue2), seen(e.current), e.index, e.local_step, e.depth,
       IF e.local_step = 0 THEN None ELSE e.saved_input>>

\* the lists are copied, the rows in them are not.  Backups are made while none is to be loaded.
SaveEnv ==
  /\ ~raised /\ env.current # <<>> /\ need_load_env = 0 /\ Len(stores) < MaxStores
  /\ IF env.saved_input # None /\ env.saved_input.tuple
     THEN raised' = TRUE /\ UNCHANGED <<stores, env_backup, saved>>     \* a tuple has no copy()
     ELSE /\ stores' = Append(stores, Mine)
          /\ env_backup' = [env EXCEPT !.lists = Len(stores')]
          /\ saved' = Snapshot(Mine, env, uses)
          /\ UNCHANGED raised
  /\ copied' = FALSE
  /\ UNCHANGED <<uses, env, need_load_env>>

\* load_env with the latest backup, or set_load_env
LoadEnv(flag) ==
  /\ ~raised /\ env_backup # None /\ need_load_env # flag
  /\ need_load_env' = flag /\ copied' = FALSE
  /\ UNCHANGED <<uses, stores, env, env_backup, raised, saved>>

\* saved_input = ... if ... else None, with a comma after it
Tupled(v) == [tuple |-> TRUE, row |-> IF v = None THEN None ELSE v.row]

Reset ==
  /\ ~raised
  /\ \/ /\ need_load_env = 0 \/ env_backup = None
        /\ Len(stores) < MaxStores /\ Len(uses) + Len(Seeds) <= MaxLists
        /\ LET rows == [k \in DOMAIN Seeds |-> [path |-> Seeds[k], checks |-> Len(uses) + k]]
           IN /\ uses' = uses \o [k \in DOMAIN Seeds |-> 0]
              /\ stores' = Append(stores, [NewStores EXCEPT !.unique = ToSet(Seeds), !.queue = rows])
              /\ env' = [lists |-> Len(stores')] @@ [Scalars EXCEPT !.current = rows]
        /\ copied' = FALSE
     \/ /\ need_load_env = 1 /\ env_backup # None
        /\ env' = env_backup /\ copied' = FALSE
        /\ UNCHANGED <<uses, stores>>
     \/ /\ need_load_env = 2 /\ env_backup # None /\ Len(stores) < MaxStores
        /\ stores' = Append(stores, stores[env_backup.lists])
        /\ env' = [env_backup EXCEPT !.lists = Len(stores'), !.saved_input = Tupled(@)]
        /\ copied' = TRUE /\ UNCHANGED uses
  /\ UNCHANGED <<need_load_env, env_backup, raised, saved>>

Init ==
  /\ uses = <<>> /\ stores = <<NewStores>>
  /\ env = [lists |-> 1] @@ Scalars
  /\ need_load_env = 0 /\ env_backup = None
  /\ raised = FALSE /\ saved = None /\ copied = FALSE

BackupNext == Step \/ SaveEnv \/ Reset \/ \E flag \in 0..2 : LoadEnv(flag)

Spec == Init /\ [][BackupNext]_vars

(* ---- properties ----------------------------------------------------------- *)

\* "2 copy env" (line 121): after a reset that copies the backup, the environment is as it was when
\* the backup was saved: the same rows, used as often, and the same step half done.  Nothing that
\* was tried since then shows in it.
CopiedAsSaved == copied => Snapshot(Mine, env, uses) = saved
=============================================================================
