----------------------------- MODULE SeedCorpus -----------------------------
(***************************************************************************)
(* What a CTFuzz environment promises about its seeds, whatever queues and *)
(* schedules it keeps them in: one seed per execution path, a path is      *)
(* taken only when it is new to the corpus, and no path is lost before     *)
(* reset() starts afresh.                                                  *)
(***************************************************************************)
CONSTANTS Edges,       \* the entries of the coverage map
          Paths        \* the coverage an execution may have

VARIABLES corpus,      \* the paths for which a seed is kept
          virgin       \* the edges covered so far

vars == <<corpus, virgin>>

Init == corpus = {} /\ virgin = {}

\* An execution that earns a reward: new edges, or a crash on an unseen path.
Add(p) ==
  /\ p \in Paths \ corpus
  /\ corpus' = corpus \cup {p}
  /\ virgin' = virgin \cup p

Clear ==
  /\ corpus' = {}
  /\ virgin' = {}

Next == Clear \/ \E p \in Paths : Add(p)

Spec == Init /\ [][Next]_vars
=============================================================================
