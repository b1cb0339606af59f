--------------------------- MODULE AflEnvironment ---------------------------
(***************************************************************************)
(* read_afl_environment (afl-fuzz-state.c): what the environment of        *)
(* afl-fuzz does to its settings.                                          *)
(*                                                                         *)
(* An entry of the environment is its prefix, the rest of its name, and    *)
(* its text.  get_afl_env gives NULL for an empty text, here "".  Numbers  *)
(* have one digit.                                                         *)
(***************************************************************************)
EXTENDS Naturals, Sequences, SequencesExt

Entry == [prefix : {"AFL_", "ALF_", "USE_", ""}, name : STRING, text : STRING]

(* ---- the chain of comparisons, in its order -------------------------------- *)

\* A switch turns the field of its name on or off; of a text variable the text is kept.

CampaignVariables ==
  [switches |-> {"SKIP_CPUFREQ", "EXIT_WHEN_DONE", "NO_AFFINITY", "TRY_AFFINITY", "KEEP_TIMEOUTS",
                 "SKIP_BIN_CHECK", "DUMB_FORKSRV", "IMPORT_FIRST", "CUSTOM_MUTATOR_ONLY",
                 "CMPLOG_ONLY_NEW"},
   texts    |-> {"EXIT_ON_TIME", "HANG_TMOUT"}]

ScreenAndCycleVariables ==
  [switches |-> {"NO_STARTUP_CALIBRATION", "NO_UI", "FORCE_UI", "IGNORE_PROBLEMS",
                 "I_DONT_CARE_ABOUT_MISSING_CRASHES", "BENCH_JUST_ONE", "BENCH_UNTIL_CRASH",
                 "DEBUG_CHILD", "AUTORESUME", "CYCLE_SCHEDULES", "EXIT_ON_SEED_ISSUES",
                 "EXPAND_HAVOC_NOW", "CAL_FAST", "STATSD"},
   texts    |-> {"PERSISTENT_RECORD"}]

TargetVariables ==
  {"TMPDIR", "CUSTOM_MUTATOR_LIBRARY", "PYTHON_MODULE", "PATH", "PRELOAD", "MAX_DET_EXTRAS",
   "FORKSRV_INIT_TMOUT", "TESTCACHE_SIZE", "TESTCACHE_ENTRIES", "STATSD_HOST", "STATSD_PORT",
   "STATSD_TAGS_FLAVOR", "CRASH_EXITCODE", "KILL_SIGNAL", "FORK_SERVER_KILL_SIGNAL", "TARGET_ENV"}

Switches == CampaignVariables.switches \union ScreenAndCycleVariables.switches
Texts    == CampaignVariables.texts \union ScreenAndCycleVariables.texts \union TargetVariables

\* variables that are converted at once, by atoi, which does not take NULL
Numbers == {"INPUT_LEN_MIN", "INPUT_LEN_MAX", "PIZZA_MODE", "NO_CRASH_README", "SYNC_TIME"}

\* variables that write the field of another one.  DEBUG and CMPLOG are taken for longer names
\* because only as many characters are compared as the shorter name has.
Aliases == [FAST_CAL |-> "CAL_FAST", DEBUG |-> "DEBUG_CHILD", CMPLOG |-> "CMPLOG_ONLY_NEW",
            NO_COLOR |-> "STATSD_TAGS_FLAVOR", NO_COLOUR |-> "STATSD_TAGS_FLAVOR"]

\* known names that set nothing; two stand for all
Ignored == {"SKIP_CRASHES", "MAP_SIZE"}

Known == Switches \union Texts \union Numbers \union DOMAIN Aliases \union Ignored

FieldOf(name) == IF name \in DOMAIN Aliases THEN Aliases[name] ELSE name

Atoi(text) == IF \E n \in 0..9 : ToString(n) = text THEN CHOOSE n \in 0..9 : ToString(n) = text ELSE 0

\* getenv: the text of the first entry with this name, whichever entry led to the question
GetEnv(environ, name) ==
  SelectSeq(environ, LAMBDA x : x.prefix = "AFL_" /\ x.name = name)[1].text

\* what afl_state_init leaves
DefaultSettings ==
  [on |-> {}, text |-> [x \in Texts |-> ""],
   number |-> [x \in Numbers |-> CASE x = "INPUT_LEN_MIN" -> 1 [] x = "SYNC_TIME" -> 9
                                   [] x = "INPUT_LEN_MAX" -> 9 [] OTHER -> 0],
   issue |-> FALSE, crashed |-> FALSE]

\* Fault: an empty text does not turn a switch off again, and a SYNC_TIME of 0 is taken.
ReadVariableTakingAll(s, name, text) ==
  LET f == FieldOf(name)
  IN CASE f \in Switches -> [s EXCEPT !.on = IF text = "" THEN @ ELSE @ \union {f}]
       [] f \in Texts    -> [s EXCEPT !.text[f] = text]
       [] f \in Numbers  -> IF text = "" THEN [s EXCEPT !.crashed = TRUE]
                            ELSE [s EXCEPT !.number[f] = Atoi(text)]
       [] OTHER          -> s

\* one variable of the table
ReadVariable(s, name, text) ==
  LET f == FieldOf(name)
  IN CASE f \in Switches -> [s EXCEPT !.on = IF text = "" THEN @ \ {f} ELSE @ \union {f}]
       [] f \in Texts    -> [s EXCEPT !.text[f] = text]
       [] f \in Numbers  -> IF text = "" THEN [s EXCEPT !.crashed = TRUE]
                            ELSE IF f = "SYNC_TIME" /\ Atoi(text) = 0 THEN s
                            ELSE [s EXCEPT !.number[f] = Atoi(text)]
       [] OTHER          -> s

\* one entry; deprecated names are among the unknown ones, which only earn a warning and a pause
ReadEntry(environ, s, x) ==
  IF s.crashed THEN s
  ELSE CASE x.prefix \in {"ALF_", "USE_"}            -> [s EXCEPT !.issue = TRUE]
         [] x.prefix = "AFL_" /\ x.name \in Known    -> ReadVariable(s, x.name, GetEnv(environ, x.name))
         [] x.prefix = "AFL_" /\ x.name \notin Known -> [s EXCEPT !.issue = TRUE]
         [] OTHER                                    -> s

\* all the entries in their order; read[k] is what the first k leave
ReadEnvironment(environ) ==
  LET read[k \in 0..Len(environ)] ==
        IF k = 0 THEN DefaultSettings ELSE ReadEntry(environ, read[k - 1], environ[k])
  IN read[Len(environ)]

(* ---- the same, without the loop ------------------------------------------ *)

\* a switch or a text is decided by the last entry that names it or an alias of it
LastFor(environ, f) ==
  LET about == {k \in DOMAIN environ : /\ environ[k].prefix = "AFL_" /\ environ[k].name \in Known
                                       /\ FieldOf(environ[k].name) = f}
  IN IF about = {} THEN "" ELSE
     GetEnv(environ, environ[CHOOSE k \in about : \A j \in about : j <= k].name)

\* a number by the first entry of its name, which is the one getenv finds for every entry of that
\* name; a SYNC_TIME of 0 is rejected with a warning, and the default stays
NumberFor(environ, f) ==
  LET given    == \E x \in ToSet(environ) : x.prefix = "AFL_" /\ x.name = f
      rejected == f = "SYNC_TIME" /\ Atoi(GetEnv(environ, f)) = 0
  IN IF given /\ ~rejected THEN Atoi(GetEnv(environ, f)) ELSE DefaultSettings.number[f]

SettingsOf(environ, s) ==
  /\ s.crashed <=> \E x \in ToSet(environ) : x.prefix = "AFL_" /\ x.name \in Numbers
                                             /\ GetEnv(environ, x.name) = ""
  /\ ~s.crashed =>
       /\ s.on = {f \in Switches : LastFor(environ, f) # ""}
       /\ \A f \in Texts : s.text[f] = LastFor(environ, f)
       /\ \A f \in Numbers : s.number[f] = NumberFor(environ, f)
       /\ s.issue <=> \E x \in ToSet(environ) :
            \/ x.prefix \in {"ALF_", "USE_"}
            \/ x.prefix = "AFL_" /\ x.name \notin Known
=============================================================================
