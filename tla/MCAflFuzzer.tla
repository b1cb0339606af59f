---------------------------- MODULE MCAflFuzzer ----------------------------
(* Instances of AflFuzzer: two edges, seven inputs, and eight campaigns.    *)
EXTENDS AflFuzzer

MCEdges == {1, 2}

Trace(a, b) == [e \in Edges |-> IF e = 1 THEN a ELSE b]
Ok(a, b)    == [trace |-> Trace(a, b), fault |-> "OK"]
Hang(a, b)  == [trace |-> Trace(a, b), fault |-> "TMOUT"]
Crash(a, b) == [trace |-> Trace(a, b), fault |-> "CRASH"]
In(o, s)    == [len |-> 1, first |-> o, again |-> {o} \union s]

MCSeed == Trace(1, 0)

Plain   == In(Ok(1, 0), {})                            \* nothing new
Counts  == In(Ok(4, 0), {Ok(4, 1)})                    \* new hit count; now and then another edge
Fresh   == In(Ok(0, 3), {Ok(1, 3), [Ok(0, 0) EXCEPT !.fault = "ERROR"]})
Crasher == In(Crash(1, 0), {})
Broken  == In(Crash(0, 1), {Ok(0, 1)})
Slow    == In(Hang(1, 1), {Ok(0, 9), Crash(1, 1)})     \* slow once, then fine, or a crash
Empty   == [In(Ok(1, 1), {}) EXCEPT !.len = 0]

MCInputs == {Plain, Counts, Fresh, Crasher, Broken, Slow, Empty}

Options == [schedule |-> "FAST", crash_mode |-> "OK", non_instrumented_mode |-> FALSE,
            keep_timeouts |-> FALSE, no_crash_readme |-> FALSE, exec_tmout |-> 5, hang_tmout |-> 1000]
Var(n, t) == [prefix |-> "AFL_", name |-> n, text |-> t]

Base ==
  [options |-> Options, environ |-> <<>>, limits |-> [execs |-> 0, time |-> 0],
   timing |-> [given |-> 1, avg_us |-> 900, max_us |-> 1500, fixed_seed |-> FALSE],
   inputs |-> MCInputs, inputs_per_session |-> 3, idle_cycles |-> 0, sessions |-> 1, ticks |-> 0,
   signals |-> FALSE, kills |-> FALSE]

MCCampaigns ==
  [ \* everything an input can do; hangs are run again and kept
    outcomes |-> [Base EXCEPT !.environ = <<Var("KEEP_TIMEOUTS", "1"), Var("HANG_TMOUT", "9"),
                                            Var("FAST_CAL", "1"), Var("CAL_FAST", "")>>],
    \* -C, with a timeout that needs no second run, and numbers: a rejected one, and one given twice
    crashing |-> [Base EXCEPT !.options.crash_mode = "CRASH", !.options.exec_tmout = 1000,
                              !.inputs = {Plain, Crasher, Broken, Slow},
                              !.environ = <<Var("SYNC_TIME", "0"), Var("INPUT_LEN_MIN", "2"),
                                            Var("INPUT_LEN_MAX", "5"), Var("INPUT_LEN_MIN", "3")>>],
    \* -n: no map, so every crash and hang is kept
    blind |-> [Base EXCEPT !.options.non_instrumented_mode = TRUE, !.timing.given = 0, !.timing.avg_us = 30000,
                           !.timing.max_us = 150000, !.options.schedule = "RARE",
                           !.inputs = {Plain, Crasher, Slow}, !.signals = TRUE,
                           !.environ = <<Var("NO_CRASH_README", "1"), Var("MAPSIZES", "1")>>],
    \* three sessions with a limit on executions, killed and resumed
    resumed |-> [Base EXCEPT !.sessions = 3, !.inputs = {Counts}, !.inputs_per_session = 2,
                             !.idle_cycles = 1, !.ticks = 1, !.kills = TRUE, !.limits.execs = 4,
                             !.timing.given = 0],
    \* two sessions, stopped by a signal, with skipped inputs
    stopped |-> [Base EXCEPT !.sessions = 2, !.inputs = {Counts, Slow},
                             !.inputs_per_session = 2, !.ticks = 1, !.signals = TRUE,
                             !.timing.given = 0, !.timing.avg_us = 60000],
    \* timers, and the environment's reasons to stop
    timed |-> [Base EXCEPT !.inputs = {Fresh, Crasher}, !.inputs_per_session = 2, !.idle_cycles = 2,
                           !.ticks = 4, !.limits.time = 3,
                           !.environ = <<Var("EXIT_ON_TIME", "2"), Var("BENCH_UNTIL_CRASH", "1"),
                                         Var("EXIT_WHEN_DONE", "1"), Var("PIZZA_MODE", "1"),
                                         [prefix |-> "USE_", name |-> "NO_UI", text |-> "1"]>>],
    \* a schedule that has no frequencies
    explore |-> [Base EXCEPT !.options.schedule = "EXPLORE", !.inputs = {Plain, Fresh}],
    \* a number with no text
    refused |-> [Base EXCEPT !.environ = <<Var("PIZZA_MODE", "")>>] ]
ExploreOnly == [c \in {"explore"} |-> MCCampaigns[c]]
=============================================================================
