------------------------------ MODULE AflStats ------------------------------
(***************************************************************************)
(* The statistics of CTFuzz's afl-fuzz (afl-fuzz-stats.c): show_stats, the *)
(* files it writes every now and then, what a later session loads of them, *)
(* and the conditions under which it ends the fuzzing.                     *)
(*                                                                         *)
(* Time is counted in ticks of a minute.  fopen truncates fuzzer_stats     *)
(* and fclose writes it: the file is "torn" in between.  The screen is not *)
(* modelled, nor are the figures only shown on it.                         *)
(***************************************************************************)
EXTENDS Integers, AflBitmap, AflEnvironment

CONSTANTS UiPeriod, StatsPeriod, PlotPeriod, PlotWarmup,  \* in ticks
          TimeoutRound,                                   \* EXEC_TM_ROUND
          IdleCycles                                      \* cycles without finds to be done

ASSUME PeriodAssumption ==
  /\ UiPeriod \in Nat /\ StatsPeriod \in Nat /\ PlotPeriod \in Nat /\ PlotWarmup \in Nat
  /\ TimeoutRound \in Nat \ {0} /\ IdleCycles \in Nat

VARIABLES
  settings,                      \* what read_afl_environment made of the environment
  limits,                        \* -E and -V: executions and ticks, 0 for none
  now, start_time, prev_run_time, last_find_time,
  stats_last_ms, stats_last_stats_ms, stats_last_plot_ms,
  queue_cycle, cycles_wo_finds, prev_queued,
  force_ui_update,
  plot_prev,                     \* what the latest row of the plot was about
  stats_file, plot_file, bitmap_file,    \* files: fuzzer_stats, plot_data (latest row), fuzz_bitmap
  spc                            \* control point of show_stats

clockVars == <<now, start_time, prev_run_time, last_find_time>>
timerVars == <<stats_last_ms, stats_last_stats_ms, stats_last_plot_ms>>
cycleVars == <<queue_cycle, cycles_wo_finds, prev_queued>>
diskVars  == <<stats_file, plot_file, bitmap_file>>
statsVars == <<settings, limits, clockVars, timerVars, cycleVars, force_ui_update, plot_prev,
               diskVars, spc>>

NoFile == [run_time |-> 0]       \* the file is not there
Torn   == [run_time |-> 1]       \* the file is there and empty
NoRow  == [cycles |-> "none", last |-> FALSE, stop |-> 0]
IsStats(f) == f \notin {NoFile, Torn}

RunTime    == (prev_run_time + now) - start_time
CyclesDone == IF queue_cycle = 0 THEN 0 ELSE queue_cycle - 1
Pending    == IF queue_cycle <= 1 THEN Len(queue) ELSE Len(queue) - prev_queued

(* ---- show_init_stats ----------------------------------------------------- *)

MaxOf(a, b) == IF a > b THEN a ELSE b
MinOf(a, b) == IF a < b THEN a ELSE b

\* Fault: the slowest seed is not looked at.
CalibratedTimeoutOfAverage(avg_us, max_us, fixed_seed) ==
  LET factor == IF fixed_seed \/ avg_us <= 10000 THEN 5 ELSE IF avg_us <= 50000 THEN 3 ELSE 2
  IN MinOf(ExecTimeout, ((((avg_us * factor) \div 1000) + TimeoutRound) \div TimeoutRound) * TimeoutRound)

\* 5 times the average of the calibration, less for slow targets, at least the slowest seed,
\* rounded up; times in microseconds, the timeout in milliseconds
CalibratedTimeout(avg_us, max_us, fixed_seed) ==
  LET factor == IF fixed_seed \/ avg_us <= 10000 THEN 5 ELSE IF avg_us <= 50000 THEN 3 ELSE 2
      raw    == MaxOf((avg_us * factor) \div 1000, max_us \div 1000)
  IN MinOf(ExecTimeout, ((raw + TimeoutRound) \div TimeoutRound) * TimeoutRound)

\* t.given is timeout_given: 1 says -t was there, otherwise the calibration decides
InitTimeouts(o, t, s) ==
  LET exec == IF t.given # 1 THEN CalibratedTimeout(t.avg_us, t.max_us, t.fixed_seed) ELSE o.exec_tmout
      hang == IF s.text["HANG_TMOUT"] # "" THEN Atoi(s.text["HANG_TMOUT"]) ELSE ExecTimeout
  IN [o EXCEPT !.exec_tmout = exec,
               !.hang_tmout = IF o.non_instrumented_mode /\ s.text["HANG_TMOUT"] = ""
                                THEN MinOf(ExecTimeout, exec * 2 + 100) ELSE hang,
               !.keep_timeouts = "KEEP_TIMEOUTS" \in s.on,
               !.no_crash_readme = s.number["NO_CRASH_README"] = 1]

(* ---- fuzzer_stats: written by name, loaded by line number ------------------ *)

\* Fault: the line CTFuzz added comes before the ones that are loaded.
StatsLinesShifted ==
  <<"start_time", "last_update", "run_time", "fuzzer_pid", "unique_path", "cycles_done",
    "cycles_wo_finds", "execs_done", "execs_per_sec", "execs_ps_last_min", "corpus_count",
    "corpus_favored", "corpus_found", "corpus_imported", "corpus_variable", "max_depth", "cur_item",
    "pending_favs", "pending_total", "stability", "bitmap_cvg", "saved_crashes", "saved_hangs">>

StatsLines ==
  <<"start_time", "last_update", "run_time", "fuzzer_pid", "cycles_done", "cycles_wo_finds",
    "execs_done", "execs_per_sec", "execs_ps_last_min", "unique_path", "corpus_count",
    "corpus_favored", "corpus_found", "corpus_imported", "corpus_variable", "max_depth", "cur_item",
    "pending_favs", "pending_total", "stability", "bitmap_cvg", "saved_crashes", "saved_hangs",
    "last_find", "last_crash", "last_hang", "execs_since_crash">>

\* what write_stats_file prints, as far as it is modelled
StatsNow ==
  [run_time |-> RunTime, cycles_done |-> CyclesDone, cycles_wo_finds |-> cycles_wo_finds,
   execs_done |-> total_execs, unique_path |-> total_unique_path, corpus_count |-> Len(queue),
   saved_crashes |-> saved_crashes, saved_hangs |-> saved_hangs,
   edges_found |-> count_non_255_bytes(seen)]

\* the number in line n of file f, if the line has that key; else the old value.
\* The keys of lines 21 and 22 are a blank short in the reader, so that they never compare equal.
Line(f, n, key, old) ==
  IF IsStats(f) /\ StatsLines[n] = key /\ n \notin {21, 22} THEN f[key] ELSE old

LoadedCycles == Line(stats_file, 5, "cycles_done", 0)

LoadStatsInCycle(cycle) ==
  /\ prev_run_time' = Line(stats_file, 3, "run_time", prev_run_time)
  /\ queue_cycle' = cycle
  /\ total_execs' = Line(stats_file, 7, "execs_done", total_execs)
  /\ saved_crashes' = Line(stats_file, 21, "saved_crashes", saved_crashes)
  /\ saved_hangs' = Line(stats_file, 22, "saved_hangs", saved_hangs)
  /\ WriteCrashReadme(saved_crashes' # 0)

\* Fault: the cycle that was running is taken for one less than those done.
LoadStatsEarlierCycle == LoadStatsInCycle(LoadedCycles - 1)

\* the cycle after the ones done, which starts anew.  Lines 10 and 12 to 14 never have the key they
\* are read for, since a line was added before them; what they would restore is not modelled.
LoadStats == LoadStatsInCycle(IF LoadedCycles = 0 THEN 0 ELSE LoadedCycles + 1)

\* write_stats_file: create_ffile, and later fclose
TruncateStats == stats_file' = Torn
FillStats     == stats_file' = StatsNow

\* write_bitmap
WriteBitmap ==
  /\ bitmap_changed' = FALSE
  /\ bitmap_file' = IF bitmap_changed THEN seen ELSE bitmap_file

(* ---- show_stats ------------------------------------------------------------ *)

TimeLimit == limits.time # 0 /\ limits.time < now - start_time
\* Fault: the limit has to be met exactly.
ExecLimitMet == limits.execs # 0 /\ limits.execs = total_execs

ExecLimit == limits.execs # 0 /\ limits.execs <= total_execs

\* the limits are looked at before anything else, then an update made too early is left out
ShowStats ==
  LET early == now - stats_last_ms < UiPeriod /\ ~force_ui_update
      write == /\ ~options.non_instrumented_mode
               /\ force_ui_update \/ now - stats_last_stats_ms > StatsPeriod
  IN /\ spc = "called"
     /\ stop_soon' = IF TimeLimit \/ ExecLimit THEN 2 ELSE stop_soon
     /\ stats_last_ms' = IF early THEN stats_last_ms ELSE now
     /\ IF ~early /\ write
          THEN stats_last_stats_ms' = now /\ TruncateStats /\ spc' = "writing"
          ELSE UNCHANGED <<stats_last_stats_ms, stats_file>> /\ spc' = IF early THEN "none" ELSE "rest"
     /\ UNCHANGED <<stats_last_plot_ms, plot_file, bitmap_file>>

WriteFiles ==
  /\ spc = "writing" /\ spc' = "rest"
  /\ FillStats /\ WriteBitmap
  /\ UNCHANGED <<timerVars, plot_file, stop_soon>>

\* maybe_update_plot_file
PlotState == <<Len(queue), queue_cycle, saved_crashes, saved_hangs, total_execs>>
PlotRow   == [cycles |-> IF queue_cycle = 0 THEN "wrapped" ELSE "counted", last |-> force_ui_update,
              stop |-> stop_soon]

\* Fault: rows are written from the start on.
NoPlotUnlessChanged == ~force_ui_update /\ (stop_soon # 0 \/ plot_prev = PlotState)

NoPlot    == /\ ~force_ui_update
             /\ \/ stop_soon # 0 \/ plot_prev = PlotState \/ queue_cycle = 0
                \/ now - start_time <= PlotWarmup
MaybeUpdatePlot ==
  IF NoPlot THEN UNCHANGED <<plot_prev, plot_file>> ELSE plot_prev' = PlotState /\ plot_file' = PlotRow

\* in show_stats_pizza only
NoFindYet(limit) == settings.number["PIZZA_MODE"] # 0 /\ last_find_time = 0 /\ RunTime > limit

\* AFL_EXIT_WHEN_DONE, AFL_EXIT_ON_TIME and AFL_BENCH_UNTIL_CRASH
Done ==
  \/ /\ ~options.non_instrumented_mode /\ "EXIT_WHEN_DONE" \in settings.on
     /\ cycles_wo_finds > IdleCycles /\ Pending = 0
  \/ /\ ~options.non_instrumented_mode /\ settings.text["EXIT_ON_TIME"] # ""
     /\ LET limit == Atoi(settings.text["EXIT_ON_TIME"])
        IN (last_find_time # 0 /\ now - last_find_time > limit) \/ NoFindYet(limit)
  \/ total_crashes # 0 /\ "BENCH_UNTIL_CRASH" \in settings.on

ShowRest ==
  LET due == force_ui_update \/ now - stats_last_plot_ms > PlotPeriod
  IN /\ spc = "rest" /\ spc' = "none"
     /\ IF due THEN stats_last_plot_ms' = now /\ MaybeUpdatePlot
               ELSE UNCHANGED <<stats_last_plot_ms, plot_prev, plot_file>>
     /\ stop_soon' = IF Done THEN 2 ELSE stop_soon
     /\ UNCHANGED <<stats_last_ms, stats_last_stats_ms, stats_file, bitmap_file>>
=============================================================================
