------------------------------ MODULE AflFuzzer ------------------------------
(***************************************************************************)
(* Sessions of CTFuzz's afl-fuzz on one output directory: start, resume,   *)
(* the fuzzing loop with its statistics, stop signals, limits, and kill -9.*)
(* What afl-fuzz-bitmap.c, afl-fuzz-stats.c and afl-fuzz-state.c do is in  *)
(* the modules this one extends; the order of the calls is that of AFL++'s *)
(* main and common_fuzz_stuff.                                             *)
(*                                                                         *)
(* A campaign fixes what is outside the program: command line, environment,*)
(* the inputs that come up, and the bounds: inputs and idle cycles a       *)
(* session, sessions, ticks.                                               *)
(***************************************************************************)
EXTENDS AflStats

CONSTANT Campaigns      \* by name

ASSUME CampaignAssumption ==
  \A c \in DOMAIN Campaigns :
    /\ Campaigns[c].options \in OptionType
    /\ Campaigns[c].inputs \subseteq Inputs
    /\ Campaigns[c].environ \in Seq(Entry)
    /\ Campaigns[c].timing.avg_us \in Nat /\ Campaigns[c].timing.max_us \in Nat
    /\ Campaigns[c].sessions \in Nat

Epoch == 9      \* the time of the first start; 0 is long before

VARIABLES
  campaign, session,
  phase,            \* of main, see Phases
  skip_requested,
  progress          \* history: the last statistics written to the end, since the last torn file

fuzzerVars == <<campaign, session, phase, skip_requested, progress>>
vars == <<bitmapVars, statsVars, fuzzerVars>>

Plan == Campaigns[campaign]

Phases == {"off", "setup", "first", "main", "stopping", "ended", "killed"}
Live   == phase \notin {"off", "ended", "killed"}
Inside == phase = "main" /\ spc = "none"     \* in the loop, not in show_stats

FuzzerInit ==
  /\ BitmapInit
  /\ campaign \in DOMAIN Campaigns /\ session = 0 /\ phase = "off" /\ skip_requested = FALSE
  /\ settings = DefaultSettings /\ limits = [execs |-> 0, time |-> 0]
  /\ now = Epoch /\ start_time = 0 /\ prev_run_time = 0 /\ last_find_time = 0
  /\ stats_last_ms = 0 /\ stats_last_stats_ms = 0 /\ stats_last_plot_ms = 0
  /\ queue_cycle = 0 /\ cycles_wo_finds = 0 /\ prev_queued = 0
  /\ force_ui_update = FALSE /\ plot_prev = <<>>
  /\ stats_file = NoFile /\ plot_file = NoRow /\ bitmap_file = {}
  /\ spc = "none" /\ progress = NoFile

\* from main's first line to show_init_stats; everything in memory starts anew
StartSession ==
  LET s == ReadEnvironment(Plan.environ)
  IN /\ phase \in {"off", "ended", "killed"} /\ session < Plan.sessions
     /\ session' = session + 1
     /\ phase' = IF s.crashed THEN "killed" ELSE "setup"
     /\ settings' = s
     /\ StartBitmap(InitTimeouts(Plan.options, Plan.timing, s), queue)
     /\ limits' = Plan.limits
     /\ total_execs' = 0 /\ stop_soon' = 0
     /\ start_time' = now /\ prev_run_time' = 0 /\ last_find_time' = 0
     /\ stats_last_ms' = 0 /\ stats_last_stats_ms' = 0 /\ stats_last_plot_ms' = 0
     /\ queue_cycle' = 0 /\ cycles_wo_finds' = 0 /\ prev_queued' = 0
     /\ force_ui_update' = FALSE /\ plot_prev' = <<>> /\ skip_requested' = FALSE
     /\ spc' = "none"
     /\ UNCHANGED <<campaign, now, diskVars, progress>>

\* load_stats_file if the session resumes another, then the first write_stats_file
Load ==
  /\ phase = "setup" /\ phase' = "first"
  /\ start_time' = now
  /\ IF session > 1
       THEN LoadStats
       ELSE UNCHANGED <<prev_run_time, queue_cycle, total_execs, saved_crashes, saved_hangs, readme>>
  /\ IF options.non_instrumented_mode
       THEN UNCHANGED <<stats_file, spc>> ELSE TruncateStats /\ spc' = "writing"
  /\ UNCHANGED <<options, runVars, mapVars, pathVars, queueVars, total_crashes, total_tmouts,
                 saved_tmouts, crashes, stop_soon, history, settings, limits, now, last_find_time,
                 timerVars, cycles_wo_finds, prev_queued, force_ui_update, plot_prev, plot_file,
                 bitmap_file, campaign, session, skip_requested, progress>>

FirstWrite ==
  /\ phase = "first" /\ spc = "writing"
  /\ FillStats /\ progress' = stats_file' /\ spc' = "none"
  /\ UNCHANGED <<bitmapVars, settings, limits, clockVars, timerVars, cycleVars, force_ui_update,
                 plot_prev, plot_file, bitmap_file, campaign, session, phase, skip_requested>>

EnterLoop ==
  /\ phase = "first" /\ spc = "none"
  /\ phase' = "main" /\ start_time' = now /\ MaybeUpdatePlot
  /\ UNCHANGED <<bitmapVars, settings, limits, now, prev_run_time, last_find_time, timerVars,
                 cycleVars, force_ui_update, stats_file, bitmap_file, spc, campaign, session,
                 skip_requested, progress>>

(* ---- the loop ------------------------------------------------------------ *)

StartCycle ==
  /\ Inside /\ pc = "idle" /\ stop_soon = 0
  /\ Len(queue) > prev_queued \/ cycles_wo_finds < Plan.idle_cycles
  /\ queue_cycle' = queue_cycle + 1
  /\ cycles_wo_finds' = IF Len(queue) > prev_queued THEN 0 ELSE cycles_wo_finds + 1
  /\ prev_queued' = Len(queue)
  /\ UNCHANGED <<bitmapVars, settings, limits, clockVars, timerVars, force_ui_update, plot_prev,
                 diskVars, spc, fuzzerVars>>

InCycle == prev_queued > 0      \* main's local: 0 until the loop has begun a cycle
Budget  == executed < Plan.inputs_per_session

\* a target run in common_fuzz_stuff, and save_if_interesting for its outcome
RunInput ==
  /\ Inside /\ stop_soon = 0 /\ ~skip_requested /\ InCycle /\ Budget
  /\ \E i \in Plan.inputs : Execute(i)
  /\ UNCHANGED <<statsVars, fuzzerVars>>

\* afl_states_request_skip, and the run whose outcome is dropped for it
RequestSkip ==
  /\ Inside /\ Plan.signals /\ pc = "idle" /\ InCycle /\ ~skip_requested
  /\ executed + 1 < Plan.inputs_per_session
  /\ skip_requested' = TRUE
  /\ UNCHANGED <<bitmapVars, statsVars, campaign, session, phase, progress>>

SkipInput ==
  /\ Inside /\ pc = "idle" /\ stop_soon = 0 /\ skip_requested
  /\ skip_requested' = FALSE
  /\ total_execs' = total_execs + 1 /\ executed' = executed + 1
  /\ UNCHANGED <<options, runVars, mapVars, pathVars, queueVars, countVars, fileVars, stop_soon,
                 ran, timeouts, crashed, statsVars, campaign, session, phase, progress>>

\* add_to_queue notes the time of the find
SaveStep ==
  /\ Inside
  /\ SaveIfInteresting
  /\ last_find_time' = IF Len(queue') > Len(queue) THEN now ELSE last_find_time
  /\ spc' = IF pc = "calibrate" THEN "called" ELSE spc       \* calibrate_case ends with show_stats
  /\ UNCHANGED <<settings, limits, now, start_time, prev_run_time, timerVars, cycleVars,
                 force_ui_update, plot_prev, diskVars, fuzzerVars>>

KeepStep == Inside /\ Keep /\ UNCHANGED <<statsVars, fuzzerVars>>

\* after an input, show_stats is called every stats_update_freq runs and at the end of a stage
NextInput ==
  /\ Inside /\ Back
  /\ \/ spc' = "called"
     \/ Budget /\ spc' = spc
  /\ UNCHANGED <<settings, limits, clockVars, timerVars, cycleVars, force_ui_update, plot_prev,
                 diskVars, fuzzerVars>>

(* ---- show_stats, inside the loop or after it ------------------------------ *)

BeginShow ==
  /\ Live /\ ShowStats
  /\ UNCHANGED <<options, runVars, mapVars, pathVars, queueVars, countVars, fileVars, total_execs,
                 history, settings, limits, clockVars, cycleVars, force_ui_update, plot_prev, fuzzerVars>>

WriteShow ==
  /\ Live /\ phase # "first" /\ WriteFiles
  /\ progress' = stats_file'
  /\ UNCHANGED <<options, runVars, seen, seen_tmout, seen_crash, var_bytes, pathVars, queueVars,
                 countVars, fileVars, total_execs, history, settings, limits, clockVars, cycleVars,
                 force_ui_update, plot_prev, campaign, session, phase, skip_requested>>

EndShow ==
  /\ Live /\ ShowRest
  /\ UNCHANGED <<options, runVars, mapVars, pathVars, queueVars, countVars, fileVars, total_execs,
                 history, settings, limits, clockVars, cycleVars, force_ui_update, fuzzerVars>>

(* ---- the end --------------------------------------------------------------- *)

StopFuzzingWhen(told, forced) ==
  /\ Inside /\ pc = "idle" /\ told
  /\ phase' = "stopping" /\ force_ui_update' = forced /\ stop_soon' = 1 /\ spc' = "called"
  /\ UNCHANGED <<options, runVars, mapVars, pathVars, queueVars, countVars, fileVars, total_execs,
                 history, settings, limits, clockVars, timerVars, cycleVars, plot_prev, diskVars,
                 campaign, session, skip_requested, progress>>

\* Fault: the last show_stats is not forced.
StopFuzzingUnforced == StopFuzzingWhen(stop_soon # 0, FALSE)

\* Fault: only a limit ends the loop.
StopFuzzingAtLimit == StopFuzzingWhen(stop_soon = 2, TRUE)

StopFuzzing == StopFuzzingWhen(stop_soon # 0, TRUE)

\* the last write_bitmap, and afl_state_deinit
Finish ==
  /\ phase = "stopping" /\ spc = "none"
  /\ WriteBitmap /\ phase' = "ended"
  /\ UNCHANGED <<options, runVars, seen, seen_tmout, seen_crash, var_bytes, pathVars, queueVars,
                 countVars, fileVars, total_execs, stop_soon, history, settings, limits, clockVars,
                 timerVars, cycleVars, force_ui_update, plot_prev, stats_file, plot_file, spc,
                 campaign, session, skip_requested, progress>>

Dead ==
  /\ phase' = "killed"
  /\ progress' = IF stats_file = Torn THEN NoFile ELSE progress
  /\ UNCHANGED <<bitmapVars, statsVars, campaign, session, skip_requested>>

\* the end by FATAL or by the write through NULL, and a kill at any point
Abort == Inside /\ pc \in {"fatal", "segfault"} /\ Dead
Die   == Live /\ Plan.kills /\ Dead

\* a stop signal at any point; while the target runs, the outcome of the run is dropped
StopSignal ==
  /\ Live /\ Plan.signals /\ stop_soon = 0
  /\ Stop
  /\ UNCHANGED <<statsVars, fuzzerVars>>

StopWhileRunning ==
  /\ Inside /\ Plan.signals /\ pc = "idle" /\ stop_soon = 0 /\ InCycle /\ Budget
  /\ stop_soon' = 1 /\ total_execs' = total_execs + 1
  /\ UNCHANGED <<options, runVars, mapVars, pathVars, queueVars, countVars, fileVars, history,
                 statsVars, fuzzerVars>>

Tick ==
  /\ Inside /\ pc = "idle" /\ now < Epoch + Plan.ticks
  /\ now' = now + 1
  /\ UNCHANGED <<bitmapVars, settings, limits, start_time, prev_run_time, last_find_time, timerVars,
                 cycleVars, force_ui_update, plot_prev, diskVars, spc, fuzzerVars>>

\* what the program itself goes on doing
Program ==
  \/ Load \/ FirstWrite \/ EnterLoop
  \/ StartCycle \/ RunInput \/ SkipInput \/ SaveStep \/ KeepStep \/ NextInput
  \/ BeginShow \/ WriteShow \/ EndShow
  \/ StopFuzzing \/ Finish \/ Abort

FuzzerNext == StartSession \/ Program \/ RequestSkip \/ Die \/ StopSignal \/ StopWhileRunning \/ Tick

FuzzerSpec == FuzzerInit /\ [][FuzzerNext]_vars /\ WF_vars(Program)

(* ---- properties -------------------------------------------------------------- *)

TypeOK ==
  /\ BitmapTypeOK
  /\ campaign \in DOMAIN Campaigns /\ session \in 0..Plan.sessions /\ phase \in Phases
  /\ skip_requested \in BOOLEAN /\ force_ui_update \in BOOLEAN
  /\ \A n \in {now, start_time, prev_run_time, last_find_time, stats_last_ms, stats_last_stats_ms,
               stats_last_plot_ms, queue_cycle, cycles_wo_finds, prev_queued} : n \in Nat
  /\ spc \in {"none", "called", "writing", "rest"}
  /\ bitmap_file \subseteq Bits

\* What a session counts is never less than what an earlier session reported: run time,
\* executions and cycles survive stop, kill and resume, unless a kill hit the file while it was
\* being written.  load_stats_file finds them by line number, so a line added in the wrong place
\* of write_stats_file loses them.
ProgressSurvives ==
  phase \notin {"off", "setup", "killed"} /\ IsStats(progress) =>
    /\ RunTime >= progress.run_time
    /\ total_execs >= progress.execs_done
    /\ CyclesDone >= progress.cycles_done

\* When a session has ended by itself or by a signal, the files tell its final state: nothing
\* that was counted or covered after the last periodic update is missing.
FinalStateOnDisk ==
  phase = "ended" /\ ~options.non_instrumented_mode =>
    stats_file = StatsNow /\ bitmap_file \union (var_bytes \X Bytes) = seen

\* plot_data shows 2^64 - 1 for the cycles before the first one only in the last row of a session
\* that was stopped before it.
WrappedRowIsLast == plot_file.cycles = "wrapped" => plot_file.last /\ plot_file.stop # 0

\* The settings are those the environment asks for (read_afl_environment): the last entry for a
\* switch or a text decides by which name it is looked up, a number has one name only, and getenv
\* finds the first entry of a name; a SYNC_TIME of 0 is rejected, and a number without a text ends
\* the fuzzer.
SettingsAsGiven == session > 0 => SettingsOf(Plan.environ, settings)

\* The time limit is not below what the slowest seed took, unless the maximum is.
SeedsFitTimeout ==
  Live /\ Plan.timing.given # 1 =>
    \/ options.exec_tmout * 1000 > Plan.timing.max_us
    \/ options.exec_tmout = ExecTimeout

\* Every step of save_if_interesting brings it nearer to its end: a hang is judged again (afl-fuzz-bitmap.c
\* 712, goto save_to_queue) only after virgin_tmout has lost a bit, so the rounds of a call are bounded.
\* Without a map (-n) there is no such bound.
SaveAdvances ==
  [][Live /\ ToGo > 0 /\ ~(options.non_instrumented_mode /\ options.keep_timeouts) =>
       \/ Unmarked' < Unmarked
       \/ Unmarked' = Unmarked /\ ToGo' < ToGo]_<<pc, seen_tmout, options>>

\* Every call of save_if_interesting returns while the process lives, however often a hang is sent
\* back to save_to_queue.
SaveReturns == (pc = "save") ~> (pc \in {"idle", "fatal", "segfault"} \/ ~Live)

\* A session that was told to stop ends with its files written, whatever it was doing.
StopEnds == (Live /\ stop_soon # 0) ~> (phase \in {"ended", "killed"})

\* A session with a limit on executions ends once it has reached it, also if an earlier session
\* had already used it up.
LimitStops ==
  (phase = "main" /\ limits.execs # 0 /\ total_execs >= limits.execs) ~> (phase \in {"ended", "killed"})
=============================================================================
