--------------------------- MODULE AflFuzzerProofs ---------------------------
(***************************************************************************)
(* Theorems about AflFuzzer for every campaign, with any inputs, limits    *)
(* and environment, and any number of sessions, kills and signals.         *)
(***************************************************************************)
EXTENDS AflFuzzer, AflBitmapProofs, AflEnvironmentProofs

-----------------------------------------------------------------------------
(* Types.                                                                   *)

FigureTypes ==
  /\ now \in Nat /\ start_time \in Nat /\ prev_run_time \in Nat /\ last_find_time \in Nat
  /\ stats_last_ms \in Nat /\ stats_last_stats_ms \in Nat /\ stats_last_plot_ms \in Nat
  /\ queue_cycle \in Nat /\ cycles_wo_finds \in Nat /\ prev_queued \in Nat
  /\ start_time <= now

ControlTypes ==
  /\ campaign \in DOMAIN Campaigns /\ session \in 0..Plan.sessions /\ phase \in Phases
  /\ skip_requested \in BOOLEAN /\ force_ui_update \in BOOLEAN
  /\ spc \in {"none", "called", "writing", "rest"}
  /\ bitmap_file \subseteq Bits

FileTypes ==
  IsStats(stats_file) =>
    /\ stats_file.run_time \in Nat /\ stats_file.cycles_done \in Nat /\ stats_file.execs_done \in Nat

IType == BitmapTypeOK /\ TableAsScheduled /\ FigureTypes /\ ControlTypes /\ FileTypes

Start == StartBitmap(InitTimeouts(Plan.options, Plan.timing, ReadEnvironment(Plan.environ)), queue)

\* Seen from AflBitmap, a step is the start of a session, a step of save_if_interesting or of what
\* is around it, or it leaves the maps, paths, queue and counters alone.
LEMMA StepOfBitmap ==
  ASSUME FuzzerNext
  PROVE  \/ UNCHANGED coreVars
         \/ StartSession /\ Start
         \/ \E i \in Plan.inputs : Execute(i)
         \/ SaveIfInteresting \/ Keep \/ Back
<1>1. CASE StartSession
  BY <1>1 DEF StartSession, Start
<1>2. CASE Load
  <2>1. saved_crashes' = saved_crashes /\ saved_hangs' = saved_hangs
    <3>1. /\ Line(stats_file, 21, "saved_crashes", saved_crashes) = saved_crashes
          /\ Line(stats_file, 22, "saved_hangs", saved_hangs) = saved_hangs
      BY DEF Line
    <3>2. CASE session > 1
      BY <1>2, <3>1, <3>2 DEF Load, LoadStats, LoadStatsInCycle
    <3>3. CASE ~(session > 1)
      BY <1>2, <3>3 DEF Load
    <3> QED BY <3>2, <3>3
  <2> QED BY <1>2, <2>1 DEF Load, coreVars, mapVars, countVars, history
<1>3. CASE FirstWrite \/ EnterLoop \/ StartCycle \/ BeginShow \/ EndShow \/ StopFuzzing \/ Abort \/ Die
  BY <1>3 DEF FirstWrite, EnterLoop, StartCycle, BeginShow, EndShow, StopFuzzing, StopFuzzingWhen,
     Abort, Die, Dead, coreVars, bitmapVars, mapVars, fileVars, history
<1>4. CASE WriteShow \/ Finish \/ StopSignal \/ StopWhileRunning \/ Tick \/ RequestSkip \/ SkipInput
  BY <1>4 DEF WriteShow, Finish, StopSignal, Stop, StopWhileRunning, Tick, RequestSkip, SkipInput,
     coreVars, bitmapVars, mapVars, fileVars, history
<1>5. CASE RunInput \/ SaveStep \/ KeepStep \/ NextInput
  BY <1>5 DEF RunInput, SaveStep, KeepStep, NextInput
<1> QED BY <1>1, <1>2, <1>3, <1>4, <1>5 DEF FuzzerNext, Program

\* The timeouts show_init_stats chooses are numbers.
LEMMA InitTimeoutsType ==
  ASSUME NEW o \in OptionType, NEW t, t.avg_us \in Nat, t.max_us \in Nat, NEW s
  PROVE  InitTimeouts(o, t, s) \in OptionType
<1>1. \A a, b \in Nat : MinOf(a, b) \in Nat /\ MaxOf(a, b) \in Nat
  BY DEF MinOf, MaxOf
<1>2. ExecTimeout \in Nat /\ TimeoutRound \in Nat \ {0}
  BY BitmapAssumption, PeriodAssumption
<1>3. CalibratedTimeout(t.avg_us, t.max_us, t.fixed_seed) \in Nat
  <2> DEFINE factor == IF t.fixed_seed \/ t.avg_us <= 10000 THEN 5 ELSE IF t.avg_us <= 50000 THEN 3 ELSE 2
             raw    == MaxOf((t.avg_us * factor) \div 1000, t.max_us \div 1000)
             units  == (raw + TimeoutRound) \div TimeoutRound
  <2>1. factor \in {2, 3, 5}
    OBVIOUS
  <2>2. t.avg_us * factor \in Nat
    BY <2>1
  <2> HIDE DEF factor
  <2>3. (t.avg_us * factor) \div 1000 \in Nat /\ t.max_us \div 1000 \in Nat
    BY <2>2
  <2>4. raw \in Nat
    BY <1>1, <2>3
  <2> HIDE DEF raw
  <2>5. units \in Nat
    BY <1>2, <2>4
  <2> HIDE DEF units
  <2>6. units * TimeoutRound \in Nat
    BY <1>2, <2>5
  <2>7. CalibratedTimeout(t.avg_us, t.max_us, t.fixed_seed) = MinOf(ExecTimeout, units * TimeoutRound)
    BY DEF CalibratedTimeout, factor, raw, units
  <2> QED BY <1>1, <1>2, <2>6, <2>7
<1>4. \A x : Atoi(x) \in Nat
  BY DEF Atoi
<1>5. o.exec_tmout \in Nat
  BY DEF OptionType
<1> DEFINE exec == IF t.given # 1 THEN CalibratedTimeout(t.avg_us, t.max_us, t.fixed_seed) ELSE o.exec_tmout
           h    == IF s.text["HANG_TMOUT"] # "" THEN Atoi(s.text["HANG_TMOUT"]) ELSE ExecTimeout
           hang == IF o.non_instrumented_mode /\ s.text["HANG_TMOUT"] = ""
                     THEN MinOf(ExecTimeout, exec * 2 + 100) ELSE h
           keep == "KEEP_TIMEOUTS" \in s.on
           mute == s.number["NO_CRASH_README"] = 1
<1>6. exec \in Nat
  BY <1>3, <1>5
<1>7. hang \in Nat
  <2> HIDE DEF exec
  <2>1. exec * 2 + 100 \in Nat
    BY <1>6
  <2> QED BY <1>1, <1>2, <1>4, <2>1
<1>8. keep \in BOOLEAN /\ mute \in BOOLEAN
  <2>1. keep \in BOOLEAN
    OBVIOUS
  <2>2. mute \in BOOLEAN
    OBVIOUS
  <2> HIDE DEF keep, mute
  <2> QED BY <2>1, <2>2
<1>9. InitTimeouts(o, t, s) = [o EXCEPT !.exec_tmout = exec, !.hang_tmout = hang, !.keep_timeouts = keep,
                                        !.no_crash_readme = mute]
  BY DEF InitTimeouts
<1> HIDE DEF exec, hang, keep, mute
<1> QED BY <1>6, <1>7, <1>8, <1>9 DEF OptionType

\* The rest of the type invariant, when only counters of events and files change.
LEMMA CoreUnchangedType ==
  ASSUME BitmapTypeOK, UNCHANGED coreVars,
         total_execs' \in Nat, stop_soon' \in 0..2, executed' \in Nat,
         readme' \in BOOLEAN, bitmap_changed' \in BOOLEAN
  PROVE  BitmapTypeOK'
BY DEF BitmapTypeOK, coreVars, runVars, pathVars, queueVars, countVars

\* What a campaign gives is well typed.
LEMMA PlanType ==
  ASSUME campaign \in DOMAIN Campaigns
  PROVE  /\ Plan.options \in OptionType /\ Plan.inputs \subseteq Inputs
         /\ Plan.timing.avg_us \in Nat /\ Plan.timing.max_us \in Nat /\ Plan.sessions \in Nat
BY CampaignAssumption DEF Plan

\* What is loaded from fuzzer_stats is a number.
LEMMA LineType ==
  ASSUME FileTypes
  PROVE  /\ prev_run_time \in Nat => Line(stats_file, 3, "run_time", prev_run_time) \in Nat
         /\ LoadedCycles \in Nat
         /\ total_execs \in Nat => Line(stats_file, 7, "execs_done", total_execs) \in Nat
BY DEF FileTypes, Line, LoadedCycles

\* The start of a session establishes the types.
LEMMA StartType ==
  ASSUME IType, StartSession
  PROVE  BitmapTypeOK' /\ TableAsScheduled'
<1> DEFINE o == InitTimeouts(Plan.options, Plan.timing, ReadEnvironment(Plan.environ))
<1>1. o \in OptionType
  BY PlanType, InitTimeoutsType DEF IType, ControlTypes
<1>2. StartBitmap(o, queue) /\ total_execs' = 0 /\ stop_soon' = 0
  BY DEF StartSession
<1> HIDE DEF o
<1>3. queue \in Seq(Entries)
  BY DEF IType, BitmapTypeOK
<1>4. BitmapTypeOK'
  BY <1>1, <1>2, <1>3, StartBitmapType
<1>5. n_fuzz' = IF o.schedule \in FastSchedules THEN [p \in SUBSET Edges |-> 0] ELSE NULL
  BY <1>2 DEF StartBitmap
<1>6. options' = o
  BY <1>2 DEF StartBitmap
<1>7. [p \in SUBSET Edges |-> 0] # NULL
  BY DEF NULL
<1> QED BY <1>4, <1>5, <1>6, <1>7 DEF TableAsScheduled

\* Loading keeps the types.
LEMMA LoadType ==
  ASSUME IType, Load
  PROVE  BitmapTypeOK'
<1>1. total_execs' \in Nat
  <2>1. CASE session > 1
    BY <2>1, LineType DEF IType, BitmapTypeOK, Load, LoadStats, LoadStatsInCycle
  <2>2. CASE ~(session > 1)
    BY <2>2 DEF IType, BitmapTypeOK, Load
  <2> QED BY <2>1, <2>2
<1>2. readme' \in BOOLEAN
  <2>1. CASE session > 1
    <3>1. readme' = (readme \/ saved_crashes' # 0)
      BY <2>1 DEF Load, LoadStats, LoadStatsInCycle, WriteCrashReadme
    <3> QED BY <3>1, Zenon
  <2>2. CASE ~(session > 1)
    BY <2>2 DEF IType, BitmapTypeOK, Load
  <2> QED BY <2>1, <2>2
<1>3. saved_crashes' = saved_crashes /\ saved_hangs' = saved_hangs
  <2>1. /\ Line(stats_file, 21, "saved_crashes", saved_crashes) = saved_crashes
        /\ Line(stats_file, 22, "saved_hangs", saved_hangs) = saved_hangs
    BY DEF Line
  <2>2. CASE session > 1
    BY <2>1, <2>2 DEF Load, LoadStats, LoadStatsInCycle
  <2>3. CASE ~(session > 1)
    BY <2>3 DEF Load
  <2> QED BY <2>2, <2>3
<1>4. UNCHANGED <<options, runVars, mapVars, pathVars, queueVars, total_crashes, total_tmouts,
                 saved_tmouts, crashes, stop_soon, history>>
  BY DEF Load
<1>5. UNCHANGED coreVars
  BY <1>3, <1>4 DEF coreVars, mapVars, countVars, history
<1>6. stop_soon' \in 0..2 /\ executed' \in Nat /\ bitmap_changed' \in BOOLEAN
  BY <1>4 DEF IType, BitmapTypeOK, history, mapVars
<1> QED BY <1>1, <1>2, <1>5, <1>6, CoreUnchangedType DEF IType

\* So do all other steps.
LEMMA OtherType ==
  ASSUME IType, FuzzerNext, ~StartSession, ~Load
  PROVE  BitmapTypeOK'
<1> USE DEF IType
<1>1. CASE FirstWrite \/ EnterLoop \/ StartCycle \/ Abort \/ Die \/ RequestSkip \/ Tick
  <2>1. UNCHANGED bitmapVars
    BY <1>1 DEF FirstWrite, EnterLoop, StartCycle, Abort, Die, Dead, RequestSkip, Tick
  <2> QED BY <2>1 DEF BitmapTypeOK, bitmapVars, runVars, mapVars, pathVars, queueVars, countVars, fileVars, history
<1>2. CASE BeginShow \/ EndShow \/ StopFuzzing
  <2>1. UNCHANGED <<options, runVars, mapVars, pathVars, queueVars, countVars, fileVars, total_execs, history>>
    BY <1>2 DEF BeginShow, EndShow, StopFuzzing, StopFuzzingWhen
  <2>2. stop_soon' \in 0..2
    BY <1>2 DEF BeginShow, ShowStats, EndShow, ShowRest, StopFuzzing, StopFuzzingWhen, BitmapTypeOK
  <2> QED BY <2>1, <2>2 DEF BitmapTypeOK, runVars, mapVars, pathVars, queueVars, countVars, fileVars, history
<1>3. CASE WriteShow \/ Finish
  <2>1. UNCHANGED <<options, runVars, seen, seen_tmout, seen_crash, var_bytes, pathVars, queueVars,
                 countVars, fileVars, total_execs, stop_soon, history>>
    BY <1>3 DEF WriteShow, WriteFiles, Finish
  <2>2. bitmap_changed' = FALSE
    BY <1>3 DEF WriteShow, WriteFiles, Finish, WriteBitmap
  <2>3. bitmap_changed' \in BOOLEAN
    BY <2>2, Zenon
  <2> QED BY <2>1, <2>3 DEF BitmapTypeOK, runVars, pathVars, queueVars, countVars, fileVars, history
<1>4. CASE StopSignal
  BY <1>4, StopType DEF StopSignal
<1>5. CASE StopWhileRunning \/ SkipInput
  <2>1. UNCHANGED <<options, runVars, mapVars, pathVars, queueVars, countVars, fileVars, ran, timeouts, crashed>>
    BY <1>5 DEF StopWhileRunning, SkipInput, history
  <2>2. total_execs' \in Nat /\ stop_soon' \in 0..2 /\ executed' \in Nat
    BY <1>5 DEF StopWhileRunning, SkipInput, history, BitmapTypeOK
  <2> QED BY <2>1, <2>2 DEF BitmapTypeOK, runVars, mapVars, pathVars, queueVars, countVars, fileVars
<1>6. CASE RunInput
  BY <1>6, PlanType, ExecuteType DEF RunInput, ControlTypes
<1>7. CASE SaveStep \/ KeepStep \/ NextInput
  BY <1>7, SaveIfInterestingType, KeepType, BackType DEF SaveStep, KeepStep, NextInput
<1> QED BY <1>1, <1>2, <1>3, <1>4, <1>5, <1>6, <1>7 DEF FuzzerNext, Program

\* A table of frequencies is not NULL.
LEMMA TableNotNull ==
  ASSUME NEW f \in [SUBSET Edges -> Nat]
  PROVE  f # NULL
<1>1. {} \in DOMAIN f
  OBVIOUS
<1>2. DOMAIN NULL = {}
  BY DEF NULL
<1> QED BY <1>1, <1>2

\* There is a table of frequencies for the same schedules as before.
LEMMA TableStep ==
  ASSUME IType, FuzzerNext, ~StartSession
  PROVE  TableAsScheduled'
<1> USE DEF IType
<1>1. options' = options /\ (pc # "off" <=> pc' # "off") /\ (pc # "off" => (n_fuzz = NULL <=> n_fuzz' = NULL))
  <2>1. CASE UNCHANGED coreVars
    BY <2>1 DEF coreVars, runVars, pathVars
  <2>2. CASE \E i \in Plan.inputs : Execute(i)
    BY <2>2 DEF Execute, pathVars, Return
  <2>3. CASE NothingNew \/ SomethingNew \/ Unexpected
    <3>1. RecordPath /\ options' = options /\ pc' # "off" /\ pc # "off"
      BY <2>3 DEF NothingNew, SomethingNew, Unexpected, UnexpectedWith, Return, RecordPath, RecordPathIn
    <3>2. CASE n_fuzz = NULL
      <4>1. n_fuzz' = n_fuzz
        BY <3>1, <3>2 DEF TableAsScheduled, RecordPath, RecordPathIn
      <4> QED BY <3>1, <4>1
    <3>3. CASE n_fuzz # NULL
      <4>1. n_fuzz \in [SUBSET Edges -> Nat]
        BY <3>3 DEF BitmapTypeOK
      <4>2. path' \in SUBSET Edges
        BY <3>1, RecordPathType
      <4>3. n_fuzz' \in [SUBSET Edges -> Nat]
        BY <3>1, <4>1, <4>2 DEF RecordPath, RecordPathIn
      <4> QED BY <3>1, <3>3, <4>3, TableNotNull
    <3> QED BY <3>2, <3>3
  <2>4. CASE SaveToQueue
    <3>1. options' = options /\ pc' # "off" /\ pc # "off"
      BY <2>4 DEF SaveToQueue, SaveToQueueUnder
    <3>2. CASE n_fuzz = NULL
      BY <2>4, <3>1, <3>2 DEF SaveToQueue, SaveToQueueUnder
    <3>3. CASE n_fuzz # NULL
      <4>1. n_fuzz \in [SUBSET Edges -> Nat] /\ path \in SUBSET Edges
        BY <3>3 DEF BitmapTypeOK
      <4>2. n_fuzz' \in [SUBSET Edges -> Nat]
        BY <2>4, <3>3, <4>1 DEF SaveToQueue, SaveToQueueUnder
      <4> QED BY <3>1, <3>3, <4>2, TableNotNull
    <3> QED BY <3>2, <3>3
  <2>5. CASE JudgeNormal \/ JudgeCrash \/ JudgeTimeout \/ SaveHang \/ KeepAsCrash
    BY <2>5 DEF JudgeNormal, JudgeCrash, JudgeTimeout, JudgeTimeoutWith, SaveHang, Return,
       KeepAsCrash, pathVars
  <2>6. CASE \E o \in input.again : Calibrate(o)
    BY <2>6 DEF Calibrate, pathVars
  <2>7. CASE \E o \in input.again : Rerun(o)
    BY <2>7 DEF Rerun, RerunTaking, pathVars, Return
  <2>8. CASE Keep \/ Back
    BY <2>8 DEF Keep, Keeping, Back, pathVars
  <2> QED BY <2>1, <2>2, <2>3, <2>4, <2>5, <2>6, <2>7, <2>8, StepOfBitmap DEF SaveIfInteresting
<1> QED BY <1>1 DEF TableAsScheduled

\* Times and cycles are numbers, and no session started in the future.
LEMMA FigureStep ==
  ASSUME IType, FuzzerNext
  PROVE  FigureTypes'
<1> USE DEF IType
<1>1. CASE StartSession
  BY <1>1 DEF StartSession, FigureTypes
<1>2. CASE Load
  <2>1. CASE session > 1
    <3>1. /\ prev_run_time' = Line(stats_file, 3, "run_time", prev_run_time)
          /\ queue_cycle' = IF LoadedCycles = 0 THEN 0 ELSE LoadedCycles + 1
      BY <1>2, <2>1 DEF Load, LoadStats, LoadStatsInCycle
    <3>2. prev_run_time' \in Nat /\ queue_cycle' \in Nat
      BY <3>1, LineType DEF FigureTypes
    <3> QED BY <1>2, <3>2 DEF Load, FigureTypes, timerVars
  <2>2. CASE ~(session > 1)
    BY <1>2, <2>2 DEF Load, FigureTypes, timerVars
  <2> QED BY <2>1, <2>2
<1>3. CASE FirstWrite \/ RunInput \/ RequestSkip \/ SkipInput \/ KeepStep \/ NextInput \/ StopFuzzing
           \/ Finish \/ Abort \/ Die \/ StopSignal \/ StopWhileRunning
  <2>1. UNCHANGED <<clockVars, timerVars, cycleVars>>
    BY <1>3 DEF FirstWrite, RunInput, RequestSkip, SkipInput, KeepStep, NextInput, StopFuzzing, StopFuzzingWhen,
       Finish, Abort, Die, Dead, StopSignal, StopWhileRunning, statsVars
  <2> QED BY <2>1 DEF FigureTypes, clockVars, timerVars, cycleVars
<1>4. CASE EnterLoop \/ Tick
  BY <1>4 DEF EnterLoop, Tick, FigureTypes, timerVars, cycleVars
<1>5. CASE StartCycle
  <2>1. Len(queue) \in Nat
    BY DEF BitmapTypeOK
  <2> QED BY <1>5, <2>1 DEF StartCycle, FigureTypes, clockVars, timerVars
<1>6. CASE SaveStep
  BY <1>6 DEF SaveStep, FigureTypes, timerVars, cycleVars
<1>7. CASE BeginShow \/ EndShow
  BY <1>7 DEF BeginShow, ShowStats, EndShow, ShowRest, FigureTypes, clockVars, cycleVars
<1>8. CASE WriteShow
  BY <1>8 DEF WriteShow, WriteFiles, FigureTypes, clockVars, timerVars, cycleVars
<1> QED BY <1>1, <1>2, <1>3, <1>4, <1>5, <1>6, <1>7, <1>8 DEF FuzzerNext, Program

\* The control variables and the file of the map keep their types.
LEMMA ControlStep ==
  ASSUME IType, FuzzerNext
  PROVE  ControlTypes'
<1> USE DEF IType
<1>1. campaign' = campaign /\ session' \in 0..Plan.sessions
  <2>1. CASE StartSession
    BY <2>1, PlanType DEF StartSession, ControlTypes
  <2>2. CASE ~StartSession
    <3>1. campaign' = campaign /\ session' = session
      BY <2>2 DEF FuzzerNext, Program, Load, FirstWrite, EnterLoop, StartCycle, RunInput, RequestSkip, SkipInput,
         SaveStep, KeepStep, NextInput, BeginShow, WriteShow, EndShow, StopFuzzing, StopFuzzingWhen, Finish,
         Abort, Die, Dead, StopSignal, StopWhileRunning, Tick, fuzzerVars
    <3> QED BY <3>1 DEF ControlTypes
  <2> QED BY <2>1, <2>2
<1>2. Plan' = Plan
  BY <1>1 DEF Plan
<1>3. phase' \in Phases
  BY DEF FuzzerNext, Program, StartSession, Load, FirstWrite, EnterLoop, StartCycle, RunInput, RequestSkip,
     SkipInput, SaveStep, KeepStep, NextInput, BeginShow, WriteShow, EndShow, StopFuzzing, StopFuzzingWhen,
     Finish, Abort, Die, Dead, StopSignal, StopWhileRunning, Tick, fuzzerVars, ControlTypes, Phases
<1>4. spc' \in {"none", "called", "writing", "rest"}
  <2>1. CASE StartSession \/ Load \/ FirstWrite \/ EnterLoop \/ StartCycle \/ RunInput \/ RequestSkip \/ SkipInput
    BY <2>1 DEF StartSession, Load, FirstWrite, EnterLoop, StartCycle, RunInput, RequestSkip, SkipInput,
       statsVars, ControlTypes
  <2>2. CASE SaveStep \/ KeepStep \/ NextInput \/ BeginShow \/ WriteShow \/ EndShow \/ StopFuzzing
    BY <2>2 DEF SaveStep, KeepStep, NextInput, BeginShow, ShowStats, WriteShow, WriteFiles, EndShow, ShowRest,
       StopFuzzing, StopFuzzingWhen, statsVars, ControlTypes
  <2>3. CASE Finish \/ Abort \/ Die \/ StopSignal \/ StopWhileRunning \/ Tick
    BY <2>3 DEF Finish, Abort, Die, Dead, StopSignal, StopWhileRunning, Tick, statsVars, ControlTypes
  <2> QED BY <2>1, <2>2, <2>3 DEF FuzzerNext, Program
<1>5. bitmap_file' \subseteq Bits
  <2>1. bitmap_file' = bitmap_file \/ bitmap_file' = seen
    BY DEF FuzzerNext, Program, StartSession, Load, FirstWrite, EnterLoop, StartCycle, RunInput, RequestSkip,
       SkipInput, SaveStep, KeepStep, NextInput, BeginShow, ShowStats, WriteShow, WriteFiles, WriteBitmap,
       EndShow, ShowRest, StopFuzzing, StopFuzzingWhen, Finish, Abort, Die, Dead, StopSignal,
       StopWhileRunning, Tick, statsVars, diskVars
  <2> QED BY <2>1 DEF ControlTypes, BitmapTypeOK
<1>6. skip_requested' \in BOOLEAN
  <2>1. skip_requested' = skip_requested \/ skip_requested' = TRUE \/ skip_requested' = FALSE
    BY DEF FuzzerNext, Program, StartSession, Load, FirstWrite, EnterLoop, StartCycle, RunInput, RequestSkip,
       SkipInput, SaveStep, KeepStep, NextInput, BeginShow, WriteShow, EndShow, StopFuzzing, StopFuzzingWhen,
       Finish, Abort, Die, Dead, StopSignal, StopWhileRunning, Tick, fuzzerVars
  <2>2. skip_requested \in BOOLEAN
    BY DEF ControlTypes
  <2> QED BY <2>1, <2>2, Zenon
<1>7. force_ui_update' \in BOOLEAN
  <2>1. force_ui_update' = force_ui_update \/ force_ui_update' = TRUE \/ force_ui_update' = FALSE
    BY DEF FuzzerNext, Program, StartSession, Load, FirstWrite, EnterLoop, StartCycle, RunInput, RequestSkip,
       SkipInput, SaveStep, KeepStep, NextInput, BeginShow, WriteShow, EndShow, StopFuzzing, StopFuzzingWhen,
       Finish, Abort, Die, Dead, StopSignal, StopWhileRunning, Tick, statsVars
  <2>2. force_ui_update \in BOOLEAN
    BY DEF ControlTypes
  <2> QED BY <2>1, <2>2, Zenon
<1> QED BY <1>1, <1>2, <1>3, <1>4, <1>5, <1>6, <1>7 DEF ControlTypes

\* What fuzzer_stats holds is well typed.
LEMMA FileStep ==
  ASSUME IType, FuzzerNext
  PROVE  FileTypes'
<1> USE DEF IType
<1>1. stats_file' \in {stats_file, Torn, StatsNow}
  BY DEF FuzzerNext, Program, StartSession, Load, FirstWrite, EnterLoop, StartCycle, RunInput, RequestSkip,
     SkipInput, SaveStep, KeepStep, NextInput, BeginShow, ShowStats, WriteShow, WriteFiles, FillStats,
     TruncateStats, EndShow, ShowRest, StopFuzzing, StopFuzzingWhen, Finish, Abort, Die, Dead, StopSignal,
     StopWhileRunning, Tick, statsVars, diskVars
<1>2. /\ StatsNow.run_time \in Nat /\ StatsNow.cycles_done \in Nat /\ StatsNow.execs_done \in Nat
  <2>1. RunTime \in Nat /\ CyclesDone \in Nat /\ total_execs \in Nat
    BY DEF RunTime, CyclesDone, FigureTypes, BitmapTypeOK
  <2> QED BY <2>1 DEF StatsNow
<1> QED BY <1>1, <1>2 DEF FileTypes, IsStats

\* Every variable keeps its type.
THEOREM TypeCorrect == FuzzerSpec => []IType
<1>1. FuzzerInit => IType
  <2> SUFFICES ASSUME FuzzerInit PROVE IType
    OBVIOUS
  <2>1. BitmapTypeOK /\ TableAsScheduled
    BY BitmapInitType DEF FuzzerInit, BitmapInit, TableAsScheduled
  <2>2. FigureTypes
    BY DEF FuzzerInit, FigureTypes, Epoch
  <2>3. FileTypes
    BY DEF FuzzerInit, FileTypes, IsStats
  <2>4. skip_requested \in BOOLEAN /\ force_ui_update \in BOOLEAN
    <3>1. skip_requested = FALSE /\ force_ui_update = FALSE
      BY DEF FuzzerInit
    <3> QED BY <3>1, Zenon
  <2>5. ControlTypes
    BY <2>4, PlanType DEF FuzzerInit, ControlTypes, Phases
  <2> QED BY <2>1, <2>2, <2>3, <2>5 DEF IType
<1>2. IType /\ [FuzzerNext]_vars => IType'
  <2> SUFFICES ASSUME IType, [FuzzerNext]_vars PROVE IType'
    OBVIOUS
  <2>1. CASE FuzzerNext
    <3>1. BitmapTypeOK' /\ TableAsScheduled'
      BY <2>1, StartType, LoadType, OtherType, TableStep
    <3> QED BY <2>1, <3>1, FigureStep, ControlStep, FileStep DEF IType
  <2>2. CASE UNCHANGED vars
    <3>1. BitmapTypeOK' /\ TableAsScheduled'
      BY <2>2 DEF IType, BitmapTypeOK, TableAsScheduled, vars, bitmapVars, runVars, mapVars, pathVars,
         queueVars, countVars, fileVars, history
    <3>2. FigureTypes' /\ FileTypes'
      BY <2>2 DEF IType, FigureTypes, FileTypes, vars, statsVars, clockVars, timerVars, cycleVars, diskVars
    <3>3. ControlTypes'
      BY <2>2 DEF IType, ControlTypes, Plan, vars, statsVars, diskVars, fuzzerVars
    <3> QED BY <3>1, <3>2, <3>3 DEF IType
  <2> QED BY <2>1, <2>2
<1> QED BY <1>1, <1>2, PTL DEF FuzzerSpec

\* The type invariant of the fuzzer holds whatever is fuzzed, in every campaign.
THEOREM FuzzerTypes == FuzzerSpec => []TypeOK
<1>1. IType => TypeOK
  BY DEF IType, FigureTypes, ControlTypes, TypeOK
<1> QED BY <1>1, TypeCorrect, PTL

-----------------------------------------------------------------------------
(* The properties of AflBitmap, for every session of every campaign.        *)

\* All their invariants together: the steps of a session keep them, and its start makes them hold.
BitmapInv == PathsInv /\ TimeoutsInv /\ FrequencyInv /\ CoverageInv /\ CrashInv

\* The invariants hold before the first session.
LEMMA BitmapInvInit ==
  ASSUME FuzzerInit
  PROVE  BitmapInv
<1>1. pc = "off" /\ unique_path = <<>> /\ ran = {} /\ total_unique_path = 0 /\ fault = "OK" /\ n_fuzz = NULL
      /\ total_tmouts = 0 /\ timeouts = 0 /\ saved_tmouts = 0 /\ seen_crash = {} /\ crashed = {}
  BY DEF FuzzerInit, BitmapInit
<1>2. ToSet(<<>>) = {}
  BY DEF ToSet
<1>3. PathsInv
  BY <1>1, <1>2, FS_EmptySet DEF PathsInv
<1>4. TimeoutsInv /\ FrequencyInv /\ CoverageInv /\ CrashInv
  BY <1>1 DEF TimeoutsInv, Owed, FrequencyInv, FrequencyOfExecuted, CoverageInv, CrashInv
<1> QED BY <1>3, <1>4 DEF BitmapInv

\* Every step keeps them.
LEMMA BitmapInvNext ==
  ASSUME IType, BitmapInv, FuzzerNext
  PROVE  BitmapInv'
<1>1. CASE StartSession /\ Start
  BY <1>1, PathsStart, TimeoutsStart, FrequencyStart, CoverageStart, CrashStart DEF Start, BitmapInv
<1>2. CASE BitmapStep
  BY <1>2, PathsStep, TimeoutsStep, FrequencyStep, CoverageStep, CrashStep DEF IType, BitmapInv
<1>3. Plan.inputs \subseteq Inputs
  BY PlanType DEF IType, ControlTypes
<1> QED BY <1>1, <1>2, <1>3, StepOfBitmap DEF BitmapStep

\* So they always hold.
LEMMA BitmapInvAlways == FuzzerSpec => []BitmapInv
<1>1. FuzzerInit => BitmapInv
  BY BitmapInvInit
<1>2. IType /\ BitmapInv /\ [FuzzerNext]_vars => BitmapInv'
  <2> SUFFICES ASSUME IType, BitmapInv, [FuzzerNext]_vars PROVE BitmapInv'
    OBVIOUS
  <2>1. CASE FuzzerNext
    BY <2>1, BitmapInvNext
  <2>2. CASE UNCHANGED vars
    <3>1. UNCHANGED coreVars
      BY <2>2 DEF vars, bitmapVars, coreVars, mapVars, fileVars, history
    <3> QED BY <3>1, PathsStep, TimeoutsStep, FrequencyStep, CoverageStep, CrashStep DEF IType, BitmapInv, BitmapStep
  <2> QED BY <2>1, <2>2
<1> QED BY <1>1, <1>2, TypeCorrect, PTL DEF FuzzerSpec

\* The number of unique paths is the number of different edge sets executed, for any inputs.
THEOREM PathsAreCountedOnce == FuzzerSpec => []PathsCountedOnce
<1>1. BitmapInv => PathsCountedOnce
  BY DEF BitmapInv, PathsInv, PathsCountedOnce
<1> QED BY <1>1, BitmapInvAlways, PTL

\* Timeouts are counted once per timed-out input and once per return to the switch.
THEOREM TimeoutsAreCounted == FuzzerSpec => []TimeoutsCounted
<1>1. BitmapInv => TimeoutsCounted
  BY DEF BitmapInv, TimeoutsInv, Owed, TimeoutsCounted
<1> QED BY <1>1, BitmapInvAlways, PTL

\* Exactly the executed paths have a frequency, whatever FreqCap stands for 2^32 - 1.
THEOREM FrequenciesAreOfExecuted == FuzzerSpec => []FrequencyOfExecuted
<1>1. BitmapInv => FrequencyOfExecuted
  BY DEF BitmapInv, FrequencyInv
<1> QED BY <1>1, BitmapInvAlways, PTL

\* The coverage map and the queue agree between two inputs.
THEOREM QueueIsWitness == FuzzerSpec => []QueueWitnessesCoverage
<1>1. BitmapInv => QueueWitnessesCoverage
  BY DEF BitmapInv, CoverageInv, QueueWitnessesCoverage
<1> QED BY <1>1, BitmapInvAlways, PTL

\* Every edge of a crash, of a first run or of the second run of a hang, is on show in a saved one
\* while crashes are still kept.
THEOREM CrashesAreWitnessed == FuzzerSpec => []CrashesWitnessed
<1>1. BitmapInv => CrashesWitnessed
  <2> SUFFICES ASSUME BitmapInv, pc \in {"idle", "returned"}, options.crash_mode = "OK",
                      ~options.non_instrumented_mode, saved_crashes < KeepCrashes, NEW t \in crashed
               PROVE  BitsOf(t) \subseteq UNION {BitsOf(c) : c \in ToSet(crashes)}
    BY DEF CrashesWitnessed
  <2>1. BitsOf(t) \subseteq seen_crash
    BY DEF BitmapInv, CrashInv
  <2>2. seen_crash \subseteq UNION {BitsOf(c) : c \in ToSet(crashes)}
    BY DEF BitmapInv, CrashInv
  <2> QED BY <2>1, <2>2
<1> QED BY <1>1, BitmapInvAlways, PTL

-----------------------------------------------------------------------------
(* The files of a session that has ended.                                   *)

\* fuzz_bitmap lacks nothing but variable edges unless a change is noted, and those are in the map.
BitmapFileInv ==
  /\ var_bytes \X Bytes \subseteq seen
  /\ ~bitmap_changed => bitmap_file \union (var_bytes \X Bytes) = seen

\* The file of the map only falls behind the map when bitmap_changed says so.
LEMMA BitmapFileStep ==
  ASSUME BitmapFileInv, FuzzerNext
  PROVE  BitmapFileInv'
<1>1. CASE StartSession
  <2>1. bitmap_changed' = TRUE /\ var_bytes' = {}
    BY <1>1 DEF StartSession, StartBitmap
  <2> QED BY <2>1 DEF BitmapFileInv
<1>2. CASE WriteShow \/ Finish
  <2>1. UNCHANGED <<seen, var_bytes>> /\ WriteBitmap
    BY <1>2 DEF WriteShow, WriteFiles, Finish
  <2> QED BY <2>1 DEF BitmapFileInv, WriteBitmap
<1>3. CASE SaveStep /\ ~(SomethingNew \/ \E o \in input.again : Calibrate(o))
  <2>1. UNCHANGED <<seen, var_bytes, bitmap_changed, bitmap_file>>
    BY <1>3 DEF SaveStep, SaveIfInteresting, NothingNew, Unexpected, UnexpectedWith, SaveToQueue,
       SaveToQueueUnder, JudgeNormal, JudgeCrash, JudgeTimeout, JudgeTimeoutWith, SaveHang,
       KeepAsCrash, Rerun, RerunTaking, mapVars, diskVars
  <2> QED BY <2>1 DEF BitmapFileInv
<1>4. CASE SaveStep /\ SomethingNew
  <2>1. bitmap_changed' = TRUE /\ seen \subseteq seen' /\ var_bytes' = var_bytes
    BY <1>4 DEF SomethingNew
  <2> QED BY <2>1 DEF BitmapFileInv
<1>5. CASE SaveStep /\ \E o \in input.again : Calibrate(o)
  <2> PICK o \in input.again : Calibrate(o)
    BY <1>5
  <2> DEFINE known == seen \union BitsOf(trace)
             good  == /\ stop_soon = 0 /\ o.fault = options.crash_mode
                      /\ options.non_instrumented_mode \/ count_bytes(o.trace) # 0
             t     == IF good THEN Classify(o.trace) ELSE trace
             var   == {e \in Edges : trace[e] # t[e]}
  <2>1. /\ seen' = known \union BitsOf(t) \union (var \X Bytes)
        /\ var_bytes' = var_bytes \union var
        /\ bitmap_changed' = (bitmap_changed \/ known \union BitsOf(t) # seen)
    BY DEF Calibrate
  <2>2. bitmap_file' = bitmap_file
    BY <1>5 DEF SaveStep, diskVars
  <2> HIDE DEF t, var
  <2>3. var_bytes' \X Bytes = (var_bytes \X Bytes) \union (var \X Bytes)
    BY <2>1
  <2>4. var_bytes' \X Bytes \subseteq seen'
    BY <2>1, <2>3 DEF BitmapFileInv
  <2>5. ASSUME ~bitmap_changed'
        PROVE  bitmap_file' \union (var_bytes' \X Bytes) = seen'
    <3>1. ~bitmap_changed /\ known \union BitsOf(t) = seen
      BY <2>1, <2>5
    <3>2. bitmap_file \union (var_bytes \X Bytes) = seen
      BY <3>1 DEF BitmapFileInv
    <3> QED BY <2>1, <2>2, <2>3, <3>1, <3>2
  <2> QED BY <2>4, <2>5 DEF BitmapFileInv
<1>6. CASE Load \/ FirstWrite \/ EnterLoop \/ StartCycle \/ RunInput \/ RequestSkip \/ SkipInput \/ KeepStep
           \/ NextInput \/ BeginShow \/ EndShow \/ StopFuzzing \/ Abort \/ Die \/ StopSignal
           \/ StopWhileRunning \/ Tick
  <2>1. UNCHANGED <<seen, var_bytes, bitmap_changed, bitmap_file>>
    BY <1>6 DEF Load, FirstWrite, EnterLoop, StartCycle, RunInput, Execute, RequestSkip, SkipInput, KeepStep, Keep,
       Keeping, NextInput, Back, BeginShow, ShowStats, EndShow, ShowRest, StopFuzzing, StopFuzzingWhen,
       Abort, Die, Dead, StopSignal, Stop, StopWhileRunning, Tick, bitmapVars, mapVars, statsVars, diskVars
  <2> QED BY <2>1 DEF BitmapFileInv
<1> QED BY <1>1, <1>2, <1>3, <1>4, <1>5, <1>6 DEF FuzzerNext, Program

\* Once the loop is left, the last show_stats is forced through all its parts.
StatsFileInv ==
  /\ phase = "stopping" => force_ui_update
  /\ phase = "stopping" /\ spc \in {"rest", "none"} /\ ~options.non_instrumented_mode => stats_file = StatsNow
  /\ phase = "ended" => ~bitmap_changed /\ (options.non_instrumented_mode \/ stats_file = StatsNow)

\* Nothing that fuzzer_stats tells changes between the last update and the end.
LEMMA StatsFileStep ==
  ASSUME StatsFileInv, FuzzerNext
  PROVE  StatsFileInv'
<1>1. CASE StartSession \/ Load \/ FirstWrite \/ EnterLoop \/ Abort \/ Die
  <2>1. phase' \notin {"stopping", "ended"}
    BY <1>1 DEF StartSession, Load, FirstWrite, EnterLoop, Abort, Die, Dead
  <2> QED BY <2>1 DEF StatsFileInv
<1>2. CASE StartCycle \/ RunInput \/ RequestSkip \/ SkipInput \/ SaveStep \/ KeepStep \/ NextInput
           \/ StopWhileRunning \/ Tick
  <2>1. phase' = "main"
    BY <1>2 DEF StartCycle, RunInput, RequestSkip, SkipInput, SaveStep, KeepStep, NextInput, StopWhileRunning,
       Tick, Inside, fuzzerVars
  <2> QED BY <2>1 DEF StatsFileInv
<1>3. CASE BeginShow
  <2>1. phase' = phase /\ phase # "ended" /\ force_ui_update' = force_ui_update /\ options' = options
    BY <1>3 DEF BeginShow, Live, fuzzerVars
  <2>2. force_ui_update /\ ~options.non_instrumented_mode => spc' = "writing"
    BY <1>3 DEF BeginShow, ShowStats
  <2> QED BY <2>1, <2>2 DEF StatsFileInv
<1>4. CASE WriteShow
  <2>1. phase' = phase /\ phase # "ended" /\ force_ui_update' = force_ui_update /\ stats_file' = StatsNow
    BY <1>4 DEF WriteShow, WriteFiles, FillStats, Live
  <2>2. StatsNow' = StatsNow
    BY <1>4 DEF WriteShow, StatsNow, RunTime, CyclesDone, clockVars, cycleVars, pathVars, queueVars, countVars
  <2> QED BY <2>1, <2>2 DEF StatsFileInv
<1>5. CASE EndShow \/ StopSignal
  <2>1. phase' = phase /\ phase # "ended" /\ force_ui_update' = force_ui_update /\ options' = options
        /\ stats_file' = stats_file /\ (spc' = spc \/ spc = "rest")
    BY <1>5 DEF EndShow, ShowRest, StopSignal, Stop, Live, fuzzerVars, statsVars, diskVars
  <2>2. StatsNow' = StatsNow
    BY <1>5 DEF EndShow, StopSignal, Stop, StatsNow, RunTime, CyclesDone, clockVars, cycleVars, pathVars,
       queueVars, countVars, mapVars, statsVars
  <2> QED BY <2>1, <2>2 DEF StatsFileInv
<1>6. CASE StopFuzzing
  BY <1>6 DEF StopFuzzing, StopFuzzingWhen, StatsFileInv
<1>7. CASE Finish
  <2>1. phase = "stopping" /\ spc = "none" /\ phase' = "ended" /\ bitmap_changed' = FALSE
        /\ UNCHANGED <<options, stats_file>>
    BY <1>7 DEF Finish, WriteBitmap
  <2>2. StatsNow' = StatsNow
    BY <1>7 DEF Finish, StatsNow, RunTime, CyclesDone, clockVars, cycleVars, pathVars, queueVars, countVars
  <2> QED BY <2>1, <2>2 DEF StatsFileInv
<1> QED BY <1>1, <1>2, <1>3, <1>4, <1>5, <1>6, <1>7 DEF FuzzerNext, Program

\* The files of a session that has ended tell its final state.
THEOREM FinalStateIsOnDisk == FuzzerSpec => []FinalStateOnDisk
<1>1. FuzzerInit => BitmapFileInv /\ StatsFileInv
  BY DEF FuzzerInit, BitmapInit, BitmapFileInv, StatsFileInv
<1>2. BitmapFileInv /\ StatsFileInv /\ [FuzzerNext]_vars => BitmapFileInv' /\ StatsFileInv'
  <2> SUFFICES ASSUME BitmapFileInv, StatsFileInv, UNCHANGED vars PROVE BitmapFileInv' /\ StatsFileInv'
    BY BitmapFileStep, StatsFileStep
  <2>1. BitmapFileInv'
    BY DEF BitmapFileInv, vars, bitmapVars, mapVars, statsVars, diskVars
  <2>2. StatsNow' = StatsNow
    BY DEF StatsNow, RunTime, CyclesDone, vars, bitmapVars, mapVars, pathVars, queueVars, countVars,
       statsVars, clockVars, cycleVars
  <2>3. StatsFileInv'
    BY <2>2 DEF StatsFileInv, vars, bitmapVars, mapVars, statsVars, diskVars, fuzzerVars
  <2> QED BY <2>1, <2>3
<1>3. BitmapFileInv /\ StatsFileInv => FinalStateOnDisk
  BY DEF BitmapFileInv, StatsFileInv, FinalStateOnDisk
<1> QED BY <1>1, <1>2, <1>3, PTL DEF FuzzerSpec

-----------------------------------------------------------------------------
(* The plot.                                                                *)

\* An update is forced only at the end of a session that was told to stop.
PlotInv == WrappedRowIsLast /\ (force_ui_update => stop_soon # 0)

\* A row is written before the first cycle only if the update is forced.
LEMMA PlotStep ==
  ASSUME PlotInv, FuzzerNext
  PROVE  PlotInv'
<1>1. CASE EndShow \/ EnterLoop
  <2>1. plot_file' \in {plot_file, PlotRow} /\ (plot_file' # plot_file => ~NoPlot /\ plot_file' = PlotRow)
    BY <1>1 DEF EndShow, ShowRest, EnterLoop, MaybeUpdatePlot
  <2>2. ~NoPlot /\ PlotRow.cycles = "wrapped" => PlotRow.last /\ PlotRow.stop # 0
    BY DEF NoPlot, PlotRow, PlotInv
  <2>3. force_ui_update' = force_ui_update /\ (stop_soon' = stop_soon \/ stop_soon' = 2)
    BY <1>1 DEF EndShow, ShowRest, EnterLoop, bitmapVars
  <2> QED BY <2>1, <2>2, <2>3 DEF PlotInv, WrappedRowIsLast
<1>2. CASE StartSession
  <2>1. force_ui_update' = FALSE /\ plot_file' = plot_file
    BY <1>2 DEF StartSession, diskVars
  <2> QED BY <2>1 DEF PlotInv, WrappedRowIsLast
<1>3. CASE StopFuzzing
  <2>1. stop_soon' = 1 /\ plot_file' = plot_file
    BY <1>3 DEF StopFuzzing, StopFuzzingWhen, diskVars
  <2> QED BY <2>1 DEF PlotInv, WrappedRowIsLast
<1>4. CASE BeginShow \/ WriteShow
  <2>1. plot_file' = plot_file /\ force_ui_update' = force_ui_update /\ (stop_soon' = stop_soon \/ stop_soon' = 2)
    BY <1>4 DEF BeginShow, ShowStats, WriteShow, WriteFiles
  <2> QED BY <2>1 DEF PlotInv, WrappedRowIsLast
<1>5. CASE StopSignal \/ StopWhileRunning
  <2>1. plot_file' = plot_file /\ stop_soon' = 1
    BY <1>5 DEF StopSignal, Stop, StopWhileRunning, statsVars, diskVars
  <2> QED BY <2>1 DEF PlotInv, WrappedRowIsLast
<1>6. CASE SaveStep
  <2>1. plot_file' = plot_file /\ force_ui_update' = force_ui_update
    BY <1>6 DEF SaveStep, diskVars
  <2>2. stop_soon' = stop_soon
    BY <1>6 DEF SaveStep, SaveIfInteresting, NothingNew, SomethingNew, Unexpected, UnexpectedWith, SaveToQueue,
       SaveToQueueUnder, JudgeNormal, JudgeCrash, JudgeTimeout, JudgeTimeoutWith, SaveHang,
       KeepAsCrash, Calibrate, Rerun, RerunTaking
  <2> QED BY <2>1, <2>2 DEF PlotInv, WrappedRowIsLast
<1>7. CASE Load \/ FirstWrite \/ StartCycle \/ RunInput \/ RequestSkip \/ SkipInput \/ KeepStep
           \/ NextInput \/ Finish \/ Abort \/ Die \/ Tick
  <2>1. UNCHANGED <<plot_file, force_ui_update, stop_soon>>
    BY <1>7 DEF Load, FirstWrite, StartCycle, RunInput, Execute, RequestSkip, SkipInput, KeepStep, Keep, Keeping,
       NextInput, Back, Finish, Abort, Die, Dead, Tick, bitmapVars, statsVars, diskVars
  <2> QED BY <2>1 DEF PlotInv, WrappedRowIsLast
<1> QED BY <1>1, <1>2, <1>3, <1>4, <1>5, <1>6, <1>7 DEF FuzzerNext, Program

\* A plot row with wrapped cycles is the last of a session that was stopped before its first cycle.
THEOREM WrappedRowComesLast == FuzzerSpec => []WrappedRowIsLast
<1>1. FuzzerInit => PlotInv
  BY DEF FuzzerInit, PlotInv, WrappedRowIsLast, NoRow
<1>2. PlotInv /\ [FuzzerNext]_vars => PlotInv'
  <2> SUFFICES ASSUME PlotInv, UNCHANGED vars PROVE PlotInv'
    BY PlotStep
  <2> QED BY DEF PlotInv, WrappedRowIsLast, vars, bitmapVars, statsVars, diskVars
<1>3. PlotInv => WrappedRowIsLast
  BY DEF PlotInv
<1> QED BY <1>1, <1>2, <1>3, PTL DEF FuzzerSpec

-----------------------------------------------------------------------------
(* Progress.                                                                *)

\* While it is being written the file is torn, otherwise it is what was written last; so a session that
\* is about to load it starts from the progress it will be measured by.
ProgressInv ==
  /\ IsStats(progress) =>
       /\ progress.run_time \in Nat /\ progress.cycles_done \in Nat /\ progress.execs_done \in Nat
       /\ \/ stats_file = progress
          \/ stats_file = Torn /\ spc = "writing" /\ phase \in {"first", "main", "stopping"}
  /\ session = 0 => phase = "off"
  /\ phase = "off" \/ (phase = "setup" /\ session = 1) => ~IsStats(progress)
  /\ phase = "setup" => spc = "none" /\ session > 0
  /\ phase = "first" => start_time = now
  /\ ProgressSurvives

\* What load_stats_file finds in a whole file.
LEMMA LoadedProgress ==
  ASSUME IsStats(stats_file)
  PROVE  /\ Line(stats_file, 3, "run_time", prev_run_time) = stats_file.run_time
         /\ Line(stats_file, 7, "execs_done", total_execs) = stats_file.execs_done
         /\ LoadedCycles = stats_file.cycles_done
<1>1. StatsLines[3] = "run_time" /\ StatsLines[5] = "cycles_done" /\ StatsLines[7] = "execs_done"
  BY DEF StatsLines
<1> QED BY <1>1 DEF Line, LoadedCycles

\* The cycles done grow with the cycles.
LEMMA CyclesGrow ==
  ASSUME NEW n \in Nat, NEW m \in Nat, m >= n, NEW r, NEW s,
         r = IF n = 0 THEN 0 ELSE n - 1, s = IF m = 0 THEN 0 ELSE m - 1
  PROVE  s >= r /\ r \in Nat /\ s \in Nat
<1>1. r \in Nat
  OBVIOUS
<1>2. s \in Nat
  OBVIOUS
<1> QED BY <1>1, <1>2

\* Reports grow within a session, and the next session starts from the last one.
LEMMA ProgressStep ==
  ASSUME IType, ProgressInv, FuzzerNext
  PROVE  ProgressInv'
<1> DEFINE Kept == /\ RunTime >= progress.run_time
                   /\ total_execs >= progress.execs_done
                   /\ CyclesDone >= progress.cycles_done
<1>1. ~IsStats(NoFile) /\ ~IsStats(Torn)
  BY DEF IsStats
<1>2. CASE StartSession
  <2>1. /\ session' = session + 1 /\ phase' \in {"setup", "killed"} /\ spc' = "none"
        /\ UNCHANGED <<stats_file, progress>> /\ session \in Nat /\ phase \in {"off", "ended", "killed"}
    BY <1>2, PlanType DEF StartSession, diskVars, IType, ControlTypes
  <2>2. session' = 1 => ~IsStats(progress)
    BY <2>1 DEF ProgressInv
  <2> QED BY <2>1, <2>2 DEF ProgressInv, ProgressSurvives
<1>3. CASE Load
  <2>1. phase = "setup" /\ phase' = "first" /\ start_time' = now /\ UNCHANGED <<now, session, progress>>
    BY <1>3 DEF Load
  <2>2. CASE ~IsStats(progress)
    BY <2>1, <2>2 DEF ProgressInv, ProgressSurvives
  <2>3. CASE IsStats(progress)
    <3>1. session > 1 /\ stats_file = progress
      BY <2>1, <2>3, PlanType DEF ProgressInv, IType, ControlTypes
    <3>2. /\ prev_run_time' = progress.run_time /\ total_execs' = progress.execs_done
          /\ queue_cycle' = IF progress.cycles_done = 0 THEN 0 ELSE progress.cycles_done + 1
      BY <1>3, <2>3, <3>1, LoadedProgress DEF Load, LoadStats, LoadStatsInCycle
    <3>3. RunTime' = progress.run_time /\ CyclesDone' = progress.cycles_done
      BY <2>1, <2>3, <3>2 DEF RunTime, CyclesDone, ProgressInv, IType, FigureTypes
    <3>4. Kept'
      BY <2>1, <2>3, <3>2, <3>3 DEF ProgressInv
    <3>5. stats_file' = stats_file \/ (stats_file' = Torn /\ spc' = "writing")
      BY <1>3 DEF Load, TruncateStats
    <3> QED BY <2>1, <2>3, <3>1, <3>4, <3>5 DEF ProgressInv, ProgressSurvives
  <2> QED BY <2>2, <2>3
<1>4. CASE FirstWrite \/ WriteShow
  <2>1. /\ stats_file' = StatsNow /\ progress' = StatsNow /\ phase' = phase /\ session' = session
        /\ phase \notin {"off", "setup"}
        /\ UNCHANGED <<now, start_time, prev_run_time, total_execs, queue_cycle>>
    BY <1>4 DEF FirstWrite, WriteShow, WriteFiles, FillStats, clockVars, cycleVars, bitmapVars, ProgressInv, Live
  <2>2. RunTime \in Nat /\ CyclesDone \in Nat /\ total_execs \in Nat
    BY DEF IType, FigureTypes, BitmapTypeOK, RunTime, CyclesDone
  <2>3. StatsNow.run_time = RunTime /\ StatsNow.cycles_done = CyclesDone /\ StatsNow.execs_done = total_execs
    BY DEF StatsNow
  <2>4. RunTime' = RunTime /\ CyclesDone' = CyclesDone
    BY <2>1 DEF RunTime, CyclesDone
  <2>5. Kept'
    BY <2>1, <2>2, <2>3, <2>4
  <2> QED BY <2>1, <2>2, <2>3, <2>5 DEF ProgressInv, ProgressSurvives
<1>5. CASE EnterLoop
  <2>1. phase = "first" /\ phase' = "main" /\ start_time' = now
        /\ UNCHANGED <<now, prev_run_time, total_execs, queue_cycle, stats_file, spc, session, progress>>
    BY <1>5 DEF EnterLoop, bitmapVars, cycleVars
  <2>2. RunTime' = RunTime /\ CyclesDone' = CyclesDone
    BY <2>1 DEF RunTime, CyclesDone, ProgressInv
  <2> QED BY <2>1, <2>2 DEF ProgressInv, ProgressSurvives
<1>6. CASE BeginShow
  <2>1. /\ phase' = phase /\ session' = session /\ progress' = progress /\ spc = "called" /\ Live
        /\ UNCHANGED <<now, start_time, prev_run_time, total_execs, queue_cycle>>
        /\ stats_file' = stats_file \/ (stats_file' = Torn /\ spc' = "writing")
    BY <1>6 DEF BeginShow, ShowStats, TruncateStats, clockVars, cycleVars, fuzzerVars
  <2>2. RunTime' = RunTime /\ CyclesDone' = CyclesDone
    BY <2>1 DEF RunTime, CyclesDone
  <2>3. phase \in {"first", "main", "stopping"}
    BY <2>1 DEF ProgressInv, Live, IType, ControlTypes, Phases
  <2> QED BY <2>1, <2>2, <2>3 DEF ProgressInv, ProgressSurvives
<1>7. CASE Abort \/ Die
  <2>1. phase' = "killed" /\ UNCHANGED <<session, stats_file>> /\ Live
        /\ progress' = IF stats_file = Torn THEN NoFile ELSE progress
    BY <1>7 DEF Abort, Die, Dead, Inside, Live, statsVars, diskVars
  <2> QED BY <1>1, <2>1 DEF ProgressInv, ProgressSurvives, Live
<1>8. CASE StartCycle \/ RunInput \/ RequestSkip \/ SkipInput \/ SaveStep \/ KeepStep \/ NextInput \/ Tick
           \/ StopWhileRunning
  <2>1. /\ phase = "main" /\ spc = "none" /\ UNCHANGED <<phase, session, progress, stats_file, start_time, prev_run_time>>
    BY <1>8 DEF StartCycle, RunInput, RequestSkip, SkipInput, SaveStep, KeepStep, NextInput, Tick,
       StopWhileRunning, Inside, statsVars, diskVars, clockVars, fuzzerVars
  <2>2. now \in Nat /\ start_time \in Nat /\ prev_run_time \in Nat /\ queue_cycle \in Nat /\ total_execs \in Nat
    BY DEF IType, FigureTypes, BitmapTypeOK
  <2>3. now' \in {now, now + 1} /\ queue_cycle' \in {queue_cycle, queue_cycle + 1}
    BY <1>8 DEF StartCycle, RunInput, RequestSkip, SkipInput, SaveStep, KeepStep, NextInput, Tick, StopWhileRunning,
       statsVars, clockVars, cycleVars
  <2>4. total_execs' \in {total_execs, total_execs + 1}
    <3>1. CASE SaveStep
      BY <3>1 DEF SaveStep, SaveIfInteresting, NothingNew, SomethingNew, Unexpected, UnexpectedWith, SaveToQueue,
         SaveToQueueUnder, JudgeNormal, JudgeCrash, JudgeTimeout, JudgeTimeoutWith, SaveHang,
         KeepAsCrash, Calibrate, Rerun, RerunTaking
    <3>2. CASE ~SaveStep
      BY <1>8, <3>2 DEF StartCycle, RunInput, Execute, RequestSkip, SkipInput, KeepStep, Keep, Keeping, NextInput,
         Back, Tick, StopWhileRunning, bitmapVars
    <3> QED BY <3>1, <3>2
  <2>5. RunTime' >= RunTime /\ RunTime \in Int /\ RunTime' \in Int
    <3>1. now' \in Nat /\ now' >= now /\ start_time' = start_time /\ prev_run_time' = prev_run_time
      BY <2>1, <2>2, <2>3
    <3>2. RunTime = (prev_run_time + now) - start_time /\ RunTime' = (prev_run_time + now') - start_time
      BY <3>1 DEF RunTime
    <3>3. RunTime \in Int /\ RunTime' \in Int
      BY <2>2, <3>1, <3>2
    <3>4. CASE now' = now
      <4>1. RunTime' = RunTime
        BY <3>1, <3>4 DEF RunTime
      <4> QED BY <3>3, <4>1
    <3>5. CASE now' = now + 1
      <4>1. RunTime' = RunTime + 1
        BY <2>2, <3>2, <3>5
      <4> QED BY <3>3, <4>1
    <3> QED BY <2>3, <3>4, <3>5
  <2>6. CyclesDone' >= CyclesDone /\ CyclesDone \in Nat /\ CyclesDone' \in Nat
    <3>1. queue_cycle' \in Nat /\ queue_cycle' >= queue_cycle
      BY <2>2, <2>3
    <3>2. /\ CyclesDone = IF queue_cycle = 0 THEN 0 ELSE queue_cycle - 1
          /\ CyclesDone' = IF queue_cycle' = 0 THEN 0 ELSE queue_cycle' - 1
      BY DEF CyclesDone
    <3> QED BY <2>2, <3>1, <3>2, CyclesGrow
  <2>7. ASSUME IsStats(progress) PROVE Kept'
    <3>1. Kept /\ progress.run_time \in Nat /\ progress.cycles_done \in Nat /\ progress.execs_done \in Nat
      BY <2>1, <2>7 DEF ProgressInv, ProgressSurvives
    <3> QED BY <2>1, <2>2, <2>4, <2>5, <2>6, <3>1
  <2> QED BY <2>1, <2>7 DEF ProgressInv, ProgressSurvives
<1>9. CASE EndShow \/ StopFuzzing \/ Finish \/ StopSignal
  <2>1. /\ Live /\ UNCHANGED <<session, progress, stats_file, now, start_time, prev_run_time, queue_cycle, total_execs>>
        /\ spc = "writing" => spc' = "writing" /\ phase' = phase
        /\ phase' = phase \/ (phase' = "stopping" /\ phase = "main") \/ (phase' = "ended" /\ phase = "stopping")
        /\ phase = "setup" => spc' = spc \/ spc = "rest"
    BY <1>9 DEF EndShow, ShowRest, StopFuzzing, StopFuzzingWhen, Finish, StopSignal, Stop, Live, Inside,
       statsVars, clockVars, cycleVars, diskVars, fuzzerVars
  <2>2. RunTime' = RunTime /\ CyclesDone' = CyclesDone
    BY <2>1 DEF RunTime, CyclesDone
  <2> QED BY <2>1, <2>2 DEF ProgressInv, ProgressSurvives, Live
<1> QED BY <1>2, <1>3, <1>4, <1>5, <1>6, <1>7, <1>8, <1>9 DEF FuzzerNext, Program

\* No session counts less than an earlier one reported, however it ended.
THEOREM ProgressIsKept == FuzzerSpec => []ProgressSurvives
<1>1. FuzzerInit => ProgressInv
  BY DEF FuzzerInit, ProgressInv, ProgressSurvives, IsStats
<1>2. IType /\ ProgressInv /\ [FuzzerNext]_vars => ProgressInv'
  <2> SUFFICES ASSUME IType, ProgressInv, [FuzzerNext]_vars PROVE ProgressInv'
    OBVIOUS
  <2>1. CASE FuzzerNext
    BY <2>1, ProgressStep
  <2>2. CASE UNCHANGED vars
    BY <2>2 DEF ProgressInv, ProgressSurvives, RunTime, CyclesDone, vars, bitmapVars, statsVars, clockVars,
       cycleVars, diskVars, fuzzerVars
  <2> QED BY <2>1, <2>2
<1>3. ProgressInv => ProgressSurvives
  BY DEF ProgressInv
<1> QED BY <1>1, <1>2, <1>3, TypeCorrect, PTL DEF FuzzerSpec

-----------------------------------------------------------------------------
(* The time limit.                                                          *)

\* Rounding up is enough: the limit is more than the slowest seed took, or it is the maximum.
LEMMA CalibrationFits ==
  ASSUME NEW avg \in Nat, NEW max \in Nat, NEW fixed
  PROVE  LET c == CalibratedTimeout(avg, max, fixed) IN c * 1000 > max \/ c = ExecTimeout
<1> DEFINE factor == IF fixed \/ avg <= 10000 THEN 5 ELSE IF avg <= 50000 THEN 3 ELSE 2
           r1     == (avg * factor) \div 1000
           r2     == max \div 1000
           raw    == MaxOf(r1, r2)
           x      == ((raw + TimeoutRound) \div TimeoutRound) * TimeoutRound
           c      == CalibratedTimeout(avg, max, fixed)
<1>1. ExecTimeout \in Nat /\ TimeoutRound \in Nat \ {0}
  BY BitmapAssumption, PeriodAssumption
<1>2. c = MinOf(ExecTimeout, x)
  BY DEF CalibratedTimeout
<1>3. r1 \in Nat /\ r2 \in Nat
  <2>1. factor \in {2, 3, 5}
    OBVIOUS
  <2>2. avg * factor \in Nat
    BY <2>1
  <2> HIDE DEF factor
  <2>3. r1 \in Nat
    BY <2>2
  <2>4. r2 \in Nat
    OBVIOUS
  <2> QED BY <2>3, <2>4
<1>4. (r2 + 1) * 1000 > max
  OBVIOUS
<1> HIDE DEF r1, r2, c
<1>5. raw \in Nat /\ raw >= r2
  BY <1>3 DEF MaxOf
<1> HIDE DEF raw
<1>6. x \in Nat /\ x > raw
  <2>1. \A y \in Nat, n \in Nat \ {0} : (y \div n) * n + n > y /\ y \div n \in Nat
    OBVIOUS
  <2> DEFINE units == (raw + TimeoutRound) \div TimeoutRound
  <2>2. units \in Nat /\ units * TimeoutRound + TimeoutRound > raw + TimeoutRound
    BY <1>1, <1>5, <2>1
  <2> HIDE DEF units
  <2>3. units * TimeoutRound \in Nat
    BY <1>1, <2>2
  <2>4. \A a, b, n \in Nat : a + n > b + n => a > b
    OBVIOUS
  <2>5. units * TimeoutRound > raw
    BY <1>1, <1>5, <2>2, <2>3, <2>4
  <2> QED BY <2>3, <2>5 DEF units
<1> HIDE DEF x
<1>7. x * 1000 > max
  BY <1>3, <1>4, <1>5, <1>6
<1>8. c = ExecTimeout \/ c = x
  BY <1>2 DEF MinOf
<1> QED BY <1>7, <1>8 DEF c

\* The settings of a session are not changed within it.
LEMMA OptionsStay ==
  ASSUME FuzzerNext, ~StartSession
  PROVE  options' = options
<1>1. CASE UNCHANGED coreVars
  BY <1>1 DEF coreVars
<1>2. CASE \E i \in Plan.inputs : Execute(i)
  BY <1>2 DEF Execute
<1>3. CASE SaveIfInteresting
  BY <1>3 DEF SaveIfInteresting, NothingNew, SomethingNew, Unexpected, UnexpectedWith, SaveToQueue,
     SaveToQueueUnder, JudgeNormal, JudgeCrash, JudgeTimeout, JudgeTimeoutWith, SaveHang,
     KeepAsCrash, Calibrate, Rerun, RerunTaking
<1>4. CASE Keep \/ Back
  BY <1>4 DEF Keep, Keeping, Back
<1> QED BY <1>1, <1>2, <1>3, <1>4, StepOfBitmap

\* The limit is chosen at the start and stays.
LEMMA SeedsStep ==
  ASSUME IType, SeedsFitTimeout, FuzzerNext
  PROVE  SeedsFitTimeout'
<1>1. campaign' = campaign
  BY DEF FuzzerNext, Program, StartSession, Load, FirstWrite, EnterLoop, StartCycle, RunInput, RequestSkip,
     SkipInput, SaveStep, KeepStep, NextInput, BeginShow, WriteShow, EndShow, StopFuzzing, StopFuzzingWhen,
     Finish, Abort, Die, Dead, StopSignal, StopWhileRunning, Tick, fuzzerVars
<1>2. Plan' = Plan
  BY <1>1 DEF Plan
<1>3. CASE StartSession
  <2> DEFINE env == ReadEnvironment(Plan.environ)
             c   == CalibratedTimeout(Plan.timing.avg_us, Plan.timing.max_us, Plan.timing.fixed_seed)
  <2>1. options' = InitTimeouts(Plan.options, Plan.timing, env)
    BY <1>3 DEF StartSession, StartBitmap
  <2> HIDE DEF env
  <2>2. Plan.options \in OptionType /\ Plan.timing.avg_us \in Nat /\ Plan.timing.max_us \in Nat
    BY PlanType DEF IType, ControlTypes
  <2>3. Plan.timing.given # 1 => options'.exec_tmout = c
    BY <2>1, <2>2 DEF InitTimeouts, OptionType
  <2>4. c * 1000 > Plan.timing.max_us \/ c = ExecTimeout
    BY <2>2, CalibrationFits
  <2> HIDE DEF c
  <2> QED BY <1>2, <2>3, <2>4 DEF SeedsFitTimeout
<1>4. CASE ~StartSession
  <2>1. Live' => Live
    BY <1>4 DEF FuzzerNext, Program, Load, FirstWrite, EnterLoop, StartCycle, RunInput, RequestSkip,
     SkipInput, SaveStep, KeepStep, NextInput, BeginShow, WriteShow, EndShow, StopFuzzing, StopFuzzingWhen,
     Finish, Abort, Die, Dead, StopSignal, StopWhileRunning, Tick, fuzzerVars, Live, Inside
  <2> QED BY <1>2, <1>4, <2>1, OptionsStay DEF SeedsFitTimeout
<1> QED BY <1>3, <1>4

\* The time limit found at the start of a session fits every seed, for any times and any rounding.
THEOREM SeedsAlwaysFit == FuzzerSpec => []SeedsFitTimeout
<1>1. FuzzerInit => SeedsFitTimeout
  BY DEF FuzzerInit, SeedsFitTimeout, Live
<1>2. IType /\ SeedsFitTimeout /\ [FuzzerNext]_vars => SeedsFitTimeout'
  <2> SUFFICES ASSUME IType, SeedsFitTimeout, [FuzzerNext]_vars PROVE SeedsFitTimeout'
    OBVIOUS
  <2>1. CASE UNCHANGED vars
    BY <2>1 DEF SeedsFitTimeout, Live, Plan, vars, bitmapVars, fuzzerVars
  <2> QED BY <2>1, SeedsStep
<1> QED BY <1>1, <1>2, TypeCorrect, PTL DEF FuzzerSpec

-----------------------------------------------------------------------------
(* The environment.                                                         *)

\* A session's settings are read once, at its start.
LEMMA SettingsStep ==
  ASSUME IType, SettingsAsGiven, FuzzerNext
  PROVE  SettingsAsGiven'
<1>1. campaign' = campaign /\ Plan' = Plan
  BY DEF FuzzerNext, Program, StartSession, Load, FirstWrite, EnterLoop, StartCycle, RunInput, RequestSkip,
     SkipInput, SaveStep, KeepStep, NextInput, BeginShow, WriteShow, EndShow, StopFuzzing, StopFuzzingWhen,
     Finish, Abort, Die, Dead, StopSignal, StopWhileRunning, Tick, fuzzerVars, Plan
<1>2. CASE StartSession
  <2>1. Plan.environ \in Seq(Entry)
    BY CampaignAssumption DEF Plan, IType, ControlTypes
  <2>2. SettingsOf(Plan.environ, ReadEnvironment(Plan.environ))
    BY <2>1, EnvironmentIsObeyed
  <2>3. settings' = ReadEnvironment(Plan.environ)
    BY <1>2 DEF StartSession
  <2> QED BY <1>1, <2>2, <2>3 DEF SettingsAsGiven
<1>3. CASE ~StartSession
  <2>1. session' = session
    BY <1>3 DEF FuzzerNext, Program, Load, FirstWrite, EnterLoop, StartCycle, RunInput, RequestSkip, SkipInput,
       SaveStep, KeepStep, NextInput, BeginShow, WriteShow, EndShow, StopFuzzing, StopFuzzingWhen, Finish,
       Abort, Die, Dead, StopSignal, StopWhileRunning, Tick, fuzzerVars
  <2>2. settings' = settings
    BY <1>3 DEF FuzzerNext, Program, Load, FirstWrite, EnterLoop, StartCycle, RunInput, RequestSkip, SkipInput,
       SaveStep, KeepStep, NextInput, BeginShow, WriteShow, EndShow, StopFuzzing, StopFuzzingWhen, Finish,
       Abort, Die, Dead, StopSignal, StopWhileRunning, Tick, statsVars
  <2> QED BY <1>1, <2>1, <2>2 DEF SettingsAsGiven
<1> QED BY <1>2, <1>3

\* In every session of every campaign all settings, the switches, the texts and the five numbers,
\* are those its environment asks for, whatever it holds and in whatever order (the rules are those
\* of SettingsAsGiven).
THEOREM SettingsAreAsGiven == FuzzerSpec => []SettingsAsGiven
<1>1. FuzzerInit => SettingsAsGiven
  BY DEF FuzzerInit, SettingsAsGiven
<1>2. IType /\ SettingsAsGiven /\ [FuzzerNext]_vars => SettingsAsGiven'
  <2> SUFFICES ASSUME IType, SettingsAsGiven, [FuzzerNext]_vars PROVE SettingsAsGiven'
    OBVIOUS
  <2>1. CASE UNCHANGED vars
    BY <2>1 DEF SettingsAsGiven, Plan, vars, statsVars, fuzzerVars
  <2> QED BY <2>1, SettingsStep
<1> QED BY <1>1, <1>2, TypeCorrect, PTL DEF FuzzerSpec

-----------------------------------------------------------------------------
(* The end of a call of save_if_interesting.                                *)

\* For any map, any inputs and outcomes, and any number of timeouts sent back to the queue, a call of
\* save_if_interesting has a bound that every step of it lowers.
THEOREM SaveComesToAnEnd == FuzzerSpec => SaveAdvances
<1>1. ASSUME IType, [FuzzerNext]_vars
      PROVE  [Live /\ ToGo > 0 /\ ~(options.non_instrumented_mode /\ options.keep_timeouts) =>
                Unmarked' < Unmarked \/ (Unmarked' = Unmarked /\ ToGo' < ToGo)]_<<pc, seen_tmout, options>>
  <2> SUFFICES ASSUME Live, ToGo > 0, ~(options.non_instrumented_mode /\ options.keep_timeouts),
                      ~UNCHANGED <<pc, seen_tmout, options>>
               PROVE  Closer
    BY DEF Closer
  <2>1. FuzzerNext /\ ~UNCHANGED coreVars
    BY <1>1 DEF vars, bitmapVars, mapVars, coreVars, runVars
  <2>2. ~StartSession
    BY DEF StartSession, Live
  <2>3. ~\E i \in Plan.inputs : Execute(i)
    BY DEF Execute, ToGo
  <2> QED BY <1>1, <2>1, <2>2, <2>3, StepOfBitmap, SaveStepAdvances DEF IType
<1> QED BY <1>1, TypeCorrect, PTL DEF FuzzerSpec, SaveAdvances
=============================================================================
