------------------------------ MODULE AflBitmap ------------------------------
(***************************************************************************)
(* What CTFuzz's afl-fuzz does with an executed input (afl-fuzz-bitmap.c): *)
(* save_if_interesting with the list of unique paths CTFuzz added to it,   *)
(* the classification of traces, and the three virgin maps.                *)
(*                                                                         *)
(* A trace gives every edge a byte.  A virgin map is kept as the set of    *)
(* the bits it has cleared, <<edge, bit>>.  A path is the set of edges     *)
(* with a non-zero byte; it stands for cksum, the hash of the map reduced  *)
(* to 0 and 1, so hash collisions are left out.                            *)
(*                                                                         *)
(* save_if_interesting is cut where it runs the target again or a signal   *)
(* can change its course: pc "save" is its beginning, "queue" the label    *)
(* save_to_queue, "judge" the switch, "rerun" the second chance of a hang, *)
(* "crash" the label keep_as_crash.  The target and calibrate_case are     *)
(* AFL++'s; an input comes with the outcomes that running it can have.     *)
(*                                                                         *)
(* Bounds: MaxInputs executed inputs, FreqCap for 2^32 - 1.                *)
(***************************************************************************)
EXTENDS Naturals, Sequences, FiniteSets, SequencesExt

CONSTANTS Edges,        \* entries of the coverage map
          Inputs,       \* what may be executed, see InputType
          Seed,         \* the trace of the initial input
          KeepHangs,    \* KEEP_UNIQUE_HANG
          KeepCrashes,  \* KEEP_UNIQUE_CRASH
          ExecTimeout,  \* EXEC_TIMEOUT
          FreqCap,      \* bound of a counter of n_fuzz
          MaxInputs     \* bound: inputs executed in a session

Bytes     == {1, 2, 4, 8, 16, 32, 64, 128}
Bits      == Edges \X Bytes
Traces    == [Edges -> 0..255]
Faults    == {"OK", "TMOUT", "CRASH", "ERROR"}      \* FSRV_RUN_*
Outcome   == [trace : Traces, fault : Faults]
Schedules == {"EXPLORE", "MMOPT", "EXPLOIT", "FAST", "COE", "LIN", "QUAD", "RARE", "SEEK"}

InputType == [len : {0, 1}, first : Outcome, again : SUBSET Outcome]
OptionType ==
  [schedule : Schedules, crash_mode : {"OK", "CRASH"}, non_instrumented_mode : BOOLEAN,
   keep_timeouts : BOOLEAN, no_crash_readme : BOOLEAN, exec_tmout : Nat, hang_tmout : Nat]

ASSUME BitmapAssumption ==
  /\ IsFiniteSet(Edges)
  /\ Inputs \subseteq InputType
  /\ \A i \in Inputs : i.again # {}
  /\ Seed \in Traces
  /\ KeepHangs \in Nat /\ KeepCrashes \in Nat /\ MaxInputs \in Nat /\ ExecTimeout \in Nat
  /\ FreqCap \in Nat \ {0}

VARIABLES
  options,            \* the settings of this session
  pc, input, trace, fault, path, new_bits, classified, is_timeout,   \* one execution
  seen, seen_tmout, seen_crash,  \* cleared bits of virgin_bits, virgin_tmout, virgin_crash
  var_bytes, bitmap_changed,
  unique_path, total_unique_path, n_fuzz,
  queue, queued_with_cov,        \* queue entries: path, tags of the name, bits they can show
  total_crashes, saved_crashes, total_tmouts, saved_hangs, saved_tmouts,
  crashes, readme,               \* directory crashes/: the simplified traces saved, README.txt
  total_execs, stop_soon,
  executed, ran, timeouts, crashed  \* history: inputs, their paths, timed-out ones, crash traces
                                    \* (of first runs, and of the second runs of hangs)

runVars   == <<pc, input, trace, fault, path, new_bits, classified, is_timeout>>
mapVars   == <<seen, seen_tmout, seen_crash, var_bytes, bitmap_changed>>
pathVars  == <<unique_path, total_unique_path, n_fuzz>>
queueVars == <<queue, queued_with_cov>>
countVars == <<total_crashes, saved_crashes, total_tmouts, saved_hangs, saved_tmouts>>
fileVars  == <<crashes, readme>>
history   == <<executed, ran, timeouts, crashed>>
bitmapVars == <<options, runVars, mapVars, pathVars, queueVars, countVars, fileVars,
                total_execs, stop_soon, history>>

Silence == [e \in Edges |-> 0]
\* what afl_state_init sets
DefaultOptions ==
  [schedule |-> "FAST", crash_mode |-> "OK", non_instrumented_mode |-> FALSE, keep_timeouts |-> FALSE,
   no_crash_readme |-> FALSE, exec_tmout |-> ExecTimeout, hang_tmout |-> ExecTimeout]
NoInput == [len |-> 0, first |-> [trace |-> Silence, fault |-> "OK"], again |-> {}]
NULL == <<>>       \* n_fuzz before main allocates it, which it does for some schedules only

(* ---- traces and maps -------------------------------------------------- *)

count_class_lookup8 ==
  [n \in 0..255 |-> CASE n \in 0..2    -> n
                      [] n = 3         -> 4
                      [] n \in 4..7    -> 8
                      [] n \in 8..15   -> 16
                      [] n \in 16..31  -> 32
                      [] n \in 32..127 -> 64
                      [] OTHER         -> 128]

simplify_lookup == [n \in 0..255 |-> IF n = 0 THEN 1 ELSE 128]

Classify(t) == [e \in Edges |-> count_class_lookup8[t[e]]]     \* classify_counts
Simplify(t) == [e \in Edges |-> simplify_lookup[t[e]]]         \* simplify_trace

Hit(t)      == {e \in Edges : t[e] # 0}
BitsOf(t)   == {x \in Bits : (t[x[1]] \div x[2]) % 2 = 1}
Touched(s)  == {e \in Edges : \E b \in Bytes : <<e, b>> \in s}

count_bytes(t)         == Cardinality(Hit(t))
count_non_255_bytes(s) == Cardinality(Touched(s))

\* 2: an edge seen for the first time, 1: only new hit counts, 0: nothing new
has_new_bits(t, s) ==
  IF Hit(t) \ Touched(s) # {} THEN 2 ELSE IF BitsOf(t) \ s # {} THEN 1 ELSE 0

has_new_bits_unclassified(t, s) == has_new_bits(Classify(t), s)

(* ---- save_if_interesting: the execution and its path ------------------ *)

FastSchedules == {"FAST", "COE", "LIN", "QUAD", "RARE"}

Return == pc' = "returned"

\* fuzz_run_target, as common_fuzz_stuff calls it, up to save_if_interesting
Execute(i) ==
  /\ pc = "idle" /\ executed < MaxInputs
  /\ input' = i /\ trace' = i.first.trace /\ fault' = i.first.fault
  /\ new_bits' = 0 /\ classified' = FALSE /\ is_timeout' = FALSE
  /\ IF i.len = 0 THEN Return ELSE pc' = "save"
  /\ total_execs' = total_execs + 1 /\ executed' = executed + 1
  /\ UNCHANGED <<options, path, mapVars, pathVars, queueVars, countVars, fileVars, stop_soon,
                 ran, timeouts, crashed>>

RecordPathIn(known) ==
  /\ pc = "save"
  /\ path' = Hit(trace)
  /\ IF path' \in known
       THEN UNCHANGED <<unique_path, total_unique_path>>
       ELSE /\ unique_path' = Append(unique_path, path')
            /\ total_unique_path' = total_unique_path + 1
  /\ n_fuzz' = IF options.schedule \in FastSchedules /\ n_fuzz[path'] < FreqCap
                 THEN [n_fuzz EXCEPT ![path'] = @ + 1] ELSE n_fuzz
  /\ ran' = ran \union {path'}

\* Fault: the walk along the list ends before its last element is compared.
RecordPathShortWalk == RecordPathIn({unique_path[k] : k \in 1..(Len(unique_path) - 1)})

\* the walk along the list, the counter, and the frequency of the path
RecordPath == RecordPathIn(ToSet(unique_path))

NothingNew ==
  /\ RecordPath
  /\ fault = options.crash_mode /\ has_new_bits_unclassified(trace, seen) = 0
  /\ total_crashes' = IF options.crash_mode = "CRASH" THEN total_crashes + 1 ELSE total_crashes
  /\ Return
  /\ UNCHANGED <<options, input, trace, fault, new_bits, classified, is_timeout, mapVars, queueVars,
                 saved_crashes, total_tmouts, saved_hangs, saved_tmouts, fileVars, total_execs,
                 stop_soon, executed, timeouts, crashed>>

SomethingNew ==
  /\ RecordPath
  /\ fault = options.crash_mode /\ has_new_bits_unclassified(trace, seen) # 0
  /\ trace' = Classify(trace)
  /\ new_bits' = has_new_bits(trace', seen)
  /\ classified' = TRUE
  /\ seen' = seen \union BitsOf(trace') /\ bitmap_changed' = TRUE
  /\ pc' = "queue"
  /\ UNCHANGED <<options, input, fault, is_timeout, seen_tmout, seen_crash, var_bytes, queueVars,
                 countVars, fileVars, total_execs, stop_soon, executed, timeouts, crashed>>

UnexpectedWith(seen_now) ==
  /\ RecordPath
  /\ fault # options.crash_mode
  /\ pc' = "judge"
  /\ seen' = seen_now
  /\ timeouts' = IF fault = "TMOUT" THEN timeouts + 1 ELSE timeouts
  /\ crashed' = IF fault = "CRASH" THEN crashed \union {Simplify(trace)} ELSE crashed
  /\ UNCHANGED <<options, input, trace, fault, new_bits, classified, is_timeout, seen_tmout, seen_crash,
                 var_bytes, bitmap_changed, queueVars, countVars, fileVars, total_execs, stop_soon,
                 executed>>

\* Fault: the new coverage is recorded before the outcome is looked at.
UnexpectedMarks == UnexpectedWith(seen \union BitsOf(Classify(trace)))

\* any other outcome goes to the switch
Unexpected == UnexpectedWith(seen)

(* ---- save_to_queue ----------------------------------------------------- *)

\* describe_op: the part of a queue file's name that depends on the execution
Tags == (IF is_timeout THEN {"+tout"} ELSE {}) \union (IF new_bits = 2 THEN {"+cov"} ELSE {})

SaveToQueueUnder(p) ==
  /\ pc = "queue"
  /\ queue' = Append(queue, [path |-> path, tags |-> Tags, bits |-> BitsOf(trace),
                             has_new_cov |-> new_bits = 2])
  /\ queued_with_cov' = IF new_bits = 2 THEN queued_with_cov + 1 ELSE queued_with_cov
  /\ IF n_fuzz = NULL
       THEN pc' = "segfault" /\ UNCHANGED n_fuzz
       ELSE pc' = "calibrate" /\ n_fuzz' = [n_fuzz EXCEPT ![p] = 1]
  /\ UNCHANGED <<options, input, trace, fault, path, new_bits, classified, is_timeout, mapVars,
                 unique_path, total_unique_path, countVars, fileVars, total_execs, stop_soon, history>>

\* Fault: the frequency is that of the trace as it is now, after a second run.
SaveToQueueRehashed == SaveToQueueUnder(Hit(trace))

\* the write to n_fuzz is made whatever the schedule, through NULL if there is no table
SaveToQueue == SaveToQueueUnder(path)

\* calibrate_case on the new entry, every run of which has the outcome o.
\* Edges that differ between runs are variable and taken as fully discovered.
Calibrate(o) ==
  LET known == seen \union BitsOf(trace)
      good  == /\ stop_soon = 0 /\ o.fault = options.crash_mode
               /\ options.non_instrumented_mode \/ count_bytes(o.trace) # 0
      t     == IF good THEN Classify(o.trace) ELSE trace
      var   == {e \in Edges : trace[e] # t[e]}
      cov   == has_new_bits(trace, seen) = 2 \/ has_new_bits(t, known) = 2
      last  == queue[Len(queue)]
  IN /\ pc = "calibrate" /\ o \in input.again
     /\ total_execs' = total_execs + 1
     /\ trace' = IF good THEN t ELSE o.trace
     /\ seen' = known \union BitsOf(t) \union (var \X Bytes)
     /\ var_bytes' = var_bytes \union var
     /\ bitmap_changed' = (bitmap_changed \/ known \union BitsOf(t) # seen)
     /\ queue' = [queue EXCEPT ![Len(queue)].bits = @ \union BitsOf(t),
                               ![Len(queue)].has_new_cov = @ \/ cov]
     /\ queued_with_cov' = IF cov /\ ~last.has_new_cov THEN queued_with_cov + 1 ELSE queued_with_cov
     /\ pc' = IF o.fault = "ERROR" THEN "fatal" ELSE "calibrated"
     /\ UNCHANGED <<options, input, fault, path, new_bits, classified, is_timeout, seen_tmout,
                    seen_crash, pathVars, countVars, fileVars, stop_soon, history>>

Keeping ==
  /\ pc = "calibrated" /\ pc' = "judge"
  /\ UNCHANGED <<options, input, trace, fault, path, new_bits, classified, is_timeout, mapVars,
                 pathVars, queueVars, countVars, fileVars, total_execs, stop_soon, history>>

\* Fault: it waits for the calibration that a stop has cut short.
KeepUnlessStopped == Keeping /\ stop_soon = 0

\* keeping = 1, and on to the switch
Keep == Keeping

(* ---- the switch on the outcome ----------------------------------------- *)

\* classified unless it was, then simplified: what the hang and crash maps are compared with
Simplified == Simplify(IF classified THEN trace ELSE Classify(trace))

JudgeNormal ==
  /\ pc = "judge" /\ fault \in {"OK", "ERROR"}
  /\ pc' = IF fault = "ERROR" THEN "fatal" ELSE "returned"
  /\ UNCHANGED <<options, input, trace, fault, path, new_bits, classified, is_timeout, mapVars,
                 pathVars, queueVars, countVars, fileVars, total_execs, stop_soon, history>>

JudgeCrash ==
  /\ pc = "judge" /\ fault = "CRASH" /\ pc' = "crash"
  /\ UNCHANGED <<options, input, trace, fault, path, new_bits, classified, is_timeout, mapVars,
                 pathVars, queueVars, countVars, fileVars, total_execs, stop_soon, history>>

JudgeTimeoutWith(counted, marks) ==
  LET full  == saved_hangs >= KeepHangs
      blind == options.non_instrumented_mode
      new   == blind \/ has_new_bits(Simplified, seen_tmout) # 0
  IN /\ pc = "judge" /\ fault = "TMOUT"
     /\ total_tmouts' = IF counted THEN total_tmouts + 1 ELSE total_tmouts
     /\ IF full \/ blind
          THEN UNCHANGED <<trace, classified, seen_tmout>>
          ELSE /\ trace' = Simplified /\ classified' = TRUE
               /\ seen_tmout' = seen_tmout \union marks
     /\ is_timeout' = (is_timeout \/ (~full /\ new))
     /\ pc' = IF full \/ ~new THEN "returned"
              ELSE IF options.exec_tmout < options.hang_tmout THEN "rerun" ELSE "hang"
     /\ UNCHANGED <<options, input, fault, path, new_bits, seen, seen_crash, var_bytes, bitmap_changed,
                    pathVars, queueVars, total_crashes, saved_crashes, saved_hangs, saved_tmouts,
                    fileVars, total_execs, stop_soon, history>>

\* Fault: hangs are no longer counted once enough are kept.
JudgeTimeoutCountsLate == JudgeTimeoutWith(saved_hangs < KeepHangs, BitsOf(Simplified))

\* Fault: what a hang shows is not noted, only compared.
JudgeTimeoutUnmarked == JudgeTimeoutWith(TRUE, {})

\* dropped if enough hangs are kept or its edges are all in virgin_tmout
JudgeTimeout == JudgeTimeoutWith(TRUE, BitsOf(Simplified))

RerunTaking(o, taken) ==
  LET crash == stop_soon = 0 /\ o.fault = "CRASH"
      hang  == stop_soon = 0 /\ o.fault = "TMOUT"
  IN /\ pc = "rerun" /\ o \in input.again
     /\ total_execs' = total_execs + 1
     /\ trace' = Classify(o.trace)
     /\ \/ /\ crash /\ taken
           /\ pc' = "crash" /\ UNCHANGED saved_tmouts
        \/ /\ hang
           /\ pc' = "hang" /\ UNCHANGED saved_tmouts
        \/ /\ ~hang /\ ~(crash /\ taken)
           /\ IF options.keep_timeouts
                THEN saved_tmouts' = saved_tmouts + 1 /\ pc' = "queue"
                ELSE Return /\ UNCHANGED saved_tmouts
     /\ crashed' = IF crash THEN crashed \union {Simplify(trace')} ELSE crashed
     /\ UNCHANGED <<options, input, fault, path, new_bits, classified, is_timeout, mapVars, pathVars,
                    queueVars, total_crashes, saved_crashes, total_tmouts, saved_hangs, fileVars,
                    stop_soon, executed, ran, timeouts>>

\* Fault: a second run that crashes is taken for one that is no hang.
RerunMissesCrash(o) == RerunTaking(o, FALSE)

\* the second chance, with hang_tmout: a crash, a hang, or no hang after all
Rerun(o) == RerunTaking(o, TRUE)

SaveHang ==
  /\ pc = "hang"
  /\ saved_hangs' = saved_hangs + 1
  /\ Return
  /\ UNCHANGED <<options, input, trace, fault, path, new_bits, classified, is_timeout, mapVars,
                 pathVars, queueVars, total_crashes, saved_crashes, total_tmouts, saved_tmouts,
                 fileVars, total_execs, stop_soon, history>>

\* write_crash_readme, which leaves a README.txt that is there alone
WriteCrashReadme(due) == readme' = (readme \/ due)

\* keep_as_crash: README.txt with the first one, and the file of the crash
KeepAsCrash ==
  LET full  == saved_crashes >= KeepCrashes
      blind == options.non_instrumented_mode
      save  == ~full /\ (blind \/ has_new_bits(Simplified, seen_crash) # 0)
  IN /\ pc = "crash"
     /\ total_crashes' = total_crashes + 1
     /\ IF full \/ blind
          THEN UNCHANGED <<trace, seen_crash>>
          ELSE trace' = Simplified /\ seen_crash' = seen_crash \union BitsOf(Simplified)
     /\ IF save
          THEN /\ saved_crashes' = saved_crashes + 1
               /\ crashes' = Append(crashes, trace')
               /\ WriteCrashReadme(saved_crashes = 0 /\ ~options.no_crash_readme)
          ELSE UNCHANGED <<saved_crashes, crashes, readme>>
     /\ Return
     /\ UNCHANGED <<options, input, fault, path, new_bits, classified, is_timeout, seen, seen_tmout,
                    var_bytes, bitmap_changed, pathVars, queueVars, total_tmouts, saved_hangs,
                    saved_tmouts, total_execs, stop_soon, history>>

\* back in common_fuzz_stuff: the locals are gone, the next run clears the trace
Back ==
  /\ pc = "returned" /\ pc' = "idle"
  /\ input' = NoInput /\ trace' = Silence /\ fault' = "OK" /\ path' = {}
  /\ new_bits' = 0 /\ classified' = FALSE /\ is_timeout' = FALSE
  /\ UNCHANGED <<options, mapVars, pathVars, queueVars, countVars, fileVars, total_execs, stop_soon,
                 history>>

\* every step of save_if_interesting that is not a call of something else
SaveIfInteresting ==
  \/ NothingNew \/ SomethingNew \/ Unexpected \/ SaveToQueue
  \/ JudgeNormal \/ JudgeCrash \/ JudgeTimeout \/ SaveHang \/ KeepAsCrash
  \/ \E o \in input.again : Calibrate(o) \/ Rerun(o)

(* ---- a session ---------------------------------------------------------- *)

SeedEntry == [path |-> Hit(Seed), tags |-> {}, bits |-> BitsOf(Classify(Seed)), has_new_cov |-> TRUE]

AllBits(q) == UNION {e.bits : e \in ToSet(q)}

\* afl_state_init clears the state, main allocates n_fuzz, perform_dry_run runs the queue q
StartBitmap(o, q) ==
  /\ options' = o
  /\ pc' = "idle" /\ input' = NoInput /\ trace' = Silence /\ fault' = "OK" /\ path' = {}
  /\ new_bits' = 0 /\ classified' = FALSE /\ is_timeout' = FALSE
  /\ seen' = AllBits(q) /\ seen_tmout' = {} /\ seen_crash' = {}
  /\ var_bytes' = {} /\ bitmap_changed' = TRUE
  /\ unique_path' = <<>> /\ total_unique_path' = 0
  /\ n_fuzz' = IF o.schedule \in FastSchedules THEN [p \in SUBSET Edges |-> 0] ELSE NULL
  /\ queue' = q /\ queued_with_cov' = Cardinality({k \in DOMAIN q : q[k].has_new_cov})
  /\ total_crashes' = 0 /\ saved_crashes' = 0
  /\ total_tmouts' = 0 /\ saved_hangs' = 0 /\ saved_tmouts' = 0
  /\ crashes' = <<>> /\ readme' = FALSE
  /\ executed' = 0 /\ ran' = {} /\ timeouts' = 0 /\ crashed' = {}

\* before the program: only the initial input is there
BitmapInit ==
  /\ options = DefaultOptions
  /\ pc = "off" /\ input = NoInput /\ trace = Silence /\ fault = "OK" /\ path = {}
  /\ new_bits = 0 /\ classified = FALSE /\ is_timeout = FALSE
  /\ seen = {} /\ seen_tmout = {} /\ seen_crash = {} /\ var_bytes = {} /\ bitmap_changed = FALSE
  /\ unique_path = <<>> /\ total_unique_path = 0 /\ n_fuzz = NULL
  /\ queue = <<SeedEntry>> /\ queued_with_cov = 0
  /\ total_crashes = 0 /\ saved_crashes = 0 /\ total_tmouts = 0 /\ saved_hangs = 0 /\ saved_tmouts = 0
  /\ crashes = <<>> /\ readme = FALSE
  /\ total_execs = 0 /\ stop_soon = 0
  /\ executed = 0 /\ ran = {} /\ timeouts = 0 /\ crashed = {}

\* afl_states_stop, from a signal handler
Stop ==
  /\ stop_soon' = 1
  /\ UNCHANGED <<options, runVars, mapVars, pathVars, queueVars, countVars, fileVars, total_execs,
                 history>>

(* ---- properties ---------------------------------------------------------- *)

Entries == [path : SUBSET Edges, tags : SUBSET {"+tout", "+cov"}, bits : SUBSET Bits,
            has_new_cov : BOOLEAN]

\* Every variable has its type.
BitmapTypeOK ==
  /\ options \in OptionType
  /\ pc \in {"off", "idle", "save", "queue", "calibrate", "calibrated", "judge", "rerun", "hang", "crash",
             "returned", "fatal", "segfault"}
  /\ input \in Inputs \union {NoInput}
  /\ trace \in Traces /\ fault \in Faults /\ path \in SUBSET Edges
  /\ new_bits \in 0..2 /\ classified \in BOOLEAN /\ is_timeout \in BOOLEAN
  /\ seen \subseteq Bits /\ seen_tmout \subseteq Bits /\ seen_crash \subseteq Bits
  /\ var_bytes \subseteq Edges /\ bitmap_changed \in BOOLEAN
  /\ unique_path \in Seq(SUBSET Edges) /\ total_unique_path \in Nat
  /\ n_fuzz \in [SUBSET Edges -> Nat] \/ n_fuzz = NULL
  /\ queue \in Seq(Entries) /\ queued_with_cov \in Nat
  /\ total_crashes \in Nat /\ saved_crashes \in Nat
  /\ total_tmouts \in Nat /\ saved_hangs \in Nat /\ saved_tmouts \in Nat
  /\ crashes \in Seq(Traces) /\ readme \in BOOLEAN
  /\ total_execs \in Nat /\ stop_soon \in 0..2
  /\ executed \in Nat /\ ran \subseteq SUBSET Edges /\ timeouts \in Nat /\ crashed \subseteq Traces

\* total_unique_path, the figure CTFuzz is compared with AFL++ by, is the number of different
\* edge sets executed in the session: no path is counted twice, whatever its hit counts, its
\* outcome or its place in the list, and none is missed.
PathsCountedOnce == total_unique_path = Cardinality(ran)

\* Between two inputs, virgin_bits has lost exactly the bits that some entry of the queue can show
\* again, and those of variable edges: no coverage is marked as known while the input that showed
\* it is dropped (by a crash, a timeout, an early return), and no queued coverage stays virgin.
QueueWitnessesCoverage ==
  pc \in {"idle", "returned"} => seen = AllBits(queue) \union (var_bytes \X Bytes)

\* As long as crashes are kept at all, every edge a crash took or did not take is on show in a saved
\* crash, whether the first run crashed or the second run of a hang: simplification, the crash map
\* and the jump from the second run never drop the first of a kind.
CrashesWitnessed ==
  /\ pc \in {"idle", "returned"} /\ options.crash_mode = "OK" /\ ~options.non_instrumented_mode
  /\ saved_crashes < KeepCrashes
  => \A t \in crashed : BitsOf(t) \subseteq UNION {BitsOf(c) : c \in ToSet(crashes)}

\* A timed-out input counts once, and once more each time AFL_KEEP_TIMEOUTS sends it to the queue
\* and through the switch again: total_tmouts is not a number of inputs.
TimeoutsCounted ==
  pc \in {"idle", "returned"} => total_tmouts = timeouts + saved_tmouts

\* A path has a frequency if and only if it was executed: save_to_queue resets the frequency under
\* the path of the first run, also when the entry was queued after a second run took another path.
FrequencyOfExecuted ==
  n_fuzz = NULL \/ \A p \in SUBSET Edges : n_fuzz[p] > 0 <=> p \in ran

\* What is left of virgin_tmout, and how far save_if_interesting is from its end.  With
\* AFL_KEEP_TIMEOUTS a second run that is no hang goes back to save_to_queue, a round before the end.
Unmarked == Cardinality(Bits \ seen_tmout)
ToGo ==
  IF pc = "rerun" /\ options.keep_timeouts THEN 8
  ELSE [save |-> 9, queue |-> 7, calibrate |-> 6, calibrated |-> 5, judge |-> 4, rerun |-> 3, hang |-> 2,
        crash |-> 2, returned |-> 1, idle |-> 0, off |-> 0, fatal |-> 0, segfault |-> 0][pc]

\* "AFLFast schedule? update the new queue entry" (line 584): nothing is written to the
\* frequencies under the other schedules, which have no table.
OnlyAFLFastUpdates == pc # "segfault"
=============================================================================
