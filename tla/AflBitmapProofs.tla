--------------------------- MODULE AflBitmapProofs ---------------------------
(***************************************************************************)
(* Lemmas about AflBitmap for every value of its constants: its steps keep *)
(* the types and five invariants, and the start of a session makes them    *)
(* hold.  AflFuzzerProofs puts them together for whole campaigns.          *)
(***************************************************************************)
EXTENDS AflBitmap, TLAPS, FiniteSetTheorems, SequenceTheorems

-----------------------------------------------------------------------------
(* Helpers.                                                                 *)

\* Both tables map bytes to bytes, and the first one only 0 to 0.
LEMMA LookupProperty ==
  ASSUME NEW n \in 0..255
  PROVE  /\ count_class_lookup8[n] \in 0..255
         /\ count_class_lookup8[n] = 0 <=> n = 0
         /\ simplify_lookup[n] \in 0..255
<1>1. count_class_lookup8[n] = CASE n \in 0..2    -> n
                      [] n = 3         -> 4
                      [] n \in 4..7    -> 8
                      [] n \in 8..15   -> 16
                      [] n \in 16..31  -> 32
                      [] n \in 32..127 -> 64
                      [] OTHER         -> 128
  BY DEF count_class_lookup8
<1>2. simplify_lookup[n] = IF n = 0 THEN 1 ELSE 128
  BY DEF simplify_lookup
<1>3. CASE n \in 0..2
  <2>1. count_class_lookup8[n] = n
    BY <1>1, <1>3
  <2> QED BY <1>2, <1>3, <2>1
<1>4. CASE n \in 3..255
  <2>1. count_class_lookup8[n] \in {4, 8, 16, 32, 64, 128}
    BY <1>1, <1>4
  <2> QED BY <1>2, <1>4, <2>1
<1> QED BY <1>3, <1>4

\* Classified and simplified traces are traces; classification keeps the edges apart from hit counts,
\* so that simplifying afterwards makes no difference.
LEMMA ClassifyProperty ==
  ASSUME NEW t \in Traces
  PROVE  /\ Classify(t) \in Traces /\ Simplify(t) \in Traces
         /\ \A e \in Edges : Classify(t)[e] = 0 <=> t[e] = 0
         /\ Simplify(Classify(t)) = Simplify(t)
<1>1. \A e \in Edges : t[e] \in 0..255
  BY DEF Traces
<1>2. /\ Classify(t) \in Traces /\ Simplify(t) \in Traces
      /\ \A e \in Edges : Classify(t)[e] = 0 <=> t[e] = 0
  BY <1>1, LookupProperty DEF Classify, Simplify, Traces
<1>3. \A m, n \in 0..255 : (m = 0 <=> n = 0) => simplify_lookup[m] = simplify_lookup[n]
  BY DEF simplify_lookup
<1>4. \A e \in Edges : Classify(t)[e] \in 0..255
  BY <1>2 DEF Traces
<1> QED BY <1>1, <1>2, <1>3, <1>4 DEF Simplify

\* has_new_bits tells the three cases apart, and 0 means that nothing is new.
LEMMA NewBitsProperty ==
  ASSUME NEW t, NEW s
  PROVE  /\ has_new_bits(t, s) \in 0..2
         /\ has_new_bits(t, s) = 0 => BitsOf(t) \subseteq s
BY DEF has_new_bits

\* While a session runs there is a table of frequencies exactly under the AFLFast schedules.
TableAsScheduled == pc # "off" => (n_fuzz = NULL <=> options.schedule \notin FastSchedules)

\* The list, the frequencies and the history keep their types when a path is recorded.
LEMMA RecordPathType ==
  ASSUME BitmapTypeOK, TableAsScheduled, RecordPath
  PROVE  /\ path' \in SUBSET Edges /\ ran' \subseteq SUBSET Edges
         /\ unique_path' \in Seq(SUBSET Edges) /\ total_unique_path' \in Nat
         /\ n_fuzz' \in [SUBSET Edges -> Nat] \/ n_fuzz' = NULL
<1>1. path' \in SUBSET Edges
  BY DEF RecordPath, RecordPathIn, Hit
<1>2. ran' \subseteq SUBSET Edges
  BY <1>1 DEF RecordPath, RecordPathIn, BitmapTypeOK
<1>3. unique_path' \in Seq(SUBSET Edges) /\ total_unique_path' \in Nat
  <2>1. unique_path \in Seq(SUBSET Edges) /\ total_unique_path \in Nat
    BY DEF BitmapTypeOK
  <2>2. CASE path' \in ToSet(unique_path)
    BY <2>1, <2>2 DEF RecordPath, RecordPathIn
  <2>3. CASE path' \notin ToSet(unique_path)
    <3>1. unique_path' = Append(unique_path, path') /\ total_unique_path' = total_unique_path + 1
      BY <2>3 DEF RecordPath, RecordPathIn
    <3> QED BY <1>1, <2>1, <3>1
  <2> QED BY <2>2, <2>3
<1>4. n_fuzz' \in [SUBSET Edges -> Nat] \/ n_fuzz' = NULL
  <2>1. n_fuzz \in [SUBSET Edges -> Nat] \/ n_fuzz = NULL
    BY DEF BitmapTypeOK
  <2>2. CASE options.schedule \in FastSchedules /\ n_fuzz[path'] < FreqCap
    <3>1. n_fuzz # NULL
      BY <2>2 DEF TableAsScheduled, RecordPath, RecordPathIn
    <3>2. n_fuzz' = [n_fuzz EXCEPT ![path'] = @ + 1]
      BY <2>2 DEF RecordPath, RecordPathIn
    <3>3. n_fuzz \in [SUBSET Edges -> Nat]
      BY <2>1, <3>1
    <3>4. n_fuzz[path'] + 1 \in Nat
      BY <1>1, <3>3
    <3> QED BY <3>2, <3>3, <3>4
  <2>3. CASE ~(options.schedule \in FastSchedules /\ n_fuzz[path'] < FreqCap)
    <3>1. n_fuzz' = n_fuzz
      BY <2>3 DEF RecordPath, RecordPathIn
    <3> QED BY <2>1, <3>1
  <2> QED BY <2>2, <2>3
<1> QED BY <1>1, <1>2, <1>3, <1>4

\* What the hang and crash maps are compared with does not depend on an earlier classification.
LEMMA SimplifiedType ==
  ASSUME BitmapTypeOK
  PROVE  Simplified \in Traces /\ Simplified = Simplify(trace)
<1>1. trace \in Traces
  BY DEF BitmapTypeOK
<1>2. Classify(trace) \in Traces /\ Simplify(Classify(trace)) = Simplify(trace)
  BY <1>1, ClassifyProperty
<1>3. Simplified = Simplify(trace)
  BY <1>2 DEF Simplified
<1> QED BY <1>1, <1>3, ClassifyProperty

\* The bits of a trace are entries of a map.
LEMMA BitsOfType ==
  ASSUME NEW t PROVE BitsOf(t) \subseteq Bits
BY DEF BitsOf

-----------------------------------------------------------------------------
(* Type correctness, action by action.                                      *)

\* An input with nothing new keeps the types.
LEMMA NothingNewType ==
  ASSUME BitmapTypeOK, TableAsScheduled, NothingNew
  PROVE  BitmapTypeOK'
<1>1. RecordPath
  BY DEF NothingNew
<1> QED BY <1>1, RecordPathType DEF BitmapTypeOK, NothingNew, Return, mapVars, queueVars, fileVars

\* An input with new bits keeps the types.
LEMMA SomethingNewType ==
  ASSUME BitmapTypeOK, TableAsScheduled, SomethingNew
  PROVE  BitmapTypeOK'
<1>1. RecordPath
  BY DEF SomethingNew
<1>2. trace' \in Traces
  BY ClassifyProperty DEF SomethingNew, BitmapTypeOK
<1>3. new_bits' \in 0..2 /\ seen' \subseteq Bits
  BY NewBitsProperty, BitsOfType DEF SomethingNew, BitmapTypeOK
<1> QED BY <1>1, <1>2, <1>3, RecordPathType DEF BitmapTypeOK, SomethingNew, queueVars, countVars, fileVars

\* An outcome that is not the expected one keeps the types.
LEMMA UnexpectedType ==
  ASSUME BitmapTypeOK, TableAsScheduled, Unexpected
  PROVE  BitmapTypeOK'
<1>1. RecordPath
  BY DEF Unexpected, UnexpectedWith
<1>2. crashed' \subseteq Traces /\ timeouts' \in Nat
  BY ClassifyProperty DEF Unexpected, UnexpectedWith, BitmapTypeOK
<1> QED BY <1>1, <1>2, RecordPathType
        DEF BitmapTypeOK, Unexpected, UnexpectedWith, queueVars, countVars, fileVars

\* The new queue entry is an entry, with the name tags describe_op can give it.
LEMMA SaveToQueueType ==
  ASSUME BitmapTypeOK, SaveToQueue
  PROVE  BitmapTypeOK'
<1> DEFINE row == [path |-> path, tags |-> Tags, bits |-> BitsOf(trace), has_new_cov |-> new_bits = 2]
<1>1. row \in Entries
  <2>1. Tags \in SUBSET {"+tout", "+cov"}
    BY DEF Tags
  <2>2. path \in SUBSET Edges /\ BitsOf(trace) \in SUBSET Bits /\ (new_bits = 2) \in BOOLEAN
    BY BitsOfType DEF BitmapTypeOK
  <2> QED BY <2>1, <2>2 DEF Entries
<1>2. queue' = Append(queue, row)
  BY DEF SaveToQueue, SaveToQueueUnder
<1>3. queue' \in Seq(Entries) /\ queued_with_cov' \in Nat
  <2> HIDE DEF row
  <2>1. queue' \in Seq(Entries)
    BY <1>1, <1>2 DEF BitmapTypeOK
  <2>2. queued_with_cov' \in Nat
    BY DEF SaveToQueue, SaveToQueueUnder, BitmapTypeOK
  <2> QED BY <2>1, <2>2
<1>4. n_fuzz' \in [SUBSET Edges -> Nat] \/ n_fuzz' = NULL
  <2>1. n_fuzz \in [SUBSET Edges -> Nat] \/ n_fuzz = NULL
    BY DEF BitmapTypeOK
  <2>2. CASE n_fuzz = NULL
    BY <2>2 DEF SaveToQueue, SaveToQueueUnder
  <2>3. CASE n_fuzz # NULL
    <3>1. n_fuzz' = [n_fuzz EXCEPT ![path] = 1]
      BY <2>3 DEF SaveToQueue, SaveToQueueUnder
    <3> QED BY <2>1, <2>3, <3>1
  <2> QED BY <2>2, <2>3
<1>5. pc' \in {"segfault", "calibrate"}
  BY DEF SaveToQueue, SaveToQueueUnder
<1> QED BY <1>3, <1>4, <1>5 DEF BitmapTypeOK, SaveToQueue, SaveToQueueUnder, mapVars, countVars, fileVars, history

\* The return from the queueing part keeps the types.
LEMMA KeepType ==
  ASSUME BitmapTypeOK, Keep
  PROVE  BitmapTypeOK'
BY DEF BitmapTypeOK, Keep, Keeping, runVars, mapVars, pathVars, queueVars, countVars, fileVars, history

\* The switch on a normal run or an error keeps the types.
LEMMA JudgeNormalType ==
  ASSUME BitmapTypeOK, JudgeNormal
  PROVE  BitmapTypeOK'
BY DEF BitmapTypeOK, JudgeNormal, runVars, mapVars, pathVars, queueVars, countVars, fileVars, history

\* The switch on a crash keeps the types.
LEMMA JudgeCrashType ==
  ASSUME BitmapTypeOK, JudgeCrash
  PROVE  BitmapTypeOK'
BY DEF BitmapTypeOK, JudgeCrash, runVars, mapVars, pathVars, queueVars, countVars, fileVars, history

\* The switch on a timeout keeps the types.
LEMMA JudgeTimeoutType ==
  ASSUME BitmapTypeOK, JudgeTimeout
  PROVE  BitmapTypeOK'
<1>1. trace' \in Traces /\ seen_tmout' \subseteq Bits
  BY SimplifiedType, BitsOfType DEF JudgeTimeout, JudgeTimeoutWith, BitmapTypeOK
<1>2. is_timeout' \in BOOLEAN
  BY DEF JudgeTimeout, JudgeTimeoutWith, BitmapTypeOK
<1>3. pc' \in {"returned", "rerun", "hang"}
  BY DEF JudgeTimeout, JudgeTimeoutWith
<1>4. total_tmouts' \in Nat
  BY DEF JudgeTimeout, JudgeTimeoutWith, BitmapTypeOK
<1>6. classified' \in BOOLEAN
  <2>1. classified' = classified \/ classified' = TRUE
    BY Zenon DEF JudgeTimeout, JudgeTimeoutWith
  <2> QED BY <2>1 DEF BitmapTypeOK
<1>5. UNCHANGED <<options, input, fault, path, new_bits, seen, seen_crash, var_bytes, bitmap_changed,
                  unique_path, total_unique_path, n_fuzz, queue, queued_with_cov, total_crashes,
                  saved_crashes, saved_hangs, saved_tmouts, crashes, readme, total_execs, stop_soon,
                  executed, ran, timeouts, crashed>>
  BY DEF JudgeTimeout, JudgeTimeoutWith, pathVars, queueVars, fileVars, history
<1> QED BY <1>1, <1>2, <1>3, <1>4, <1>5, <1>6 DEF BitmapTypeOK

\* Saving a hang keeps the types.
LEMMA SaveHangType ==
  ASSUME BitmapTypeOK, SaveHang
  PROVE  BitmapTypeOK'
BY DEF BitmapTypeOK, SaveHang, Return, runVars, mapVars, pathVars, queueVars, countVars, fileVars, history

\* keep_as_crash keeps the types.
LEMMA KeepAsCrashType ==
  ASSUME BitmapTypeOK, KeepAsCrash
  PROVE  BitmapTypeOK'
<1>1. trace' \in Traces /\ seen_crash' \subseteq Bits
  BY SimplifiedType, BitsOfType DEF KeepAsCrash, BitmapTypeOK
<1>2. crashes' \in Seq(Traces)
  <2>1. crashes' = crashes \/ crashes' = Append(crashes, trace')
    BY DEF KeepAsCrash
  <2> QED BY <1>1, <2>1 DEF BitmapTypeOK
<1>3. saved_crashes' \in Nat
  BY DEF KeepAsCrash, BitmapTypeOK
<1>4. readme' \in BOOLEAN
  BY DEF KeepAsCrash, WriteCrashReadme, BitmapTypeOK
<1> QED BY <1>1, <1>2, <1>3, <1>4 DEF BitmapTypeOK, KeepAsCrash, Return, pathVars, queueVars, history

\* The cleared map is a trace.
LEMMA SilenceType == Silence \in Traces
BY DEF Silence, Traces

\* The return to common_fuzz_stuff keeps the types.
LEMMA BackType ==
  ASSUME BitmapTypeOK, Back
  PROVE  BitmapTypeOK'
<1>1. /\ pc' = "idle" /\ input' = NoInput /\ trace' \in Traces /\ fault' \in Faults
      /\ path' \in SUBSET Edges /\ new_bits' \in 0..2 /\ classified' \in BOOLEAN /\ is_timeout' \in BOOLEAN
  <2>1. /\ pc' = "idle" /\ input' = NoInput /\ trace' = Silence /\ fault' = "OK"
        /\ path' = {} /\ new_bits' = 0 /\ classified' = FALSE /\ is_timeout' = FALSE
    BY DEF Back
  <2>2. path' \in SUBSET Edges
    BY <2>1
  <2>3. classified' \in BOOLEAN /\ is_timeout' \in BOOLEAN
    BY <2>1, Zenon
  <2>4. new_bits' \in 0..2 /\ fault' \in Faults
    BY <2>1 DEF Faults
  <2> QED BY <2>1, <2>2, <2>3, <2>4, SilenceType
<1> QED BY <1>1 DEF BitmapTypeOK, Back, mapVars, pathVars, queueVars, countVars, fileVars, history

\* afl_states_stop keeps the types.
LEMMA StopType ==
  ASSUME BitmapTypeOK, Stop
  PROVE  BitmapTypeOK'
BY DEF BitmapTypeOK, Stop, runVars, mapVars, pathVars, queueVars, countVars, fileVars, history

\* A later run of an input has a trace and an outcome.
LEMMA OutcomeType ==
  ASSUME BitmapTypeOK, NEW o \in input.again
  PROVE  o.trace \in Traces /\ o.fault \in Faults
<1>1. input \in Inputs \/ input = NoInput
  BY DEF BitmapTypeOK
<1>2. input # NoInput
  BY DEF NoInput
<1>3. input \in InputType
  BY <1>1, <1>2, BitmapAssumption
<1> QED BY <1>3 DEF InputType, Outcome

\* The execution of an input keeps the types.
LEMMA ExecuteType ==
  ASSUME BitmapTypeOK, NEW i \in Inputs, Execute(i)
  PROVE  BitmapTypeOK'
<1>1. i \in InputType
  BY BitmapAssumption
<1>2. trace' \in Traces /\ fault' \in Faults /\ input' \in Inputs
  BY <1>1 DEF Execute, InputType, Outcome
<1>3. new_bits' \in 0..2
  BY DEF Execute
<1>4. classified' \in BOOLEAN /\ is_timeout' \in BOOLEAN
  <2>1. classified' = FALSE /\ is_timeout' = FALSE
    BY DEF Execute
  <2> QED BY <2>1, Zenon
<1>5. pc' \in {"returned", "save"} /\ total_execs' \in Nat /\ executed' \in Nat
  BY DEF Execute, Return, BitmapTypeOK
<1>6. UNCHANGED <<options, path, mapVars, pathVars, queueVars, countVars, fileVars, stop_soon, ran, timeouts, crashed>>
  BY DEF Execute
<1> QED BY <1>2, <1>3, <1>4, <1>5, <1>6 DEF BitmapTypeOK, mapVars, pathVars, queueVars, countVars, fileVars

\* The second chance of a hang keeps the types.
LEMMA RerunType ==
  ASSUME BitmapTypeOK, NEW o \in input.again, Rerun(o)
  PROVE  BitmapTypeOK'
<1>1. trace' \in Traces
  BY OutcomeType, ClassifyProperty DEF Rerun, RerunTaking
<1>2. pc' \in {"crash", "hang", "queue", "returned"} /\ saved_tmouts' \in Nat /\ total_execs' \in Nat
  BY DEF Rerun, RerunTaking, Return, BitmapTypeOK
<1>3. UNCHANGED <<options, input, fault, path, new_bits, classified, is_timeout, mapVars, pathVars,
                 queueVars, total_crashes, saved_crashes, total_tmouts, saved_hangs, fileVars,
                 stop_soon, executed, ran, timeouts>>
  BY DEF Rerun, RerunTaking
<1>4. crashed' \subseteq Traces
  BY <1>1, ClassifyProperty DEF Rerun, RerunTaking, BitmapTypeOK
<1> QED BY <1>1, <1>2, <1>3, <1>4 DEF BitmapTypeOK, mapVars, pathVars, queueVars, fileVars

\* The calibration of the last entry keeps the types.
LEMMA CalibrateType ==
  ASSUME BitmapTypeOK, NEW o \in input.again, Calibrate(o)
  PROVE  BitmapTypeOK'
<1> DEFINE known == seen \union BitsOf(trace)
           good  == /\ stop_soon = 0 /\ o.fault = options.crash_mode
                    /\ options.non_instrumented_mode \/ count_bytes(o.trace) # 0
           t     == IF good THEN Classify(o.trace) ELSE trace
           var   == {e \in Edges : trace[e] # t[e]}
           cov   == has_new_bits(trace, seen) = 2 \/ has_new_bits(t, known) = 2
           n     == Len(queue)
<1>1. t \in Traces /\ trace \in Traces /\ o.trace \in Traces
  BY OutcomeType, ClassifyProperty DEF BitmapTypeOK
<1>2. /\ trace' = IF good THEN t ELSE o.trace
      /\ seen' = known \union BitsOf(t) \union (var \X Bytes)
      /\ var_bytes' = var_bytes \union var
      /\ bitmap_changed' = (bitmap_changed \/ known \union BitsOf(t) # seen)
      /\ queue' = [queue EXCEPT ![n].bits = @ \union BitsOf(t),
                                ![n].has_new_cov = @ \/ cov]
      /\ queued_with_cov' = IF cov /\ ~queue[n].has_new_cov THEN queued_with_cov + 1 ELSE queued_with_cov
      /\ pc' = IF o.fault = "ERROR" THEN "fatal" ELSE "calibrated"
      /\ total_execs' = total_execs + 1
      /\ UNCHANGED <<options, input, fault, path, new_bits, classified, is_timeout, seen_tmout,
                    seen_crash, pathVars, countVars, fileVars, stop_soon, history>>
  BY DEF Calibrate
<1>3. trace' \in Traces /\ BitsOf(t) \subseteq Bits /\ BitsOf(trace) \subseteq Bits
  BY <1>1, <1>2, BitsOfType
<1>4. var \subseteq Edges
  OBVIOUS
<1>5. cov \in BOOLEAN
  BY Zenon
<1> HIDE DEF good, t, var, cov, n
<1>6. seen' \subseteq Bits /\ var_bytes' \subseteq Edges
  <2>1. var \X Bytes \subseteq Bits
    BY <1>4 DEF Bits
  <2> QED BY <1>2, <1>3, <1>4, <2>1 DEF BitmapTypeOK
<1>7. bitmap_changed' \in BOOLEAN
  BY <1>2, Zenon
<1>8. queue' \in Seq(Entries)
  <2>1. queue \in Seq(Entries)
    BY DEF BitmapTypeOK
  <2>2. CASE n \in DOMAIN queue
    <3> DEFINE row == [queue[n] EXCEPT !.bits = @ \union BitsOf(t), !.has_new_cov = @ \/ cov]
    <3>1. queue[n] \in Entries
      BY <2>1, <2>2
    <3>2. (queue[n].bits \union BitsOf(t)) \in SUBSET Bits
      BY <1>3, <3>1 DEF Entries
    <3>3. (queue[n].has_new_cov \/ cov) \in BOOLEAN
      BY <1>5, Zenon
    <3>4. row \in Entries
      BY <3>1, <3>2, <3>3 DEF Entries
    <3>5. queue' = [queue EXCEPT ![n] = row]
      BY <1>2, <2>2
    <3> HIDE DEF row
    <3> QED BY <2>1, <2>2, <3>4, <3>5
  <2>3. CASE n \notin DOMAIN queue
    <3>1. queue' = queue
      BY <1>2, <2>1, <2>3
    <3> QED BY <2>1, <3>1
  <2> QED BY <2>2, <2>3
<1>9. queued_with_cov' \in Nat /\ total_execs' \in Nat /\ pc' \in {"fatal", "calibrated"}
  BY <1>2 DEF BitmapTypeOK
<1> QED BY <1>2, <1>3, <1>6, <1>7, <1>8, <1>9 DEF BitmapTypeOK, pathVars, countVars, fileVars, history

\* Every step of save_if_interesting keeps the types.
LEMMA SaveIfInterestingType ==
  ASSUME BitmapTypeOK, TableAsScheduled, SaveIfInteresting
  PROVE  BitmapTypeOK'
BY NothingNewType, SomethingNewType, UnexpectedType, SaveToQueueType, JudgeNormalType, JudgeCrashType,
   JudgeTimeoutType, SaveHangType, KeepAsCrashType, CalibrateType, RerunType DEF SaveIfInteresting

\* The initial input is a queue entry.
LEMMA SeedEntryType == SeedEntry \in Entries
<1>1. Hit(Seed) \in SUBSET Edges
  BY DEF Hit
<1>2. Classify(Seed) \in Traces
  BY BitmapAssumption, ClassifyProperty
<1>3. BitsOf(Classify(Seed)) \in SUBSET Bits
  BY <1>2, BitsOfType
<1> QED BY <1>1, <1>3 DEF SeedEntry, Entries

\* A session starts with well-typed variables if its options and its queue are well typed.
LEMMA StartBitmapType ==
  ASSUME NEW o \in OptionType, NEW q \in Seq(Entries), StartBitmap(o, q),
         total_execs' = 0, stop_soon' = 0
  PROVE  BitmapTypeOK'
<1>1. /\ options' = o /\ pc' = "idle" /\ input' = NoInput /\ trace' \in Traces /\ fault' \in Faults
      /\ path' \in SUBSET Edges /\ new_bits' \in 0..2
  <2>1. trace' = Silence /\ fault' = "OK" /\ path' = {} /\ new_bits' = 0
    BY DEF StartBitmap
  <2>2. path' \in SUBSET Edges
    BY <2>1
  <2>3. fault' \in Faults
    BY <2>1 DEF Faults
  <2> QED BY <2>1, <2>2, <2>3, SilenceType DEF StartBitmap
<1>2. classified' \in BOOLEAN /\ is_timeout' \in BOOLEAN /\ bitmap_changed' \in BOOLEAN /\ readme' \in BOOLEAN
  <2>1. classified' = FALSE /\ is_timeout' = FALSE /\ bitmap_changed' = TRUE /\ readme' = FALSE
    BY DEF StartBitmap
  <2> QED BY <2>1, Zenon
<1>3. seen' \subseteq Bits
  <2>1. seen' = AllBits(q)
    BY DEF StartBitmap
  <2>2. \A e \in ToSet(q) : e \in Entries
    BY DEF ToSet
  <2> QED BY <2>1, <2>2 DEF AllBits, Entries
<1>4. seen_tmout' \subseteq Bits /\ seen_crash' \subseteq Bits /\ var_bytes' \subseteq Edges
      /\ ran' \subseteq SUBSET Edges /\ crashed' \subseteq Traces
  BY DEF StartBitmap
<1>5. unique_path' \in Seq(SUBSET Edges) /\ crashes' \in Seq(Traces) /\ queue' \in Seq(Entries)
  BY DEF StartBitmap
<1>6. n_fuzz' \in [SUBSET Edges -> Nat] \/ n_fuzz' = NULL
  BY DEF StartBitmap
<1>7. queued_with_cov' \in Nat
  <2> DEFINE S == {k \in DOMAIN q : q[k].has_new_cov}
  <2>1. S \subseteq 1..Len(q) /\ Len(q) \in Nat
    OBVIOUS
  <2>2. IsFiniteSet(1..Len(q))
    BY <2>1, FS_Interval
  <2>3. IsFiniteSet(S)
    BY <2>1, <2>2, FS_Subset
  <2>4. Cardinality(S) \in Nat
    BY <2>3, FS_CardinalityType
  <2> QED BY <2>4 DEF StartBitmap
<1>8. /\ total_unique_path' \in Nat /\ total_crashes' \in Nat /\ saved_crashes' \in Nat
      /\ total_tmouts' \in Nat /\ saved_hangs' \in Nat /\ saved_tmouts' \in Nat
      /\ executed' \in Nat /\ timeouts' \in Nat /\ total_execs' \in Nat /\ stop_soon' \in 0..2
  BY DEF StartBitmap
<1> QED BY <1>1, <1>2, <1>3, <1>4, <1>5, <1>6, <1>7, <1>8 DEF BitmapTypeOK

\* So does the first one.
LEMMA BitmapInitType ==
  ASSUME BitmapInit
  PROVE  BitmapTypeOK
<1>1. /\ options \in OptionType
  BY BitmapAssumption DEF BitmapInit, DefaultOptions, OptionType, Schedules
<1>2. trace \in Traces /\ fault \in Faults /\ queue \in Seq(Entries)
  BY SilenceType, SeedEntryType DEF BitmapInit, Faults
<1>3. path \in SUBSET Edges
  BY DEF BitmapInit
<1>4. classified \in BOOLEAN /\ is_timeout \in BOOLEAN /\ bitmap_changed \in BOOLEAN /\ readme \in BOOLEAN
  <2>1. classified = FALSE /\ is_timeout = FALSE /\ bitmap_changed = FALSE /\ readme = FALSE
    BY DEF BitmapInit
  <2> QED BY <2>1, Zenon
<1> QED BY <1>1, <1>2, <1>3, <1>4 DEF BitmapTypeOK, BitmapInit

-----------------------------------------------------------------------------
(* The invariants.                                                          *)

\* What stays as it is while only counters of events change.
coreVars == <<options, runVars, seen, seen_tmout, seen_crash, var_bytes, pathVars, queueVars,
              countVars, crashes, ran, timeouts, crashed>>

\* A step of a running session, seen from this module.
BitmapStep ==
  \/ UNCHANGED coreVars
  \/ \E i \in Inputs : Execute(i)
  \/ SaveIfInteresting \/ Keep \/ Back

\* The elements of a sequence after one was appended.
LEMMA ToSetAppend ==
  ASSUME NEW S, NEW s \in Seq(S), NEW x \in S
  PROVE  ToSet(Append(s, x)) = ToSet(s) \union {x}
<1>1. /\ DOMAIN s = 1..Len(s) /\ DOMAIN Append(s, x) = 1..(Len(s) + 1) /\ Len(s) \in Nat
      /\ \A k \in 1..Len(s) : Append(s, x)[k] = s[k]
      /\ Append(s, x)[Len(s) + 1] = x
  OBVIOUS
<1>2. \A k \in 1..(Len(s) + 1) : k \in 1..Len(s) \/ k = Len(s) + 1
  BY <1>1
<1>3. ToSet(Append(s, x)) \subseteq ToSet(s) \union {x}
  BY <1>1, <1>2 DEF ToSet
<1>4. ToSet(s) \subseteq ToSet(Append(s, x)) /\ x \in ToSet(Append(s, x))
  BY <1>1 DEF ToSet
<1> QED BY <1>3, <1>4

-----------------------------------------------------------------------------
(* The unique paths.                                                        *)

\* The list holds the paths that were executed, and as many of them as are counted.
PathsInv ==
  /\ ran = ToSet(unique_path)
  /\ IsFiniteSet(ran)
  /\ total_unique_path = Cardinality(ran)

\* One execution adds its path to the list exactly if it is not there.
LEMMA RecordPathCounts ==
  ASSUME BitmapTypeOK, PathsInv, RecordPath
  PROVE  PathsInv'
<1>1. ran' = ran \union {path'} /\ path' \in SUBSET Edges /\ unique_path \in Seq(SUBSET Edges)
  BY DEF RecordPath, RecordPathIn, Hit, BitmapTypeOK
<1>2. CASE path' \in ran
  <2>1. UNCHANGED <<unique_path, total_unique_path>>
    BY <1>2 DEF RecordPath, RecordPathIn, PathsInv
  <2>2. ran' = ran
    BY <1>1, <1>2
  <2> QED BY <2>1, <2>2 DEF PathsInv
<1>3. CASE path' \notin ran
  <2>1. unique_path' = Append(unique_path, path') /\ total_unique_path' = total_unique_path + 1
    BY <1>3 DEF RecordPath, RecordPathIn, PathsInv
  <2>2. ran' = ToSet(unique_path')
    BY <1>1, <2>1, ToSetAppend DEF PathsInv
  <2>3. IsFiniteSet(ran') /\ Cardinality(ran') = Cardinality(ran) + 1
    BY <1>1, <1>3, FS_AddElement DEF PathsInv
  <2> QED BY <2>1, <2>2, <2>3 DEF PathsInv
<1> QED BY <1>2, <1>3

\* No other step touches the list.
LEMMA PathsStep ==
  ASSUME BitmapTypeOK, PathsInv, BitmapStep
  PROVE  PathsInv'
<1>1. CASE NothingNew \/ SomethingNew \/ Unexpected
  BY <1>1, RecordPathCounts DEF NothingNew, SomethingNew, Unexpected, UnexpectedWith
<1>2. CASE ~(NothingNew \/ SomethingNew \/ Unexpected)
  <2>1. UNCHANGED <<unique_path, total_unique_path, ran>>
    <3>1. CASE UNCHANGED coreVars
      BY <3>1 DEF coreVars, pathVars
    <3>2. CASE \E i \in Inputs : Execute(i)
      BY <3>2 DEF Execute, pathVars
    <3>3. CASE SaveToQueue \/ JudgeNormal \/ JudgeCrash \/ JudgeTimeout \/ SaveHang \/ KeepAsCrash
      BY <3>3 DEF SaveToQueue, SaveToQueueUnder, JudgeNormal, JudgeCrash, JudgeTimeout, JudgeTimeoutWith,
         SaveHang, KeepAsCrash, pathVars, history
    <3>4. CASE \E o \in input.again : Calibrate(o) \/ Rerun(o)
      BY <3>4 DEF Calibrate, Rerun, RerunTaking, pathVars, history
    <3>5. CASE Keep \/ Back
      BY <3>5 DEF Keep, Keeping, Back, pathVars, history
    <3> QED BY <1>2, <3>1, <3>2, <3>3, <3>4, <3>5 DEF BitmapStep, SaveIfInteresting
  <2> QED BY <2>1 DEF PathsInv
<1> QED BY <1>1, <1>2

\* A session starts with no path.
LEMMA PathsStart ==
  ASSUME NEW o, NEW q, StartBitmap(o, q)
  PROVE  PathsInv'
<1>1. ran' = {} /\ unique_path' = <<>> /\ total_unique_path' = 0
  BY DEF StartBitmap
<1>2. ToSet(<<>>) = {}
  BY DEF ToSet
<1> QED BY <1>1, <1>2, FS_EmptySet DEF PathsInv

-----------------------------------------------------------------------------
(* The timeouts.                                                            *)

\* A timed-out input on its way to the switch, for the first time or again, is owed a count.
Owed == fault = "TMOUT" /\ pc \in {"queue", "calibrate", "calibrated", "judge"}

TimeoutsInv ==
  /\ pc = "rerun" => fault = "TMOUT"
  /\ pc \notin {"fatal", "segfault"} =>
       IF Owed THEN total_tmouts + 1 = timeouts + saved_tmouts ELSE total_tmouts = timeouts + saved_tmouts

\* A timeout gets its count at the switch, and a new debt when it is sent back to the queue.
LEMMA TimeoutsStep ==
  ASSUME BitmapTypeOK, TimeoutsInv, BitmapStep
  PROVE  TimeoutsInv'
<1>1. total_tmouts \in Nat /\ timeouts \in Nat /\ saved_tmouts \in Nat /\ options.crash_mode \in {"OK", "CRASH"}
  BY DEF BitmapTypeOK, OptionType
<1>2. CASE UNCHANGED coreVars
  BY <1>2 DEF TimeoutsInv, Owed, coreVars, runVars, countVars
<1>3. CASE \E i \in Inputs : Execute(i)
  BY <1>3 DEF TimeoutsInv, Owed, Execute, countVars, Return
<1>4. CASE NothingNew
  BY <1>4 DEF TimeoutsInv, Owed, NothingNew, RecordPath, RecordPathIn, Return
<1>5. CASE SomethingNew
  BY <1>1, <1>5 DEF TimeoutsInv, Owed, SomethingNew, RecordPath, RecordPathIn, countVars
<1>6. CASE Unexpected
  BY <1>1, <1>6 DEF TimeoutsInv, Owed, Unexpected, UnexpectedWith, RecordPath, RecordPathIn, countVars
<1>7. CASE SaveToQueue
  BY <1>7 DEF TimeoutsInv, Owed, SaveToQueue, SaveToQueueUnder, countVars, history
<1>8. CASE JudgeNormal \/ JudgeCrash
  BY <1>8 DEF TimeoutsInv, Owed, JudgeNormal, JudgeCrash, countVars, history
<1>9. CASE JudgeTimeout
  BY <1>1, <1>9 DEF TimeoutsInv, Owed, JudgeTimeout, JudgeTimeoutWith, history
<1>10. CASE SaveHang
  BY <1>10 DEF TimeoutsInv, Owed, SaveHang, Return, history
<1>11. CASE KeepAsCrash
  BY <1>11 DEF TimeoutsInv, Owed, KeepAsCrash, Return, history
<1>12. CASE \E o \in input.again : Calibrate(o)
  BY <1>12 DEF TimeoutsInv, Owed, Calibrate, countVars, history
<1>13. CASE \E o \in input.again : Rerun(o)
  BY <1>1, <1>13 DEF TimeoutsInv, Owed, Rerun, RerunTaking, Return, history
<1>14. CASE Keep \/ Back
  BY <1>14 DEF TimeoutsInv, Owed, Keep, Keeping, Back, countVars, history
<1> QED BY <1>2, <1>3, <1>4, <1>5, <1>6, <1>7, <1>8, <1>9, <1>10, <1>11, <1>12, <1>13, <1>14
        DEF BitmapStep, SaveIfInteresting

\* A session starts without timeouts.
LEMMA TimeoutsStart ==
  ASSUME NEW o, NEW q, StartBitmap(o, q)
  PROVE  TimeoutsInv'
BY DEF StartBitmap, TimeoutsInv, Owed

-----------------------------------------------------------------------------
(* The frequencies.                                                         *)

FrequencyInv ==
  /\ FrequencyOfExecuted
  /\ pc \in {"queue", "calibrate", "calibrated", "judge", "rerun"} => path \in ran

\* The counter of the path that was recorded is positive, also when it stays at its bound.
LEMMA RecordPathFrequency ==
  ASSUME BitmapTypeOK, TableAsScheduled, FrequencyInv, RecordPath
  PROVE  FrequencyOfExecuted' /\ path' \in ran'
<1>1. path' \in ran' /\ ran' = ran \union {path'} /\ pc = "save"
  BY DEF RecordPath, RecordPathIn
<1>2. path' \in SUBSET Edges
  BY RecordPathType
<1>3. CASE n_fuzz = NULL
  <2>1. n_fuzz' = n_fuzz
    BY <1>1, <1>3 DEF RecordPath, RecordPathIn, TableAsScheduled
  <2> QED BY <1>1, <1>3, <2>1 DEF FrequencyOfExecuted
<1>4. CASE n_fuzz # NULL
  <2>1. n_fuzz \in [SUBSET Edges -> Nat]
    BY <1>4 DEF BitmapTypeOK
  <2>2. n_fuzz' = IF n_fuzz[path'] < FreqCap THEN [n_fuzz EXCEPT ![path'] = n_fuzz[path'] + 1] ELSE n_fuzz
    BY <1>1, <1>4 DEF RecordPath, RecordPathIn, TableAsScheduled
  <2>3. n_fuzz'[path'] > 0
    BY <1>2, <2>1, <2>2, BitmapAssumption
  <2>4. \A p \in SUBSET Edges : p # path' => n_fuzz'[p] = n_fuzz[p]
    BY <1>2, <2>1, <2>2
  <2>5. \A p \in SUBSET Edges : n_fuzz[p] > 0 <=> p \in ran
    BY <1>4 DEF FrequencyInv, FrequencyOfExecuted
  <2> QED BY <1>1, <1>2, <2>3, <2>4, <2>5 DEF FrequencyOfExecuted
<1> QED BY <1>1, <1>3, <1>4

\* save_to_queue writes under a path that was recorded; nothing else touches the table.
LEMMA FrequencyStep ==
  ASSUME BitmapTypeOK, TableAsScheduled, FrequencyInv, BitmapStep
  PROVE  FrequencyInv'
<1>1. CASE NothingNew \/ SomethingNew \/ Unexpected
  <2>1. RecordPath
    BY <1>1 DEF NothingNew, SomethingNew, Unexpected, UnexpectedWith
  <2> QED BY <2>1, RecordPathFrequency DEF FrequencyInv
<1>2. CASE SaveToQueue
  <2>1. ran' = ran /\ path' = path /\ path \in ran /\ path \in SUBSET Edges
    BY <1>2 DEF SaveToQueue, SaveToQueueUnder, history, FrequencyInv, BitmapTypeOK
  <2>2. CASE n_fuzz = NULL
    BY <1>2, <2>1, <2>2 DEF SaveToQueue, SaveToQueueUnder, FrequencyInv, FrequencyOfExecuted
  <2>3. CASE n_fuzz # NULL
    <3>1. n_fuzz \in [SUBSET Edges -> Nat] /\ n_fuzz' = [n_fuzz EXCEPT ![path] = 1]
      BY <1>2, <2>3 DEF SaveToQueue, SaveToQueueUnder, BitmapTypeOK
    <3>2. \A p \in SUBSET Edges : n_fuzz[p] > 0 <=> p \in ran
      BY <2>3 DEF FrequencyInv, FrequencyOfExecuted
    <3> QED BY <2>1, <3>1, <3>2 DEF FrequencyInv, FrequencyOfExecuted
  <2> QED BY <2>2, <2>3
<1>3. CASE UNCHANGED coreVars
  BY <1>3 DEF coreVars, runVars, pathVars, FrequencyInv, FrequencyOfExecuted
<1>4. CASE \E i \in Inputs : Execute(i)
  BY <1>4 DEF Execute, Return, pathVars, FrequencyInv, FrequencyOfExecuted
<1>5. CASE JudgeNormal \/ JudgeCrash \/ JudgeTimeout \/ SaveHang \/ KeepAsCrash
  BY <1>5 DEF JudgeNormal, JudgeCrash, JudgeTimeout, JudgeTimeoutWith, SaveHang, Return,
     KeepAsCrash, pathVars, history, FrequencyInv, FrequencyOfExecuted
<1>6. CASE \E o \in input.again : Calibrate(o) \/ Rerun(o)
  BY <1>6 DEF Calibrate, Rerun, RerunTaking, Return, pathVars, history, FrequencyInv, FrequencyOfExecuted
<1>7. CASE Keep \/ Back
  BY <1>7 DEF Keep, Keeping, Back, pathVars, history, FrequencyInv, FrequencyOfExecuted
<1> QED BY <1>1, <1>2, <1>3, <1>4, <1>5, <1>6, <1>7 DEF BitmapStep, SaveIfInteresting

\* A session starts without frequencies.
LEMMA FrequencyStart ==
  ASSUME NEW o, NEW q, StartBitmap(o, q)
  PROVE  FrequencyInv'
<1>1. ran' = {} /\ pc' = "idle" /\ (n_fuzz' = NULL \/ n_fuzz' = [p \in SUBSET Edges |-> 0])
  BY DEF StartBitmap
<1> QED BY <1>1 DEF FrequencyInv, FrequencyOfExecuted

-----------------------------------------------------------------------------
(* The coverage.                                                            *)

\* While an input is being queued, the bits of its trace are on their way to the map and the queue.
CoverageInv ==
  LET shown == AllBits(queue) \union (var_bytes \X Bytes)
  IN /\ pc \in {"idle", "save", "calibrated", "judge", "rerun", "hang", "crash", "returned"} => seen = shown
     /\ pc = "queue" => seen \union BitsOf(trace) = shown \union BitsOf(trace)
     /\ pc = "calibrate" => /\ seen \union BitsOf(trace) = shown /\ queue # <<>>

\* A new entry adds its bits to those the queue can show.
LEMMA AllBitsAppend ==
  ASSUME NEW q \in Seq(Entries), NEW e \in Entries
  PROVE  AllBits(Append(q, e)) = AllBits(q) \union e.bits
BY ToSetAppend DEF AllBits

\* More bits for one entry are more bits for the queue.
LEMMA AllBitsExcept ==
  ASSUME NEW q \in Seq(Entries), NEW n \in DOMAIN q, NEW r, NEW B, r.bits = q[n].bits \union B
  PROVE  AllBits([q EXCEPT ![n] = r]) = AllBits(q) \union B
<1> DEFINE q2 == [q EXCEPT ![n] = r]
<1>1. DOMAIN q2 = DOMAIN q /\ q2[n] = r /\ \A k \in DOMAIN q : k # n => q2[k] = q[k]
  OBVIOUS
<1> HIDE DEF q2
<1>2. AllBits(q) = UNION {q[k].bits : k \in DOMAIN q}
  BY DEF AllBits, ToSet
<1>3. AllBits(q2) = UNION {q2[k].bits : k \in DOMAIN q2}
  BY DEF AllBits, ToSet
<1>4. AllBits(q2) \subseteq AllBits(q) \union B
  BY <1>1, <1>2, <1>3
<1>5. AllBits(q) \subseteq AllBits(q2) /\ B \subseteq AllBits(q2)
  <2>1. \A k \in DOMAIN q : q[k].bits \subseteq q2[k].bits
    BY <1>1
  <2> QED BY <1>1, <1>2, <1>3, <2>1
<1> QED BY <1>4, <1>5 DEF q2

\* Calibration adds the bits of its runs to the map and to the entry alike.
LEMMA CalibrateCoverage ==
  ASSUME BitmapTypeOK, CoverageInv, NEW o \in input.again, Calibrate(o)
  PROVE  CoverageInv'
<1> DEFINE known == seen \union BitsOf(trace)
           good  == /\ stop_soon = 0 /\ o.fault = options.crash_mode
                    /\ options.non_instrumented_mode \/ count_bytes(o.trace) # 0
           t     == IF good THEN Classify(o.trace) ELSE trace
           var   == {e \in Edges : trace[e] # t[e]}
           cov   == has_new_bits(trace, seen) = 2 \/ has_new_bits(t, known) = 2
           n     == Len(queue)
           row   == [queue[n] EXCEPT !.bits = @ \union BitsOf(t), !.has_new_cov = @ \/ cov]
<1>1. /\ pc = "calibrate" /\ pc' \in {"fatal", "calibrated"}
      /\ seen' = known \union BitsOf(t) \union (var \X Bytes)
      /\ var_bytes' = var_bytes \union var
      /\ queue' = [queue EXCEPT ![n].bits = @ \union BitsOf(t), ![n].has_new_cov = @ \/ cov]
  BY DEF Calibrate
<1>2. queue \in Seq(Entries) /\ queue # <<>>
  BY <1>1 DEF BitmapTypeOK, CoverageInv
<1>3. n \in DOMAIN queue
  BY <1>2
<1>4. queue' = [queue EXCEPT ![n] = row]
  BY <1>1, <1>3
<1>5. row.bits = queue[n].bits \union BitsOf(t)
  <2>1. queue[n] \in Entries
    BY <1>2, <1>3
  <2> HIDE DEF t, cov, n
  <2> QED BY <2>1 DEF Entries
<1> HIDE DEF row, t, var, cov, n
<1>6. AllBits(queue') = AllBits(queue) \union BitsOf(t)
  BY <1>2, <1>3, <1>4, <1>5, AllBitsExcept
<1>7. known = AllBits(queue) \union (var_bytes \X Bytes)
  BY <1>1 DEF CoverageInv
<1>8. var_bytes' \X Bytes = (var_bytes \X Bytes) \union (var \X Bytes)
  BY <1>1
<1>9. seen' = AllBits(queue') \union (var_bytes' \X Bytes)
  BY <1>1, <1>6, <1>7, <1>8
<1> QED BY <1>1, <1>9 DEF CoverageInv

\* Bits leave the map of the unseen together with their entry in the queue.
LEMMA CoverageStep ==
  ASSUME BitmapTypeOK, CoverageInv, BitmapStep
  PROVE  CoverageInv'
<1>1. CASE UNCHANGED coreVars
  BY <1>1 DEF coreVars, runVars, queueVars, CoverageInv, AllBits
<1>2. CASE \E i \in Inputs : Execute(i)
  BY <1>2 DEF Execute, Return, mapVars, queueVars, CoverageInv, AllBits
<1>3. CASE NothingNew \/ Unexpected
  BY <1>3 DEF NothingNew, Unexpected, UnexpectedWith, RecordPath, RecordPathIn, Return, mapVars, queueVars,
     CoverageInv, AllBits
<1>4. CASE SomethingNew
  <2>1. /\ pc = "save" /\ pc' = "queue" /\ seen' = seen \union BitsOf(trace')
        /\ UNCHANGED <<queue, var_bytes>>
    BY <1>4 DEF SomethingNew, RecordPath, RecordPathIn, queueVars
  <2> QED BY <2>1 DEF CoverageInv, AllBits
<1>5. CASE SaveToQueue
  <2> DEFINE row == [path |-> path, tags |-> Tags, bits |-> BitsOf(trace), has_new_cov |-> new_bits = 2]
  <2>1. /\ pc = "queue" /\ pc' \in {"segfault", "calibrate"} /\ queue' = Append(queue, row)
        /\ UNCHANGED <<seen, var_bytes, trace>>
    BY <1>5 DEF SaveToQueue, SaveToQueueUnder, mapVars
  <2>2. row \in Entries
    <3>1. path \in SUBSET Edges /\ BitsOf(trace) \in SUBSET Bits
      BY BitsOfType DEF BitmapTypeOK
    <3>2. Tags \in SUBSET {"+tout", "+cov"}
      BY DEF Tags
    <3>3. (new_bits = 2) \in BOOLEAN
      OBVIOUS
    <3> QED BY <3>1, <3>2, <3>3 DEF Entries
  <2>3. row.bits = BitsOf(trace)
    OBVIOUS
  <2> HIDE DEF row
  <2>4. queue \in Seq(Entries)
    BY DEF BitmapTypeOK
  <2>5. AllBits(queue') = AllBits(queue) \union BitsOf(trace)
    BY <2>1, <2>2, <2>3, <2>4, AllBitsAppend
  <2>6. queue' # <<>>
    BY <2>1, <2>2, <2>4
  <2> QED BY <2>1, <2>5, <2>6 DEF CoverageInv
<1>6. CASE JudgeNormal \/ JudgeCrash \/ JudgeTimeout \/ SaveHang \/ KeepAsCrash
  BY <1>6 DEF JudgeNormal, JudgeCrash, JudgeTimeout, JudgeTimeoutWith, SaveHang, Return,
     KeepAsCrash, mapVars, queueVars, CoverageInv, AllBits
<1>7. CASE \E o \in input.again : Calibrate(o)
  BY <1>7, CalibrateCoverage
<1>8. CASE \E o \in input.again : Rerun(o)
  BY <1>8 DEF Rerun, RerunTaking, Return, mapVars, queueVars, CoverageInv, AllBits
<1>9. CASE Keep \/ Back
  BY <1>9 DEF Keep, Keeping, Back, mapVars, queueVars, CoverageInv, AllBits
<1> QED BY <1>1, <1>2, <1>3, <1>4, <1>5, <1>6, <1>7, <1>8, <1>9 DEF BitmapStep, SaveIfInteresting

\* A session starts with the map of its queue.
LEMMA CoverageStart ==
  ASSUME NEW o, NEW q, StartBitmap(o, q)
  PROVE  CoverageInv'
<1>1. pc' = "idle" /\ queue' = q /\ seen' = AllBits(q) /\ var_bytes' = {}
  BY DEF StartBitmap
<1> QED BY <1>1 DEF CoverageInv, AllBits

-----------------------------------------------------------------------------
(* The crashes.                                                             *)

\* The crash map shows no more than the saved crashes do; and of the traces that crashed, all are in
\* the map but the one save_if_interesting is about to enter.
CrashInv ==
  LET searching == options.crash_mode = "OK"
  IN /\ pc = "rerun" => fault = "TMOUT"
     /\ searching /\ fault = "CRASH" => pc \notin {"queue", "calibrate", "calibrated"}
     /\ seen_crash \subseteq UNION {BitsOf(c) : c \in ToSet(crashes)}
     /\ searching /\ ~options.non_instrumented_mode /\ saved_crashes < KeepCrashes =>
          \A t \in crashed : \/ BitsOf(t) \subseteq seen_crash
                             \/ pc = "judge" /\ fault = "CRASH" /\ t = Simplify(trace)
                             \/ pc = "crash" /\ t = Simplify(trace)

\* A crash that is not saved shows nothing new, so that the saved ones show all of it.
LEMMA KeepAsCrashWitness ==
  ASSUME BitmapTypeOK, CrashInv, KeepAsCrash
  PROVE  CrashInv'
<1> DEFINE full  == saved_crashes >= KeepCrashes
           blind == options.non_instrumented_mode
           save  == ~full /\ (blind \/ has_new_bits(Simplified, seen_crash) # 0)
<1>1. /\ pc = "crash" /\ pc' = "returned"
      /\ IF full \/ blind THEN UNCHANGED <<trace, seen_crash>>
                          ELSE trace' = Simplified /\ seen_crash' = seen_crash \union BitsOf(Simplified)
      /\ IF save THEN saved_crashes' = saved_crashes + 1 /\ crashes' = Append(crashes, trace')
                 ELSE UNCHANGED <<saved_crashes, crashes>>
      /\ UNCHANGED <<options, fault, classified, crashed>>
  BY DEF KeepAsCrash, Return, history
<1>2. /\ crashes \in Seq(Traces) /\ trace \in Traces /\ saved_crashes \in Nat /\ KeepCrashes \in Nat
  BY BitmapAssumption DEF BitmapTypeOK
<1>3. Simplified \in Traces
  BY SimplifiedType
<1>4. seen_crash' \subseteq UNION {BitsOf(c) : c \in ToSet(crashes')}
  <2>1. seen_crash \subseteq UNION {BitsOf(c) : c \in ToSet(crashes)}
    BY DEF CrashInv
  <2>2. CASE save
    <3>1. trace' \in Traces /\ crashes' = Append(crashes, trace')
      BY <1>1, <1>2, <1>3, <2>2
    <3>2. ToSet(crashes') = ToSet(crashes) \union {trace'}
      BY <1>2, <3>1, ToSetAppend
    <3>3. seen_crash' = seen_crash \/ seen_crash' = seen_crash \union BitsOf(trace')
      BY <1>1
    <3> QED BY <2>1, <3>2, <3>3
  <2>3. CASE ~save
    <3>1. crashes' = crashes
      BY <1>1, <2>3
    <3>2. seen_crash' = seen_crash
      <4>1. CASE full \/ blind
        BY <1>1, <4>1
      <4>2. CASE ~full /\ ~blind
        <5>1. BitsOf(Simplified) \subseteq seen_crash
          BY <2>3, <4>2, NewBitsProperty
        <5> QED BY <1>1, <4>2, <5>1
      <4> QED BY <4>1, <4>2
    <3> QED BY <2>1, <3>1, <3>2
  <2> QED BY <2>2, <2>3
<1>5. ASSUME options.crash_mode = "OK", ~blind, saved_crashes' < KeepCrashes, NEW t \in crashed
      PROVE  BitsOf(t) \subseteq seen_crash'
  <2>1. ~full
    BY <1>1, <1>2, <1>5
  <2>2. seen_crash' = seen_crash \union BitsOf(Simplified)
    BY <1>1, <1>5, <2>1
  <2>3. CASE BitsOf(t) \subseteq seen_crash
    BY <2>2, <2>3
  <2>4. CASE t = Simplify(trace)
    <3>1. Simplified = Simplify(trace)
      BY SimplifiedType
    <3> QED BY <2>2, <2>4, <3>1
  <2>5. saved_crashes < KeepCrashes
    BY <1>2, <2>1
  <2> QED BY <1>1, <1>5, <2>3, <2>4, <2>5 DEF CrashInv
<1> QED BY <1>1, <1>4, <1>5 DEF CrashInv

\* No other step puts anything into the crash map, or forgets a crash on the way to it.
LEMMA CrashStep ==
  ASSUME BitmapTypeOK, CrashInv, BitmapStep
  PROVE  CrashInv'
<1>1. CASE UNCHANGED coreVars
  BY <1>1 DEF coreVars, runVars, countVars, CrashInv
<1>2. CASE \E i \in Inputs : Execute(i)
  BY <1>2 DEF Execute, Return, mapVars, countVars, fileVars, CrashInv
<1>3. CASE NothingNew
  BY <1>3 DEF NothingNew, RecordPath, RecordPathIn, Return, mapVars, fileVars, CrashInv
<1>4. CASE SomethingNew
  BY <1>4 DEF SomethingNew, RecordPath, RecordPathIn, countVars, fileVars, CrashInv
<1>5. CASE Unexpected
  BY <1>5 DEF Unexpected, UnexpectedWith, RecordPath, RecordPathIn, countVars, fileVars, CrashInv
<1>6. CASE SaveToQueue
  BY <1>6 DEF SaveToQueue, SaveToQueueUnder, mapVars, countVars, fileVars, history, CrashInv
<1>7. CASE JudgeNormal \/ JudgeCrash
  BY <1>7 DEF JudgeNormal, JudgeCrash, mapVars, countVars, fileVars, history, CrashInv
<1>8. CASE JudgeTimeout
  BY <1>8 DEF JudgeTimeout, JudgeTimeoutWith, fileVars, history, CrashInv
<1>9. CASE SaveHang
  BY <1>9 DEF SaveHang, Return, mapVars, fileVars, history, CrashInv
<1>10. CASE KeepAsCrash
  BY <1>10, KeepAsCrashWitness
<1>11. CASE \E o \in input.again : Calibrate(o)
  BY <1>11 DEF Calibrate, countVars, fileVars, history, CrashInv
<1>12. CASE \E o \in input.again : Rerun(o)
  BY <1>12 DEF Rerun, RerunTaking, Return, mapVars, fileVars, history, CrashInv
<1>13. CASE Keep \/ Back
  BY <1>13 DEF Keep, Keeping, Back, mapVars, countVars, fileVars, history, CrashInv
<1> QED BY <1>1, <1>2, <1>3, <1>4, <1>5, <1>6, <1>7, <1>8, <1>9, <1>10, <1>11, <1>12, <1>13
        DEF BitmapStep, SaveIfInteresting

\* A session starts without crashes.
LEMMA CrashStart ==
  ASSUME NEW o, NEW q, StartBitmap(o, q)
  PROVE  CrashInv'
BY DEF StartBitmap, CrashInv

-----------------------------------------------------------------------------
(* The end of save_if_interesting.                                          *)

Closer == Unmarked' < Unmarked \/ (Unmarked' = Unmarked /\ ToGo' < ToGo)

\* The bits a map has left are a number, and fewer when one of them is marked.
LEMMA UnmarkedProperty ==
  ASSUME NEW s \in SUBSET Bits
  PROVE  /\ Cardinality(Bits \ s) \in Nat
         /\ \A b \in SUBSET Bits : ~(b \subseteq s) => Cardinality(Bits \ (s \union b)) < Cardinality(Bits \ s)
<1>1. IsFiniteSet(Bits)
  <2>1. IsFiniteSet(Bytes)
    <3>1. Bytes \in SUBSET (1..128)
      BY DEF Bytes
    <3>2. IsFiniteSet(1..128)
      BY FS_Interval, 1 \in Int, 128 \in Int
    <3> QED BY <3>1, <3>2, FS_Subset
  <2> QED BY <2>1, BitmapAssumption, FS_Product DEF Bits
<1>2. \A t \in SUBSET Bits : IsFiniteSet(t) /\ Cardinality(t) \in Nat
  BY <1>1, FS_Subset, FS_CardinalityType
<1>3. ASSUME NEW b \in SUBSET Bits, ~(b \subseteq s)
      PROVE  Cardinality(Bits \ (s \union b)) < Cardinality(Bits \ s)
  <2> DEFINE before == Bits \ s
             after  == Bits \ (s \union b)
  <2>1. after \in SUBSET before /\ after # before /\ before \in SUBSET Bits /\ after \in SUBSET Bits
    BY <1>3
  <2> HIDE DEF before, after
  <2>2. Cardinality(after) <= Cardinality(before) /\ (Cardinality(before) = Cardinality(after) => before = after)
    BY <1>2, <2>1, FS_Subset
  <2>3. Cardinality(after) < Cardinality(before)
    BY <1>2, <2>1, <2>2
  <2> QED BY <2>3 DEF before, after
<1> QED BY <1>2, <1>3

\* A hang that is new in virgin_tmout shows a bit that is not marked there: a simplified trace has no 0.
LEMMA NewHangShows ==
  ASSUME BitmapTypeOK, has_new_bits(Simplified, seen_tmout) # 0
  PROVE  ~(BitsOf(Simplified) \subseteq seen_tmout)
<1> DEFINE t == Simplified
<1>1. t = Simplify(trace) /\ trace \in Traces
  BY SimplifiedType DEF BitmapTypeOK
<1>2. \A e \in Edges : t[e] \in {1, 128}
  BY <1>1 DEF Simplify, simplify_lookup, Traces
<1> HIDE DEF t
<1>3. CASE Hit(t) \ Touched(seen_tmout) # {}
  <2>1. PICK e \in Edges : \A b \in Bytes : <<e, b>> \notin seen_tmout
    BY <1>3 DEF Hit, Touched
  <2>2. PICK b \in Bytes : (t[e] \div b) % 2 = 1
    <3>1. CASE t[e] = 1
      <4>1. (1 \div 1) % 2 = 1 /\ 1 \in Bytes
        BY DEF Bytes
      <4> QED BY <3>1, <4>1
    <3>2. CASE t[e] = 128
      <4>1. (128 \div 128) % 2 = 1 /\ 128 \in Bytes
        BY DEF Bytes
      <4> QED BY <3>2, <4>1
    <3> QED BY <1>2, <2>1, <3>1, <3>2
  <2>3. <<e, b>> \in Bits /\ <<e, b>>[1] = e /\ <<e, b>>[2] = b
    BY <2>1, <2>2 DEF Bits
  <2>4. <<e, b>> \in BitsOf(t)
    BY <2>2, <2>3 DEF BitsOf
  <2> QED BY <2>1, <2>2, <2>4 DEF t
<1>4. CASE Hit(t) \ Touched(seen_tmout) = {}
  BY <1>4 DEF has_new_bits, t
<1> QED BY <1>3, <1>4

\* A hang that is run again was new in virgin_tmout, unless there is no map.
LEMMA JudgeTimeoutAdvances ==
  ASSUME BitmapTypeOK, JudgeTimeout, ~(options.non_instrumented_mode /\ options.keep_timeouts)
  PROVE  Closer
<1>1. options' = options /\ pc = "judge" /\ pc' \in {"returned", "rerun", "hang"} /\ ToGo = 4
  BY DEF JudgeTimeout, JudgeTimeoutWith, ToGo
<1>2. seen_tmout \in SUBSET Bits /\ BitsOf(Simplified) \in SUBSET Bits
  BY BitsOfType DEF BitmapTypeOK
<1>3. CASE seen_tmout' = seen_tmout /\ ~(pc' = "rerun" /\ options.keep_timeouts)
  <2>1. ToGo' \in {1, 2, 3}
    BY <1>1, <1>3 DEF ToGo
  <2>2. Unmarked' = Unmarked
    BY <1>3 DEF Unmarked
  <2> QED BY <1>1, <2>1, <2>2 DEF Closer
<1>4. CASE seen_tmout' # seen_tmout
  <2>1. seen_tmout' = seen_tmout \union BitsOf(Simplified)
    BY <1>4 DEF JudgeTimeout, JudgeTimeoutWith
  <2>2. ~(BitsOf(Simplified) \subseteq seen_tmout)
    BY <1>4, <2>1
  <2> QED BY <1>2, <2>1, <2>2, UnmarkedProperty DEF Unmarked, Closer
<1>5. CASE pc' = "rerun" /\ options.keep_timeouts
  <2>1. /\ ~options.non_instrumented_mode /\ saved_hangs < KeepHangs
        /\ has_new_bits(Simplified, seen_tmout) # 0
        /\ seen_tmout' = seen_tmout \union BitsOf(Simplified)
    BY <1>5, BitmapAssumption DEF JudgeTimeout, JudgeTimeoutWith, BitmapTypeOK, OptionType
  <2> QED BY <1>2, <2>1, NewHangShows, UnmarkedProperty DEF Unmarked, Closer
<1> QED BY <1>3, <1>4, <1>5

\* Every other step leads to a later place of the round; a second run leads into the next one.
LEMMA SaveStepAdvances ==
  ASSUME BitmapTypeOK, SaveIfInteresting \/ Keep \/ Back,
         ~(options.non_instrumented_mode /\ options.keep_timeouts)
  PROVE  Closer
<1>1. CASE seen_tmout' = seen_tmout /\ ToGo' < ToGo
  BY <1>1 DEF Unmarked, Closer
<1>2. CASE NothingNew
  BY <1>1, <1>2 DEF NothingNew, RecordPath, RecordPathIn, Return, mapVars, ToGo
<1>3. CASE SomethingNew
  BY <1>1, <1>3 DEF SomethingNew, RecordPath, RecordPathIn, ToGo
<1>4. CASE Unexpected
  BY <1>1, <1>4 DEF Unexpected, UnexpectedWith, RecordPath, RecordPathIn, ToGo
<1>5. CASE SaveToQueue
  BY <1>1, <1>5 DEF SaveToQueue, SaveToQueueUnder, mapVars, ToGo
<1>6. CASE JudgeNormal \/ JudgeCrash
  BY <1>1, <1>6 DEF JudgeNormal, JudgeCrash, mapVars, ToGo
<1>7. CASE JudgeTimeout
  BY <1>7, JudgeTimeoutAdvances
<1>8. CASE SaveHang
  BY <1>1, <1>8 DEF SaveHang, Return, mapVars, ToGo
<1>9. CASE KeepAsCrash
  BY <1>1, <1>9 DEF KeepAsCrash, Return, mapVars, ToGo
<1>10. CASE \E o \in input.again : Calibrate(o)
  BY <1>1, <1>10 DEF Calibrate, ToGo
<1>11. CASE \E o \in input.again : Rerun(o)
  <2>1. /\ pc = "rerun" /\ options' = options /\ seen_tmout' = seen_tmout
        /\ pc' \in {"crash", "hang", "returned"} \/ (pc' = "queue" /\ options.keep_timeouts)
    BY <1>11 DEF Rerun, RerunTaking, Return, mapVars
  <2> QED BY <1>1, <2>1 DEF ToGo
<1>12. CASE Keep \/ Back
  BY <1>1, <1>12 DEF Keep, Keeping, Back, mapVars, ToGo
<1> QED BY <1>2, <1>3, <1>4, <1>5, <1>6, <1>7, <1>8, <1>9, <1>10, <1>11, <1>12 DEF SaveIfInteresting
=============================================================================
