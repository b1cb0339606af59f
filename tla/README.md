# Verification of CTFuzz

TLA+ models of CTFuzz, a reinforcement-learning fuzzer (Python environments around a modified
AFL++ fork server), the TLC runs that check them and the TLAPS proofs about them.

## The system

| Part | Source | State | Operations | Talks to |
|---|---|---|---|---|
| Client engine `Afl` | `ctfuzz/coverage/coverage.py` | process handle, mapping, two semaphores | `__init__`, `run`, `__del__`, SIGINT handler | fork server, by shared memory and named semaphores |
| Fork server `ex-frsv` | `ctfuzz/afl/ex-frsv.c` | the same objects, `stop_soon`, `in_data`, child status | boot, `init_sem_shm`, `run` loop, `handle_stop_sig`, aborts | client; the target through AFL's fork-server library |
| Seed scheduler | `ctfuzz/envs/ct_fuzz_2_env.py` | `virgin_map`, `unique_path`, two seed queues, cycle list, depth | `reset`, `step_raw` and the queue operations, `save_env`/`load_env` | engine, mutator, the agent |
| Mutator 3 | `ctfuzz/envs/fuzz_mutator_3.py` | action, input, cursor | nine set-ups, nine mutations, `next` | scheduler |
| Older environments | `ct_fuzz_1_env.py`, `fuzz_base_env.py`, `old_rlfuzz_env.py`, `fuzz_mutator.py`, `fuzz_mutator_2.py` | seed dictionaries, counters | `reset`, `step` | engine |
| Modified AFL++ | `afl-fuzz-bitmap.c`, `afl-fuzz-stats.c`, `afl-fuzz-state.c` | unique-path list, three virgin maps, queue, crashes and hangs, counters, settings; the files `fuzzer_stats`, `plot_data`, `fuzz_bitmap`, `crashes/README.txt` | `save_if_interesting`, `show_stats`, write and load of `fuzzer_stats`, `show_init_stats`, the environment, stop and skip requests | its target, its own earlier sessions through the output directory (a baseline fuzzer built from the same tree) |
| Drivers | `examples/*.py`, `examples/*.sh` | - | start a session, train, test, kill | all of the above |

What is hard: two processes that share memory with no lock but two semaphores; kernel objects
found by name, which outlive the processes and may be bound again; a signal handler that pulls the
memory out from under the loop it interrupts; a scheduler whose three records of coverage agree only
through the order of calls; a cursor shared by nine actions; backups that share their rows with what
goes on; a function of ten exits between which coverage, crashes, hangs and paths must stay accounted
for, which may be told to stop between any two of its calls; files that the next session reads by line
number, and that a kill may have left half written. PROJECT.json lists each hazard at its
line with the properties that watch it.

## The modules

**`CoverageRPC`** is the abstract engine: a call runs the target at most once, on the input of that
call, and returns that run's outcome or never returns.

**`ExFrsv`** is the protocol as written: `Main(s)` is the control flow of server `s` (`Boot` to
`OpenOut`, then `Wait`, `Read`, `Run`, `Clear`, `Reply`, `Post`), `Deliver` and `Handler` the stop
signal and its handler, `Client*` the steps of `Afl.__init__` and `Afl.run`, `Launch`, `EndSession`
and `Signal` the outside world. Names (`name`) and objects (`content`, `semIn`, `semOut`) are kept
apart: an object is known by the server that created it, each process by what it is attached to.
A handler runs to its end before the main thread goes on (`NoHandler`), but the
other process may act between any two of its steps. A signal is blocked only while its own handler
runs (`sa_mask` is empty), so `pend` and `hpc` are kept for each stop signal and another one nests
inside (`nest`, the innermost handler first; only that one takes steps, `HandlerGoto`). Touching unmapped memory, freeing twice and
copying past a buffer end the process. The memory holds a request number, an outcome, zeroes or
nothing (before `ftruncate`); coverage bytes are not represented.

**`EngineReplace`** extends it with an environment that builds an engine while it still has one.

**`SeedCorpus`** is the abstract corpus: a set of paths that only grows until `reset()`, and the edges
they cover.

**`CTFuzz2Env`** is the scheduler. An execution is the set of edges it covers (which stands for its
hash, so hash collisions are left out), the length of its input, and whether it crashed. Both the
scheduled rows and the row of a step in progress are copies, as in the code, so the model has its
lost updates. A full step is `BeginStep`, some `Try`, `EndStep`; a step at depth 2 is preceded by
`Probe`. `CreateCurrentSeedList` ends the process when it finds both queues empty, in `reset` and at
the end of a step alike; `IndexInCycle` says that the second never happens. Checklists shared between copies of a row are never read through the second copy
before it is overwritten, so values suffice. How many inputs the mutator offers, and
which, is open (`MaxTry`, `Lens`).

**`EnvBackup`** is `save_env`, `load_env` and `load_env_in_reset` with what Python shares: a
checklist is an object (`uses` counts what was tried), a row holds a reference, the lists of an
environment or a backup are numbered (`stores`), and restoring with flag 1 takes the very lists of
the backup. The scheduling around it is `CTFuzz2Env` cut down to one action and equal lengths.

**`FuzzMutator3`** has the cursor fields, each set-up and each `Mutate_*` that moves the cursor, driven
as `step_raw` drives them: a full step calls `next` as often as it was granted, a probe once whatever
it was granted. Inputs are known by their length; whether the bytes after a digit are a number is
open, so where `Mutate_ChangeASCIIInteger` gives `int()` all of them (178 tests the length instead of a
byte) it may raise or not (`NumberRefused`).

**`AflBitmap`** is `save_if_interesting` and what it calls. A trace gives every edge a byte, a virgin
map is the set of `<<edge, bit>>` it has cleared, and a path is the set of edges hit, which stands for
CTFuzz's `cksum` of the map reduced to 0 and 1. The function is cut into steps where it runs the
target again (`Calibrate`, `Rerun`) and at its labels; `pc` names the place: `save` its first line,
`queue` the label `save_to_queue`, `judge` the switch on the outcome, `rerun` the second chance of a
hang, `crash` the label `keep_as_crash`. Its locals are the variables `runVars`. An input comes with the
outcome of its first run and those of later runs, so flaky targets are included; the history `crashed`
has the crashes of first runs and those that a second run uncovers (`Rerun`); `calibrate_case`
is AFL++'s own, seen from its effects on maps, entry and variable edges.

**`AflEnvironment`** is `read_afl_environment` as a recursive function over the entries of the
environment (`ReadEntry` is one turn of the loop): which variables set which of the settings (aliases and prefix matches included), how their texts are
converted (an empty text is `NULL` and `atoi` of it ends the process), and that `getenv` answers with the
first entry of a name whichever entry asked. `SettingsOf` says the same without the loop: a switch or a
text is looked up by the name of the last entry for its field (`LastFor`), each of the five numbers by
its own name, and a `SYNC_TIME` of 0 leaves the default (`NumberFor`).

**`AflStats`** has `show_init_stats` (`InitTimeouts`), `show_stats` up to the drawing (`ShowStats`, with
the limits, then `WriteFiles`, then `ShowRest`, cut where a file is open so that a kill can
leave it torn), `write_stats_file`, `load_stats_file`, which finds its lines by number,
`maybe_update_plot_file` and `write_bitmap`.

**`AflFuzzer`** composes the three: `StartSession` (all of memory anew, the directory kept), `Load`,
`FirstWrite`, the loop (`StartCycle`, `RunInput`, `SaveStep`, `KeepStep`, `NextInput`, `BeginShow`,
`WriteShow`, `EndShow`), and the ends: `StopFuzzing`/`Finish`, `Abort`, and from outside `StopSignal`,
`StopWhileRunning`, `RequestSkip`, `Die`, `Tick`. The order of these calls is that of AFL++'s `main` and
`common_fuzz_stuff`, which this tree has only inside the vendored archive `ctfuzz/afl/4.05c.zip`. `MCAflFuzzer` has the campaigns: what is on the
command line and in the environment, which inputs come up, and whether there are signals and kills.

Definitions marked "Fault" are plausible bugs of the code; each property is shown to fail when one
of them replaces the definition it imitates (PROJECT.json, "mutants").

## The runs

| Run | Module, instance | Question | Result |
|---|---|---|---|
| session | `ExFrsv`: 1 server, 3 calls, 2 signals, failing target | `OwnAnswer`, `CallReturns`, `ImplementsRPC` | hold, 60 444 states |
| restart | `ExFrsv`: 2 servers in turn, 2 calls, 1 signal besides those that end a session | `InputAvailable`, `MemoryExclusion`, `LeftoversAreClean`, `OneTokenPerCall`, `DiesOnlyWhenTold`, `ConnectFailsOnlyEarly`, `StopEndsServer` | hold, 189 463 states |
| replace | `EngineReplace`: 2 servers at once | `InputAvailable` | violated, see below |
| abort | `ExFrsv`: 2 servers, the first may abort | `InputAvailable` | violated, see below |
| corpus | `CTFuzz2Env`: 3 paths, 2 lengths, 2 seeds, 2 resets, one action allowed twice | `CoverageWitnessed`, `OneSeedPerPath`, `ImplementsCorpus` | hold, 2 602 653 states |
| cycle | `CTFuzz2Env`: 2 paths, 2 lengths, an action allowed twice | `AssertValidAction`, `IndexInCycle`, `QueuesSplitByUse`, `UseForgottenOnlyForShorter`, `CycleAdvances`, `DepthTwoReached` | hold, 102 515 states |
| shrink | `CTFuzz2Env` | `Queue2OnlyShrinks` | violated, see below |
| mutator | `FuzzMutator3`: inputs up to 3 bytes, 2 byte values, 2 bits, 3 energies | `CursorInRange`, `RaisesOnlyWhen`, `AllEditsTried` | hold, 159 121 states |
| erase | the same | `AllErasuresTried` | violated, see below |
| backup | `EnvBackup`: 2 paths, 1 seed, an action allowed twice | `CopiedAsSaved` | violated, see below |
| fuzzer | `AflFuzzer`: 8 campaigns, 2 edges, 7 inputs, up to 3 sessions | `PathsCountedOnce`, `QueueWitnessesCoverage`, `CrashesWitnessed`, `TimeoutsCounted`, `FrequencyOfExecuted`, `ProgressSurvives`, `FinalStateOnDisk`, `WrappedRowIsLast`, `SettingsAsGiven`, `SeedsFitTimeout`, `SaveAdvances`, `SaveReturns`, `StopEnds`, `LimitStops` | hold, 110 291 states |
| nfuzz | `AflFuzzer`: the campaign with schedule EXPLORE | `OnlyAFLFastUpdates` | violated, see below |

Each module's type invariant is checked by one of its runs.

Why these bounds are enough. *session*: with three calls a token left over from one call can spoil
the next and the one after it; two signals nest two handlers and reach the double free. *restart*: two
servers are the least that can inherit something; the signal that ends a session is one more than
`MaxSignals` counts, so handlers nest here too. *corpus*: three nested paths give a path that is known but
not queued (a second execution that earns nothing) and one that crashes later; two lengths replace a
seed in its queue and move it between the queues, an action that is used up after two steps drops it; two
resets start over with used rows. *cycle*: two lengths let a row be replaced during its own step, an action allowed twice
makes a row survive a cycle. *mutator*: at three bytes every cursor of every action wraps and reaches
its limit; energies lie below, between and above the numbers of edits; one of the lengths is a digit's code. *fuzzer*: two edges tell a new edge from a new
hit count and from a path that differs in an edge alone; the seven inputs are one for each way through
`save_if_interesting` (nothing new, new counts, new edge, crash, new crash, hang that crashes or ends in
time when run again, empty file), three a session put a new path behind, before and between known ones, two
kept hangs and crashes reach both limits; three sessions give a resume of a resume and a resume after
a kill in the middle of a write. The campaigns *blind*, *crashing*, *timed* and *refused* add `-n`, `-C`,
the timers with the reasons of the environment to stop, and an environment that is refused.
The bounds are `MaxServers`, `MaxRequests`, `MaxSignals`, `MaxTry`, `MaxResets`, `Lens`, `Paths`,
`Energies`, `MaxSize`, `MaxLists` and `MaxStores` (lists made in `EnvBackup`), `MaxInputs`, and of a
campaign `inputs_per_session`, `idle_cycles` (cycles without a find), `sessions` and `ticks` of the clock; `Bytes`, `Bits`, `InsertCap`, `MinInsert`, `FixedTries`, `SmallSize` and
`ActionMaxTry` stand for 256, 8, 128, 3, 2000, 8 and 10, `DigitCodes` for 48 to 57,
`StopSignals` for SIGHUP, SIGINT and SIGTERM; `KeepHangs`, `KeepCrashes`, `FreqCap`, `UiPeriod`, `StatsPeriod`,
`PlotPeriod` and `PlotWarmup` for `KEEP_UNIQUE_HANG`, `KEEP_UNIQUE_CRASH`, 2^32 - 1 and the periods of
screen, statistics and plot; `ExecTimeout` and `TimeoutRound` are `EXEC_TIMEOUT` and `EXEC_TM_ROUND`. Deadlock is not checked: every one of
these systems may stop (bounds reached, a process that exited, a client blocked for ever).

Fairness. `ExFrsv`: each process that can run does, pending signals are delivered, a run of the
target ends (AFL enforces `exec_tmout`); nothing obliges a driver to make a call, end a session or
send a signal. `CTFuzz2Env`: the agent's loop calls `step` again, `reset` finishes; nothing obliges it to
call `reset`. `AflFuzzer`: the program goes on while it can (`WF` on `Program`, a single thread); nothing
obliges anyone to send a signal, to kill it, to start a session, or the clock to advance between two inputs.

What the violated runs show.
- *replace*: `CTFuzz1Env.reset` builds the new engine before the old is dropped. The new server takes
  over the old names; the old server's handler then posts the shared semaphore, and the new server
  runs the target with no request.
- *abort*: a server that ends by `FATAL` leaves its names bound. The next session's client connects to
  them before the next server's `memset`, which erases its first request. With an aborting server
  `LeftoversAreClean` and `MemoryExclusion` fail in the same way; *restart* therefore
  speaks of servers that end by a stop signal.
- *shrink*: `update_seed_queue` overwrites a row of `seed_queue_2` without the comparison its comment
  announces, so a longer input replaces a shorter one.
- *erase*: `EraseBytes` counts its edits without the empty erasures it also makes, so a step with
  energy for all erasures does not try them all.
- *backup*: a reset that copies a backup gives back lists whose rows were used since it was saved. The
  comma that makes `saved_input` a tuple makes a full step raise only if the backup was saved between a
  probe and its full step: any other copy probes first, which overwrites it.
- *nfuzz*: CTFuzz computes `cksum` for every input, by whose being set AFL++ told the schedules with a
  frequency table from those without; the first queued input under EXPLORE writes through a null pointer.

## The proofs

`CTFuzz2EnvProofs` proves, for every value of the constants that satisfies `EnvAssumption`, type
correctness and the invariants `CoverageWitnessed`, `OneSeedPerPath`, `AssertValidAction` and
`IndexInCycle` (a queued path stays queued, so the end of a step never finds both queues empty), and
that `CTFuzz2Env` implements `SeedCorpus`.

None of the invariants is inductive alone. `CoverageWitnessed` survives a rewarded path that is known
but not queued only because the edges of every known path are already covered; `OneSeedPerPath`
needs every queued path to be known, or a new path might already be queued. `AssertValidAction`
rests on: rows of `seed_queue` have an action left; while the depth is 1 so have the rows of the
cycle list; a step after a probe has a fresh row; the action of a step in progress is one its
row has left. `IInv` is the conjunction (`QueuesOK`, `CycleOK`); it was checked by TLC on the instances
of *corpus* and *cycle* first. The lemmas go from one queue (`AppendRow`, `WithoutRow`, `ReplacedRow`) over
two (`PushedQueues`, `LearnedQueues`, `UpdatedQueues`, `CreatedList`) to one lemma per action.

`CTFuzz2EnvCycleProofs` adds `QueuesSplitByUse`, `UseForgottenOnlyForShorter` and `CycleAdvances`. All hang on the list of the
cycle, whose rows are copies that grow old while the steps change the queues, and on writing such a copy
back. `SplitOK` says what is still true of the rows from the scheduled one on, at depth 1: none of their
paths has moved to `seed_queue_2`, no queued row of their path has been used more, and no path comes
twice, because the list was made of one queue (the sort is injective: `CreatedDistinct`) and every turn of
the loop adds only unused rows (`LearnedRows`).

`CycleAdvances` is the safety half of `DepthTwoReached`. Its measure cannot be read off the queues: the end of a
step may put a stale row in the place of a shorter and unused one that the step has just found. It is taken of
the row a path is used by *next* (`NextRows`): its copy in what remains of the list, or else its queued row.
Path by path this row only gets shorter or, at the same length, more used, and the end of a step gives
its path such a row. The proof needs that a listed path with an action left is still queued (in `SplitOK`),
or a path could fall out of the list and come back with less use.

`FuzzMutator3Proofs` proves type correctness, `CursorInRange` and `RaisesOnlyWhen` from
`MutatorAssumption`, so for the 256 byte values and any `maxSize`. Neither is inductive: an exception
is traced to a set-up that was refused, to CopyPart at the maximal length or to a number that `int()`
refuses only if the cursor is known
to be in range before every edit, a probe's edit included, and a repeated insertion wraps to
`MinInsert` in range only if the bound kept from the set-up still fits the input. `CursorInv` adds
both. One lemma shows that a set-up that covers every edit starts in range, one that a drawn start
does, and one (`AdvanceFits`) that a walk stays there; type correctness holds from any stale cursor.

`FuzzMutator3WalkProofs` proves `AllEditsTried` from an invariant of the walk. `Rank` is the number of edits
a walk makes before it comes to a cursor, `Behind` the set of those edits. `WalkInv` says of a full step
of one of the four actions that claim to try everything that either every edit has been produced, or
the tries left and the rank of the cursor make up the number claimed and what was produced is what lies
behind the cursor. One lemma per action shows that an edit at the cursor and `advance` keep this: the
rank grows by one and the edits behind the new cursor are those behind the old one and the one just
made, carries included (`PlaceRank`). InsertRepeatedBytes claims 1+2+...+l lengths where it has
only l, so its walk wraps and starts again; it has produced everything before (`RepeatedClaim`).

`ExFrsvProofs` proves of the RPC type correctness, `OwnAnswer`, `InputAvailable`, `MemoryExclusion`,
`LeftoversAreClean`, `OneTokenPerCall`, `DiesOnlyWhenTold` and `ConnectFailsOnlyEarly`, and that `ExFrsv` implements `CoverageRPC`,
from `BoundsAssumption`: any number of sessions, calls and signals. All assume `FailuresAlone`, that a server
which may abort of itself is the only one, and `DiesOnlyWhenTold` that none may: *abort* shows what an
aborted server does to the next session. `IInv` follows a token through the two
processes:
- `OneByOne`: the latest server is the only one that can be alive, and nobody knows an object of a later one.
- `Left`, `EarlyInv`: a dead server leaves no input semaphore and no answer under the names, so the next one
  boots into a new input semaphore and clean objects, and a client that is early gets no further than
  the first step of its connection.
- `LateInv`, `MeetInv`: until its memory is unmapped a server owns its names, so a client that connects
  meets it in the same three objects; between calls it waits and has no token.
- `ClientInv`, `CallInv`, `OffInv`: where the one token of a call is, what the memory holds and which request
  the server works on, at each point of the call, also when the client has gone in the middle of it.

For the refinement the outcome of a call is taken to be in the server's hands from the end of the run to the
post, and in the memory afterwards. A run is the abstract `Execute`, a server that dies before the answer is
written the abstract `Lose`, and the steps that write and post the answer are invisible (`AnswerRefines`).

`AflBitmapProofs` and `AflFuzzerProofs` prove, from `BitmapAssumption`, `PeriodAssumption` and
`CampaignAssumption` (so for any number of edges, inputs, sessions, kills and signals, any environment
and any periods), type correctness and `PathsCountedOnce`, `QueueWitnessesCoverage`, `CrashesWitnessed`,
`TimeoutsCounted`, `FrequencyOfExecuted`, `FinalStateOnDisk`, `WrappedRowIsLast`, `ProgressSurvives` and
`SeedsFitTimeout`. The first module knows only the steps of `save_if_interesting` (`BitmapStep`) and the start of
a session; `StepOfBitmap` shows that every step of the fuzzer is one of these or leaves its variables
alone. Each property holds between inputs only, or only up to what the step in progress still owes,
and its invariant says what that is:
- `PathsInv`: the list holds each executed path once, and the counter is its length.
- `TimeoutsInv`: one timeout is `Owed` while the outcome is a hang that the switch has not yet seen.
- `FrequencyInv`: the path of the input under way was executed, so the second write to the table, in
  `save_to_queue`, concerns a path that has a frequency already.
- `CoverageInv`: the queue covers `virgin_bits`, except for the entry under calibration, whose own bits
  it shows and whose variable edges the calibration adds; every crash or hang that turns away from the
  queue does so before it has marked anything.
- `CrashInv`: the crash map and the saved crashes agree on edges while there is room for more, and every
  crash of a first or a second run is in the map or on its way to `keep_as_crash`.
- `BitmapFileInv`, `StatsFileInv`: what the last forced `show_stats` has still to write, step by step;
  nothing that `fuzzer_stats` tells changes after the loop has been left.
- `SettingsStep`: nothing after the start of a session touches the settings.
- `SaveAdvances` needs no invariant but the types: a step leads to a later place of the function
  (`ToGo`) except that a second run may lead back to the queue, and then the judgement before it took a bit
  from `virgin_tmout`, because a simplified trace has a bit for every edge (`NewHangShows`) and the map is
  finite (`UnmarkedProperty`). That a step is enabled until the end is left to `SaveReturns`.
- `PlotInv`, `ProgressInv`: a row is forced only when the session is stopping; the file is torn only while
  it is being written, so a session that is about to load it starts from the progress it is measured by.

`AflEnvironmentProofs` proves that `SettingsOf` holds of what the loop of `read_afl_environment` computes,
for an environment of any length, and `AflFuzzerProofs` takes `SettingsAsGiven` from it. The library's
induction theorems cannot be used here, so the module goes round them: `SetInduction` obtains
induction over a *set* of numbers from well-foundedness of `<`, `RecursiveFunction` that the function
`ReadEnvironment` is defined by exists and satisfies its equation. The invariant of the loop, `AsRead`, says of
the first k entries what `SettingsOf` says of all: aborted if and only if one of them is a number without
a text; otherwise the last of them for a switch or a text decided it (`LastAmongStep`), and a number
that one of them names has the value of the first entry of its name (`NumberAmong`).

Only model-checked: `EnvBackup` and `EngineReplace`, of which a run refutes what it states, and all liveness
(`CallReturns`, `StopEndsServer`, `DepthTwoReached`, `SaveReturns`, `StopEnds`, `LimitStops`), which is out
of the prover's reach. Of `SaveReturns` and `DepthTwoReached` what can be proved is: the variants
`SaveAdvances` and `CycleAdvances`; that a step is enabled and taken as long as the end is not reached is
left to the runs.

## Not modelled

- The target and AFL's fork-server library (a run has an outcome, or ends the server); `calibrate_case`,
  `main` and `common_fuzz_stuff` of AFL++, and the tables its environment is compared with, which this tree
  has only inside the vendored archive `ctfuzz/afl/4.05c.zip`, are modelled from how the sources here
  rely on them and marked external.
- The bytes of inputs, the contents and sizes of coverage maps, hash collisions. Two hazards lie beyond
  this: the copy of 65536 bytes in `ex-frsv.c` (512) and the hash over `MAP_SIZE` entries in
  `afl-fuzz-bitmap.c` (471), for targets with a map of another size.
- Energies and rewards beyond zero or not; the learning agent.
- Of `afl-fuzz-stats.c`: the drawing of the two screens, `write_setup_file`, `write_queue_stats` (compiled
  for INTROSPECTION only), statsd and the average of the speed. The branch for a resumed timeout
  (2293) is never reached, because every `timeout_given` other than 1 is handled above it.
- `-n` together with `AFL_KEEP_TIMEOUTS` is in the model but in no campaign: without a map every hang is
  new, so it goes round between the queue and the switch for ever, `SaveReturns` does not hold and
  `SaveAdvances` leaves it out.
- The older environments beyond the replacement of their engine, build files and data.

## Plan

1. Variants of `CallReturns` and `StopEndsServer`, as `CycleAdvances` is one of `DepthTwoReached`: what a call
   and a signal still have to go through, as a measure that every step of the server lowers.
2. What `EnvBackup` does guarantee of a copy whose original has not been stepped since, with its proof.
3. `CTFuzz1Env`, `FuzzBaseEnv`: the older environments' seed pick, as implementations of a common
   abstract environment.
