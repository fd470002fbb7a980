# TLA+ models of the CIME test scheduler and namelist generator

This directory holds TLA+ models of two parts of CIME, with the TLC
configurations that check them:
- `src/CIME/test_scheduler.py`: the `TestScheduler` class behind
  `create_test` (`TestScheduler.tla`), with its test name translation
  (`TestNames.tla`), runtime sort (`RuntimeOrder.tla`) and the
  configuration steps of its constructor (`SchedulerSetup.tla`);
- `src/CIME/nmlgen.py`: the `NamelistGenerator` class that a component's
  `buildnml` drives (`NamelistGenerator.tla`), with its stream file and
  field expansion algorithms (`NmlStreams.tla`).

The two parts do not interact in the code (a test's CREATE_NEWCASE and
SETUP run `buildnml` in a separate process), so they are separate models.

## 1. The system (inventory)

| Part | Code | State | Operations |
|---|---|---|---|
| PhaseTable | `PHASES`, `__init__` 418-426 | `self._phases` | pruning by `no_setup`/`no_build`/`no_run`; `index`, next, last |
| TestState | `self._tests`, `_get_test_status`, `_work_remains`, `_update_test_status` | test -> (phase, status) | advance to PEND on the next phase; PEND -> PASS/FAIL; the expects of 580-607 |
| Scheduler (producer) | `_producer`, `_producer_indv_test_launch`, `_wait_for_something_to_finish` | `threads_in_flight`, loop locals | scan in insertion order, launch, skip, break when slots are full, block, reap, join |
| Worker (consumer) | `_consumer`, `_run_catch_exceptions` | one thread per launch | run the phase method, update status, write scheduler-owned TestStatus entries, chain MODEL_BUILD into RUN on batch systems |
| ResourceArbiter | `_get_procs_needed`, `_procs_avail`, `_proc_pool`, `_parallel_jobs`, `_model_build_cost` | free cores, slots | cost per phase, serialized sharedlib builds, over-pool RUN, MODEL_BUILD clamp in `_xml_phase` |
| BuildGroupRegistry | `_get_build_group`, `_build_group_exeroots` | group -> EXEROOT | leader gate on XML/SHAREDLIB_BUILD/MODEL_BUILD, EXEROOT hand-over |
| PhaseRunner | `_create_newcase_phase` ... `_run_phase`, `_shell_cmd_for_phase` | none beyond the file | external commands, "bad interpreter" retry, the "B" (skip run) option |
| StatusStore / resume | `_update_test_status_file`, `__init__` 428-464 | TestStatus file per test | scheduler-owned writes, writes by external commands, the `use_existing`/`force_rebuild` replay |
| Test name translation | `_translate_test_names_for_new_pecount` | none (a pure rewrite in `__init__`) | rewrite or append each name's P option when `force_procs`/`force_threads` is given |
| Runtime ordering | `_get_time_est`, `_order_tests_by_runtime`, `_TIME_CACHE` | none (a sort in `__init__` when `sort_tests` is set) | order the test names by decreasing estimated time, history first |
| Scheduler configuration | `__init__` 262-324 | `_model_build_cost`, `_no_batch`, `_parallel_jobs` | derive the constants of the scheduling loop; a queue without a batch system is fatal |
| Baselines | `__init__` 349-392 | the test names, baseline directories | fatal missing compare directory; clear, skip or refuse tests with existing baselines |
| TestDirectoryLayout, cs files, `wait_for_tests` | various | none that scheduling reads | pure string or file work |
| NamelistGenerator | `nmlgen.py` | namelist, stream lists, stream files, input data list | `init_defaults` (with `new_instance`), `add_default`, `set_value`, `add_defaults_for_group`, `confirm_group_is_empty`, `create_stream_file_and_update_shr_strdata_nml`, `create_shr_strdata_nml`, `write_output_file`/`write_nuopc_config_file`, the MCT/NUOPC writers |
| NmlStreams | `nmlgen.py` 32, 404-519 | none | `_sub_fields`, `_days_in_month`, `_sub_paths` with `_ymd_re` |

**How the parts interact.** One producer thread runs `_producer`. Every
launch starts a consumer thread, which shares `self._tests` with the
producer and the other consumers without a lock. The producer owns
`threads_in_flight` and the core count, and releases a thread's cores only
when it reaps that thread after it has died. Followers of a build group wait
on their leader through `_get_procs_needed`. They also take the leader's
EXEROOT from the in-memory map `_xml_phase` fills. The TestStatus files
outlive the process, and a rerun with `use_existing` rebuilds `self._tests`
from them.

**Hard behaviours.**
- Consumers complete in any order relative to the producer's scan.
- Dead but unreaped threads still hold cores and slots.
- A batch RUN stays PEND in memory.
- A process can be killed between any two steps and rerun with
  `use_existing`, which loses all in-memory state (EXEROOTs, the clamped
  build cost).
- "Bad interpreter" retries have no bound.
- Leaders can fail at any phase.

**Properties per part.**
- Resources: cores are conserved and the slot cap holds.
- TestState: every status update passes the expects.
- BuildGroupRegistry: the gate holds and the EXEROOT hand-over is
  consistent.
- ResourceArbiter: sharedlib builds are serialized, and the producer's
  expects never fire.
- Resume: the replay passes the expects, passed tests are not rerun, and
  `force_rebuild` redoes exactly the builds.
- Liveness: the producer finishes.

The hazards are listed with their source lines in `PROJECT.json`.

## 2. Modules

### `TestScheduler.tla`

This is the whole scheduler: producer, consumers, resources, build groups,
the TestStatus files and reruns.

**Constants.**
- `TestOrder` is the insertion order of `self._tests`.
- `BuildGroups` gives the groups, leader first.
- The flags are `no_setup`, `no_build`, `no_run`, `namelists_only`,
  `no_batch` and `serialize_sharedlib_builds`.
- The numbers are `proc_pool`, `parallel_jobs`, `model_build_cost_init` and
  `TotalPes`.
- `SkipRunTests` holds the tests with the "B" option.
- `MayFail` holds the `<<test, phase>>` pairs whose phase method may fail.
- The bounds are `MaxRetries` and `MaxRestarts`.
- `ResumeModes` holds the `force_rebuild` values a rerun may use.

**Variables and their code counterparts.**

| Variable | Code |
|---|---|
| `tests` | `self._tests` |
| `procs_avail` | `self._procs_avail` |
| `model_build_cost` | `self._model_build_cost` |
| `build_group_exeroots` | `self._build_group_exeroots`; the value is the leader that set it |
| `threads_in_flight` | the producer's dict: procs and phase |
| `thread[t]` | the consumer thread last started for t: `run` inside the phase method, `post` after its status update, `exited` when it returned |
| `retries` | retries of the current command |
| `exeroot_errors` | tests whose `_xml_phase` hit an EXEROOT expect |
| `status_file` | the TestStatus file: last status per core phase |
| `restarts`, `resumed_with` | reruns |
| `jobs[t]` | the batch system's queued and running jobs of t; they outlive a rerun |
| `ppc`, `idx`, `work_to_do`, `num_launched` | the producer's position and its loop locals |

**Actions.**
- Each phase method is one action: `CreateNewcasePhase`, `XmlPhase`,
  `SetupPhase`, `SharedlibBuildPhase`, `ModelBuildPhase` and `RunPhase`.
  Each includes the status its command records in the file and the
  in-memory update of `_consumer` up to line 1243.
- `ConsumerChainRun` and `ConsumerExit` are the rest of `_consumer`.
- `ShellCmdRetry` is the retry loop.
- Each branch of the producer loop and of `_producer_indv_test_launch` is
  one action: `SkipFinishedTest`, `BreakWorkersBusy`, `SkipRunningTest`,
  `LaunchIneligible`, `LaunchOverPool`, `LaunchStart`, `LaunchNoProcs`,
  `ProducerExit`, `ProducerBlock` and `ProducerLoop`.
- `WaitForSomethingToFinish` reaps a non-empty subset of the dead threads,
  the ones a single scan saw. `WaitPoll` is the sleep while none is dead.
- `JoinThreads` is the join. `Terminated` stands for the rest of
  `run_tests`.
- `BatchJobStart(t)` and `BatchJobEnd(t)` are the batch system, outside
  `src/`: a queued job starts and its `case.run` records RUN PEND, then it
  ends with RUN PASS or FAIL.
- `Restart(force)` is a rerun with `use_existing`, from any state. It
  resets everything in memory and replays each file with the recursive
  operator `replay_walk`, which is the loop of `__init__` 428-461.

**Abstractions.**
- A phase method's work (command lines, case XML settings, logs) is
  reduced to its outcome. `outcome` is `{TRUE}`, or `BOOLEAN` for the
  pairs in `MayFail`.
- The TestStatus file (`CIME.test_status`, not in `src/`) is modelled from
  the spec's §4.3 as the latest status per core phase. Its invalidation of
  later phases is not modelled.
- The batch system is an environment: `RunPhase` queues a job, and the
  job's RUN entries are written by the two batch actions, interleaved with
  everything else and surviving a rerun. No fairness is assumed for them.
- Build groups are a constant, standing in for `get_build_groups`.

### `PhaseWalk.tla` (abstract specification)

What `create_test` promises of every test, independent of cores, slots,
threads and build groups.
- `walk[t]` is the test's (phase, status); `resumed` says how the latest
  rerun started.
- `Begin` starts the next phase after a passed one.
- `Refuse` fails the next phase without running it (the over-pool RUN).
- `Complete` ends a pending phase.
- `Resume(mode)` resumes every test at a passed phase, with the rules for
  completed tests.
- Fairness: weak fairness on each test's `Begin \/ Refuse`, and on
  `Complete` except for the `Submitted` phases. On a batch system RUN is
  submitted, and the process does not wait for it.

`TestScheduler` instantiates it as `PW` with `walk <- tests`,
`resumed <- resumed_with` and the pruned `phases`. It checks `PW!Spec` as
the property `PhaseWalkRefined`. The mapping is the identity on the test
state; the work lies in showing the scheduler's many steps either stutter
or take one abstract step. The `hang` configuration violates the liveness
part: the stranded follower never begins its next phase.

### `RuntimeOrder.tla`

This module models the runtime sort that `__init__` applies at line 395
when `sort_tests` is set, before it builds `self._tests`.
- `get_time_est` is `_get_time_est` with `as_int=True`. The key is the
  test's history if it has one, else its own recommendation. Either is
  converted to seconds (`convert_to_seconds`, from the spec, on
  `<<h, m, s>>`), and a test with neither gets `NoEstimate`.
- The history and the recommendation are functions to a time or NONE,
  because their lookups are outside `src/`.
- `NoEstimate` is 9999999999 in the code, which is beyond TLC's 32-bit
  integers. It is a constant set to 999999999 in the cfgs, which is above
  every key of the modelled times, so the order is the same.
- `order_tests_by_runtime` is `tests.sort(key=..., reverse=True)`, written
  as a fold of insertions (`insert_desc`). A test goes after every test
  whose key is not smaller, which is Python's stable reverse sort.
- Within one sort `_TIME_CACHE` is the key function, so it is not state.
- `ref_order` is the reference: a test's place is one more than the number
  of tests with a larger key, or with an equal key earlier in the input.

### `SchedulerSetup.tla`

This module models the steps of `__init__` that fix the constants of
`TestScheduler`, as operators over the arguments and the machine's values:
- `model_build_cost_of`: `min(16, int(GMAKE_J*2/3)+1)`, or 4.
- `no_batch_of`, and `queue_error` for a queue without a batch system.
- `parallel_jobs_of`: the given value, else the machine's, at most the
  number of tests.
- `baseline_setup`: the baseline block, in the code's order.
  - A missing compare directory is fatal.
  - With a generate name, a test with an existing baseline is cleared (its
    `CaseDocs` only with `namelists_only`) when `allow_baseline_overwrite`
    is given and `run_count` is 0. Otherwise it is marked to skip when
    `skip_tests_with_existing_baselines` is given.
  - Existing baselines are then fatal unless one of the two options is
    given, and the marked tests are dropped.
  - A directory is named by its test, and `clear_folder` is recorded as
    what it clears.

### `MCTestScheduler.tla`

This module instantiates the model for TLC with three model-value tests
(T1, T2, T3). It defines the test order, the group layouts (shared
`{<<T1,T2>>,<<T3>>}`, singletons, single-exe), `TotalPes` (T3 needs 8
cores, more than any pool used) and the failure sets.

It also checks the runtime sort, with two ASSUMEs that TLC evaluates
before any run of this module:
- `order_tests_by_runtime` equals `ref_order` for four orders of the three
  tests and for every history and recommendation among none, 00:30:00 and
  00:29:60. The last two convert to the same 1800 seconds, so ties occur.
  Replacing `<` by `<=` in `insert_desc`, which makes the sort unstable,
  fails this ASSUME.
- `MC_SortedOrder`, `<<T3, T2, T1>>`, is what the sort yields when T2 has
  one hour of history, T1 a 30-minute recommendation and T3 neither. The
  nobatch run schedules the tests in this order. It is written out as a
  literal because TLC would otherwise redo the sort at every use.

Two more ASSUMEs check `SchedulerSetup`:
- every cfg's `model_build_cost_init` (4, or 2) is a value
  `model_build_cost_of` yields;
- `MC_BaselinePolicy` holds for every compare and generate name, every
  set of existing baselines of the three tests, every choice of options,
  and `run_count` 0 and 1. It states the baseline policy of design
  sections 6 and 7:
  - a missing compare directory is fatal and clears nothing;
  - a setup that does not fail keeps the tests in order and drops only
    tests with an existing baseline, and only when skipping is asked for;
  - a kept test whose existing baseline was not cleared is one that
    `allow_baseline_overwrite` permits to be overwritten.
  Removing the "Baseline directories already exists" expect from
  `baseline_setup` fails it.

A rerun (`run_count` > 0) with `-o` clears nothing. With
`--skip-tests-with-existing-baselines` it then drops the tests whose
baselines exist, although `-o` was also given.

### `NmlStreams.tla`

The pure string algorithms that expand a stream's file and field lists, as
operators:
- `sub_paths` is `_sub_paths`;
- `match_dates` is its year/month/day loops;
- `days_in_month` is `_days_in_month`, computed with datetime's proleptic
  ordinal;
- `sub_fields` is `_sub_fields`;
- `ymd_match_at` and `ymd_search` are `_ymd_re` and its `search`.

A Python string is a sequence of one-character strings. This lets the
regular expression, `str.replace`, `split`/`join` and `"{:0Nd}"` formatting
be modelled by what they do. `ref_sub_paths` states the docstring of
`_sub_paths`: each line's own indicator is replaced by every date of the
range in a no-leap calendar, and a line without one is kept once.

### `MCNmlStreams.tla`

This module makes each input an initial state: `filenames` and `years` are
chosen in `Init` and never change. `SubPathsMatchesDocstring` is checked as
an invariant. Inputs:
- `MC_OneLine`: every string of 1 to 5 characters over `% 2 0 y m d`
  (9,330 strings). This includes `%y`, `%ym`, `%ymd`, `%2y` and `%20y`
  (year widths), `%0y` (not a match), repeated indicators, and indicators
  at either end.
- `MC_YearRanges`: years 1..1, 4..4 (a leap year), 2..1 (empty) and
  99..100 (a three-digit year with width 2).
- `MC_TwoLines`: two-line file lists.

### `NamelistGenerator.tla`

One action per public method of `NamelistGenerator` that changes state. A
call that raises ends `buildnml`: `raised` records the exception and no
further call is enabled.

| Variable | Code |
|---|---|
| `nml` | `self._namelist`: variable -> expanded literal list |
| `default_nodes` | the definition's `set_nodes` result kept by `init_defaults` |
| `streams_nml` | `self._streams_namelists`: `"streams"` and each per-stream variable -> list |
| `stream_files` | the text of each stream file written (or `NoFile`) |
| `data_list` | the lines of the input data list file |
| `namelist_file` | the last namelist (or nuopc config) file written: its groups |
| `out_files` | the MCT/NUOPC files written (`nmlcontents`, `seq_maps.rc`, the modelio files): the groups of each write |
| `raised` | the exception that ended `buildnml`, or `NoError` |
| `instance` | the instance of the last `init_defaults` |
| `overridden` | the variables `set_value` set since then |
| `calls` | calls made, bounded by `MaxCalls` |

**Actions.**
- `InitDefaults(inst, skip)` is `init_defaults`. It covers `new_instance`,
  the merge of the user files (earlier files take precedence), then
  `add_default` for every entry outside the skipped groups.
- `AddDefault`, `SetValue`, `AddDefaultsForGroup` and `ConfirmGroupIsEmpty`
  are the methods of the same names.
- `CreateStreamFile(s)` is `create_stream_file_and_update_shr_strdata_nml`.
  It covers the stream text from the user file or the defaults, through
  `_sub_paths`/`_sub_fields`, the "null" domain rule, the input data lines,
  then `update_shr_strdata_nml` with its year check and its appends.
- `CreateShrStrdataNml` is `create_shr_strdata_nml`.
- `WriteOutputFile(with_list)` and `WriteNuopcConfigFile(with_list)` are
  `write_output_file` (without modelio and seq_maps) and
  `write_nuopc_config_file` (every group). Each runs `_write_input_files`
  when a data list path is given.
- `AddNmlcontents(g)`, `WriteSeqMaps`, `WriteModelioFile` and
  `WriteNuopcModelioFile` are the MCT and NUOPC writers. `add_nmlcontents`
  appends; the others replace their file.
- `Done` is `buildnml` having ended.

The helpers `get_value`, `new_instance`, `get_default`, `add_default`, `set_value`,
`_to_namelist_literals`, `_to_python_value`, `quote_string`,
`_convert_to_abs_file_path` and `_add_file_to_input_data_list` are
operators with the same names.

**Data.**
- A file path is a sequence of GRID_SEP parts. Each part is a name with a
  root: `rel` (a relative path or a word such as `UNSET`), `din` (under
  DIN_LOC_ROOT) or `abs`.
- Literals are `[q |-> ...]` (quoted), `[tok |-> ...]`, or `NULL`.
- A case XML variable is known by the root of its value (`Env`).

**Assumptions about CIME.namelist** (not in `src/`; `merge_literal_lists`,
`get_variable_value`, `set_variable_value` and `merge_nl` are modelled from
its documented behaviour):
- Literal lists are kept expanded, one literal per element.
- A null element of a later list does not overwrite.
- `character_literal_to_string` of the null literal is `""`.

Further, names hold no whitespace, per-stream variables are arrays, and a
default scalar refers to at most one `$VAR`, unquoted.

### `TestNames.tla` and `MCTestNames.tla`

`_translate_test_names_for_new_pecount` is the operator
`translate_test_names_for_new_pecount`, a `FoldLeft` of `translate_one`
over the names. The accumulator carries `force_procs`, because the loop
body rebinds it (line 107). A name is kept as its parts (`testcase`,
`caseopts`); `parse_test_name` and `get_full_test_name` (not in `src/`)
are taken as inverse. A P option is a record `POpt(procs, thrds)`, which
is what the `"P{}x{}"` format and the `split("x")` parse exchange.
`ref_translate` is the design's rule (§6 `force_procs`/`force_threads`,
scenario S3), applied to each name on its own. `MCTestNames` chooses a
call in `Init` and checks `TranslationMatchesDesign` in every state. The
call happens only when a force value is given (line 271). Inputs are
every list of up to three names over five option lists (none, `D`, `P8`,
`P8x2`, `D` and `P8x2`), with `force_procs` in {None, 16} and
`force_threads` in {None, 4}.

### `MCNamelistGenerator.tla`

**Variables.** Eight variables covering every kind the code treats
differently:
- `fsurdat`: an absolute input file, character(2);
- `finidat`: a `rel:rootdir` input file;
- `rootdir`: its root, whose default refers to `$DIN_LOC_ROOT`;
- `nsteps`: an integer;
- `pio_stride`: in group `modelio`, default `$PIO_STRIDE`;
- `datamode`;
- `streams`: character(2);
- `taxmode`: a per-stream variable.

**Instances.**
- `i1` has two user files that disagree on `fsurdat`.
- `i2` sets `datamode` to `"NULL"` and `taxmode(2)`.

**Streams.**
- `s1` has a "null" domain, `datfil` `f%y` over years 1..2, and a `%glc`
  field.
- `s2` is prescribed.

**Variants for the violation runs.**
- `MC_StreamCfgUser`: `s2` comes from a user stream file whose domain file
  name is `s/m`.

## 3. Runs

### Scheduler runs

| Run | cfg | Expect | What it shows |
|---|---|---|---|
| shared | `MCTestScheduler_shared.cfg` | pass | With T1 leading T2 on a batch system, 3 cores, 2 slots, `model_build_cost` 4 > pool, serialized sharedlib builds and leader failures at XML and MODEL_BUILD: the gate, the EXEROOT hand-over, the clamp, serialization, chaining and legal updates all hold; followers take their leader's build outcome; with batch jobs starting and ending at any time, no test is submitted twice; and the producer finishes. |
| nobatch | `MCTestScheduler_nobatch.cfg` | pass | In the order `sort_tests` gives (T3, T2, T1), in-process runs charging TOTALPES, T3's RUN over the pool, T2 with "B", and one retry: cores and slots are conserved and the producer finishes. |
| resume | `MCTestScheduler_resume.cfg` | pass | Two independent tests with failures, then up to two reruns (`use_existing` or `force_rebuild`) from any state: the replay is legal, a passed test stays passed, and `force_rebuild` resumes after SETUP. |
| hang | `MCTestScheduler_hang.cfg` | violation | **Finding.** A leader that fails CREATE_NEWCASE strands its follower, and the producer polls forever. |
| exeroot | `MCTestScheduler_exeroot.cfg` | violation | **Finding.** A rerun after the leader's XML passed makes the follower fail "Should already have exeroot". |
| clamp | `MCTestScheduler_clamp.cfg` | violation | **Finding.** A rerun that resumes after XML asks for `model_build_cost` > pool for MODEL_BUILD, and the producer's expect fires. |
| names | `MCTestNames_threads.cfg` | violation | **Finding.** With `force_threads` 4 alone, the names `ERS`, `ERS_P8` become `ERS_PMx4`, `ERS_PMx4`: after a name without a P option, `force_procs` stays "M" for the rest of the loop. The design rewrites each name on its own (`ERS_P8x4`). With `force_procs` given, all 156 inputs match the design. |
| resubmit | `MCTestScheduler_resubmit.cfg` | violation | **Finding.** A rerun with `use_existing` while T1's batch job is queued (SUBMIT PASS) or running (RUN PEND) leaves T1 at MODEL_BUILD PASS, and the producer submits a second job into the same case. §4.3 says a PEND record makes (RUN, PEND) current. |

**Properties.**
- `TypeOK` is the type invariant, checked in the nobatch run, whose pool
  (5) is above the starting MODEL_BUILD cost (4). Besides the shapes of
  the variables, it says that the cost stays between 1 and its starting
  value: the clamp of `_xml_phase` only lowers it. Its mutant drops the
  clamp's guard at line 1000, which raises the cost to the pool.
- `TranslationMatchesDesign` (names run): the translated names equal the
  design's.
- `ResourcesRespected`: free cores plus reserved cores equal the pool, no
  count goes negative, the slot cap holds, and no live thread is missing
  from the dict.
- `LeaderGateRespected`: a follower runs a gated phase only after its
  leader has finished it.
- `ExerootDiscipline`: an EXEROOT expect fires only for a follower whose
  leader failed XML.
- `ProducerExpectsHold`: the two expects of `_producer_indv_test_launch`
  never fire.
- `SharedlibSerialized`: at most one leader runs a sharedlib build at a
  time.
- `PhaseWalkRefined` (refinement): the scheduler implements `PhaseWalk`
  (see below). Its safety part says the following:
  - every change of `self._tests` is one step of a test's walk;
  - a rerun resumes each test at a passed phase;
  - `use_existing` leaves a completed test alone;
  - `force_rebuild` resumes a completed test after SETUP.
  Its liveness part says every test eventually completes, fails or is left
  to the batch system.
- `ResumeReplayLegal` (action): the replay passes the expects of
  `_update_test_status`.
- `FollowersShareLeaderBuild` (design scenario S5): a follower has passed
  SHAREDLIB_BUILD or MODEL_BUILD only if its leader passed it. It fails
  SHAREDLIB_BUILD only after its leader failed it. A follower's MODEL_BUILD
  can also fail after its leader passed, because `post_build` may raise
  (lines 1093-1096). The shared run lets T2's `post_build` fail
  (`MC_SharedFailures`).
- `NoConcurrentJobs`: a test never has two batch jobs queued or running at
  once. In the shared run, where the consumer chains RUN into the MODEL_BUILD
  thread while the producer scans, it holds. The resubmit run breaks it
  with a rerun.
- `Termination` (liveness): the producer reaches `done`.

Every property of a passing run has a mutant in `PROJECT.json`: a variant
operator in the module (named `<definition>_<slip>`) that TLC
shows breaks the property.

**Bounds.**
- There are three tests, enough for one shared pair and one independent
  test, or two tests in the resume run.
- Three to five cores and two or three slots make shortage, the slot cap
  and the over-pool RUN all reachable.
- `MaxRetries` is at most 1 in passing runs.
- `MaxRestarts` is 2, which allows a rerun of a rerun, including a
  `force_rebuild` after a `use_existing`.
- The shared, nobatch and resume runs reach 43k, 549k and 142k distinct
  states.

**Why the passing runs restrict leader failures.** In the shared run, the
leader may fail only at the phases the gate looks at
(`MC_GatedFailures`, with T2's MODEL_BUILD added in `MC_SharedFailures`). An earlier leader failure hangs the scheduler, which
is the `hang` finding.

**Fairness.** `WF` on the producer and on each consumer thread: the
producer keeps polling, and the OS keeps running every live thread.
Retries, reruns and batch jobs are not forced. `Termination` only needs
the producer to finish, and it does not wait for the batch system.

### Namelist generator runs

| Run | cfg | Expect | What it shows |
|---|---|---|---|
| subpaths | `MCNmlStreams_subpaths.cfg` | pass | For all 9,330 one-line patterns and four year ranges, `_sub_paths` gives exactly the dates its docstring promises (37,320 inputs). |
| subpaths_mixed | `MCNmlStreams_mixed.cfg` | violation | **Finding.** With two lines, every line is expanded by the first indicator of the whole string: `"%y\nmd"` over years 1..2 gives `0001 0002 md md`. |
| buildnml | `MCNamelistGenerator_buildnml.cfg` | pass | Every sequence of up to four calls over two instances and two streams (4,508 states) keeps user settings, parallel stream lists and the strdata lists. |
| domain_dir | `MCNamelistGenerator_domaindir.cfg` | violation | **Finding.** A domain file name `s/m` gives the input data line `domain1 = s`. |

**Properties.**
- `SubPathsMatchesDocstring`: `sub_paths` equals `ref_sub_paths`.
- `TypeOK` (NamelistGenerator): each literal's kind fits its variable's
  type, and the state has its shape.
- `UserSettingsPrevail`: a non-null element from the current instance's
  user files (the earliest file that sets it) is in the namelist after
  every call, unless `set_value` replaced it. `add_default` may still make
  an absolute path of it. It takes several calls and a second instance to
  break.
- `StreamListsAligned`: while no call has raised, `"streams"` and every
  per-stream list have the same length.
- `DomainLinesNameFiles`: every `domain<i>` line's last component is the
  i-th domain file's name.

**Bounds.**
- `MaxCalls` 4 is enough for `init_defaults`, then a stream, then
  `create_shr_strdata_nml`, then a write. It also allows a second
  `init_defaults` in between, which is where the lists must be reset.
- `GlcNec` 1 makes `%glc` expand to two fields.
- Two instances and two streams make every reset observable.

There is no liveness property: `buildnml` is a straight-line script, and
`Done` stands for its end.

## 4. Not modelled, and why

- Command construction, case XML settings, logging and README updates:
  they do not change scheduling.
- `_get_case_id`/`_get_test_dir`: pure formatting.
- `_TIME_CACHE` across schedulers: it is keyed by the test alone, so a
  second scheduler in one process would reuse the first one's estimates
  (hazard at 136). `create_test` builds one scheduler per process, and the
  model sorts once.
- The walltime use of `_get_time_est` (line 755): it only formats a
  `create_newcase` option.
- `_setup_cs_files`, and the baseline comparison and generation, which
  run outside `src/`.
- `wait_for_tests`: the batch jobs are outside this source.
- The `_completed_tests` data race: it affects only a log line.
- In `nmlgen.py`:
  - `rename_group` and `get_group_variables`: the group of a variable is a
    constant of the model, and the latter is a query;
  - `get_streams`: a query `buildnml` makes before the stream calls;
  - `_add_xml_delimiter`: not called;
  - the namelist definition's validation and the file system;
  - a user stream file's content is a constant;
  - hazards left without a run (see `PROJECT.json`). A "null" domain with
    reversed years raises IndexError before the year check; either way
    `buildnml` aborts. A file named twice is listed twice, since
    `lines_hash` is not updated. A missing case variable in a character
    default raises TypeError in `quote_string(None)` (hazard at 384); the
    model gives TypeError there, but no run asks for a clean end. In the
    model's free call order, an `add_default` before `init_defaults`
    already ends that way.
- The existence of a case directory. A kill between `create_newcase` and
  the CREATE_NEWCASE record, or a failed CREATE_NEWCASE, leaves a
  directory that the rerun hands to `create_newcase.py` again (hazard at
  1271). The same holds within one run: `_log_output` creates a missing
  test directory, so the "bad interpreter" retry of a failed
  `create_newcase` finds the directory already there (hazard at 516).
  What that script does with an existing directory is outside `src/` and
  left open by the design (§9).

## 5. Plan for later work

1. Add a single-exe run (`MC_SingleExeGroup`) and `no_setup`/`no_build`
   variants.
2. `parallel_jobs = 0` (hazard at 1379) hangs the producer. No run uses
   that value, so no check covers it. Checked once by hand, `Termination`
   fails in three states with it. A violation run would record this, but
   the project already has the twelve runs it keeps.
3. Make the variable groups of `NamelistGenerator` state, for
   `rename_group`.
