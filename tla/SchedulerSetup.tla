---------------------------- MODULE SchedulerSetup ----------------------------
(***************************************************************************)
(* The configuration steps of TestScheduler.__init__ in                    *)
(* src/CIME/test_scheduler.py that fix the constants of TestScheduler     *)
(* before the producer starts: the MODEL_BUILD cost, the effective        *)
(* no_batch and its queue check, the number of parallel jobs, and the     *)
(* baseline checks that may clear baseline directories or drop tests.     *)
(*                                                                         *)
(* Data.  The machine's values (GMAKE_J, NTEST_PARALLEL_JOBS,             *)
(* MAX_MPITASKS_PER_NODE, has_batch_system) are arguments.  A baseline    *)
(* directory is named by its test: existing is the set of tests whose     *)
(* directory under the generate name exists, cmp_dir_exists whether the   *)
(* compare directory does.  clear_folder is recorded as what it clears.   *)
(***************************************************************************)
EXTENDS Integers, Sequences, SequencesExt

CONSTANT NONE

\* self._model_build_cost: min(16, int(GMAKE_J * 2 / 3) + 1) when the
\* configuration asks for it, else 4.  GMAKE_J is positive, so int() of
\* the quotient is integer division.
model_build_cost_of(calculate_mode_build_cost, gmake_j) ==
    IF calculate_mode_build_cost
    THEN LET cost == (gmake_j * 2) \div 3 + 1 IN IF cost < 16 THEN cost ELSE 16
    ELSE 4

\* self._no_batch, and the expect that a queue needs a batch system.
no_batch_of(no_batch, has_batch_system) == no_batch \/ ~has_batch_system
queue_error(no_batch, has_batch_system, queue) ==
    no_batch_of(no_batch, has_batch_system) /\ queue # NONE

\* self._parallel_jobs: the given value, else the machine's
\* NTEST_PARALLEL_JOBS (MAX_MPITASKS_PER_NODE if unset), at most one per test.
parallel_jobs_of(parallel_jobs, num_tests, ntest_parallel_jobs, max_mpitasks) ==
    IF parallel_jobs # NONE THEN parallel_jobs
    ELSE LET mach == IF ntest_parallel_jobs # NONE THEN ntest_parallel_jobs
                     ELSE max_mpitasks
         IN  IF num_tests < mach THEN num_tests ELSE mach

\* The baseline block of __init__.  A missing compare directory is fatal
\* first.  With a generate name, each test with an existing baseline is
\* cleared (only its CaseDocs with namelists_only) when overwriting is
\* allowed on the first run, else marked to skip when skipping is asked
\* for; then existing baselines are fatal unless one of the two options is
\* given, and the marked tests are dropped from the names.
baseline_setup(test_names, cmp_name, gen_name, cmp_dir_exists, existing, allow_baseline_overwrite, skip_existing, run_count, namelists_only) ==
    LET existing_baselines == SelectSeq(test_names, LAMBDA t : t \in existing)
        clears == allow_baseline_overwrite /\ run_count = 0
        cleared == IF clears
                   THEN {<<t, IF namelists_only THEN "CaseDocs" ELSE "all">> :
                           t \in ToSet(existing_baselines)}
                   ELSE {}
        tests_to_skip == IF ~clears /\ skip_existing THEN ToSet(existing_baselines) ELSE {}
    IN  CASE cmp_name # NONE /\ ~cmp_dir_exists ->
               [error |-> "MissingCompareDir", cleared |-> {}, names |-> test_names]
          [] gen_name = NONE ->
               [error |-> NONE, cleared |-> {}, names |-> test_names]
          [] ~(allow_baseline_overwrite \/ existing_baselines = <<>> \/ skip_existing) ->
               [error |-> "BaselinesExist", cleared |-> cleared, names |-> test_names]
          [] OTHER ->
               [error |-> NONE, cleared |-> cleared,
                names |-> SelectSeq(test_names, LAMBDA t : t \notin tests_to_skip)]
=============================================================================
