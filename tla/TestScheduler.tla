---------------------------- MODULE TestScheduler ----------------------------
(***************************************************************************)
(* The phase-parallel test scheduler of CIME/test_scheduler.py.            *)
(*                                                                         *)
(* One producer thread (TestScheduler._producer) walks self._tests in     *)
(* insertion order and launches the next phase of every test that has    *)
(* work left, subject to a pool of cores (self._procs_avail), a cap on    *)
(* threads in flight (self._parallel_jobs) and the build-group gate       *)
(* (_get_procs_needed).  Every launch starts a consumer thread            *)
(* (_consumer) that runs the phase method, writes the in-memory          *)
(* (phase, status) pair of its test and may chain MODEL_BUILD into RUN.  *)
(*                                                                         *)
(* State kept per test: tests[t] (self._tests[t]), thread[t] (the        *)
(* consumer thread last started for t).  The producer's loop locals are  *)
(* ppc, idx, work_to_do and num_launched.                                  *)
(***************************************************************************)
EXTENDS Integers, Sequences, FiniteSets, Functions, SequencesExt

CONSTANTS
    TestOrder,              \* test names in the order of self._tests
    BuildGroups,            \* self._build_groups: sequences, leader first
    no_setup, no_build, no_run, namelists_only,
    no_batch,               \* effective value: no_batch or no batch system
    proc_pool,              \* self._proc_pool
    parallel_jobs,          \* self._parallel_jobs
    model_build_cost_init,  \* self._model_build_cost as computed at start
    TotalPes,               \* TOTALPES of each test case
    serialize_sharedlib_builds,
    SkipRunTests,           \* tests whose case options contain "B"
    MayFail,                \* <<test, phase>>: phase method may fail
    MaxRetries,             \* bound on "bad interpreter" retries per test
    MaxRestarts,            \* bound on reruns with use_existing
    ResumeModes,            \* force_rebuild values a rerun may use
    NONE

Tests == ToSet(TestOrder)

ASSUME /\ IsInjective(TestOrder)
       /\ \A t \in Tests : \E g \in BuildGroups : Contains(g, t)
       /\ proc_pool \in Nat /\ parallel_jobs \in Nat
       /\ MaxRetries \in Nat /\ MaxRestarts \in Nat
       /\ ResumeModes \subseteq BOOLEAN

PASS == "PASS"
PEND == "PEND"
FAIL == "FAIL"

(* PHASES: the order matters. *)
PHASES == <<"INIT", "CREATE_NEWCASE", "XML", "SETUP",
            "SHAREDLIB_BUILD", "MODEL_BUILD", "RUN">>

(* CORE_PHASES of the TestStatus file (CIME.test_status): RUN counts     *)
(* as one phase for the scheduler, SUBMIT and RUN in the file.           *)
CORE_PHASES == <<"CREATE_NEWCASE", "XML", "SETUP", "SHAREDLIB_BUILD",
                 "MODEL_BUILD", "SUBMIT", "RUN">>

(* self._no_build and self._no_run as derived in __init__. *)
eff_no_build == no_build \/ no_setup \/ namelists_only
eff_no_run == no_run \/ eff_no_build

(* self._phases: PHASES pruned by the no_setup/no_build/no_run flags. *)
phases ==
    LET removed == (IF no_setup THEN {"SETUP"} ELSE {})
                   \cup (IF eff_no_build
                         THEN {"SHAREDLIB_BUILD", "MODEL_BUILD"} ELSE {})
                   \cup (IF eff_no_run THEN {"RUN"} ELSE {})
    IN SelectSeq(PHASES, LAMBDA p : p \notin removed)

PhaseSet == ToSet(phases)

(* self._phases.index(p) *)
index(p) == CHOOSE i \in 1 .. Len(phases) : phases[i] = p

LastPhase == phases[Len(phases)]

(* Phases whose follower run waits for the leader (_get_procs_needed). *)
build_group_dep_phases == {"XML", "SHAREDLIB_BUILD", "MODEL_BUILD"}

(* _get_build_group: the group of t, whether t leads it, and its leader. *)
get_build_group(t) == CHOOSE g \in BuildGroups : Contains(g, t)
first_test(t) == get_build_group(t)[1]
is_first_test(t) == first_test(t) = t

VARIABLES
    tests,                  \* self._tests: t -> [phase, status]
    procs_avail,            \* self._procs_avail
    model_build_cost,       \* self._model_build_cost
    build_group_exeroots,   \* group -> NONE or the leader that set EXEROOT
    threads_in_flight,      \* producer's dict: t -> [procs, phase]
    thread,                 \* t -> [stage, phase, success] of t's consumer
    retries,                \* "bad interpreter" retries of t's current command
    exeroot_errors,         \* tests whose XML phase hit an EXEROOT expect
    status_file,            \* TestStatus file of each test directory
    restarts,               \* reruns with use_existing so far
    resumed_with,           \* "fresh", or the force_rebuild of this rerun
    ppc,                    \* producer location: scan, wait, join, done
    idx,                    \* position of the producer's loop over tests
    work_to_do,
    num_launched,           \* num_threads_launched_this_iteration
    jobs                    \* t -> [queued, running]: t's batch jobs

vars == <<tests, procs_avail, model_build_cost, build_group_exeroots,
          threads_in_flight, thread, retries, exeroot_errors,
          status_file, restarts, resumed_with, ppc, idx, work_to_do, num_launched,
          jobs>>

worker_vars == <<model_build_cost, build_group_exeroots, exeroot_errors>>
(* What outlives a create_test process: the reruns, and the batch jobs. *)
run_vars == <<restarts, resumed_with, jobs>>
producer_vars == <<ppc, idx, work_to_do, num_launched>>

-----------------------------------------------------------------------------
(* Queries on the in-memory test state. *)

(* _get_test_status: past phases count as PASS, future ones as PEND. *)
get_test_status(t, p) ==
    LET cur == tests[t] IN
    CASE p = cur.phase -> cur.status
      [] index(p) > index(cur.phase) -> PEND
      [] OTHER -> PASS

(* Variant: a failed test still counts as having work. *)
work_remains_ignores_fail(t) == tests[t].phase # LastPhase

(* _work_remains *)
work_remains(t) ==
    tests[t].status \in {PASS, PEND} /\ tests[t].phase # LastPhase

(* The phase the producer would launch next for t. *)
next_phase(t) == phases[index(tests[t].phase) + 1]

(* A thread is alive until its consumer returns. *)
is_alive(t) == thread[t].stage \in {"run", "post"}

(* Variant: followers are not gated on their leader. *)
get_procs_needed_no_gate(t, p) ==
    CASE p = "RUN" /\ no_batch -> TotalPes[t]
      [] p = "SHAREDLIB_BUILD" ->
            IF serialize_sharedlib_builds
               /\ \E u \in DOMAIN threads_in_flight :
                      threads_in_flight[u].phase = "SHAREDLIB_BUILD"
            THEN NONE ELSE 1
      [] p = "MODEL_BUILD" -> model_build_cost
      [] OTHER -> 1

(* Variant: the gate reads the leader's current status, whatever its phase. *)
get_procs_needed_current_status(t, p) ==
    CASE ~is_first_test(t) /\ p \in build_group_dep_phases ->
            IF tests[first_test(t)].status = PEND THEN NONE ELSE 1
      [] p = "RUN" /\ no_batch -> TotalPes[t]
      [] p = "SHAREDLIB_BUILD" ->
            IF serialize_sharedlib_builds
               /\ \E u \in DOMAIN threads_in_flight :
                      threads_in_flight[u].phase = "SHAREDLIB_BUILD"
            THEN NONE ELSE 1
      [] p = "MODEL_BUILD" -> model_build_cost
      [] OTHER -> 1

(* Variant: sharedlib builds are not serialized. *)
get_procs_needed_unserialized(t, p) ==
    CASE ~is_first_test(t) /\ p \in build_group_dep_phases ->
            IF get_test_status(first_test(t), p) = PEND THEN NONE ELSE 1
      [] p = "RUN" /\ no_batch -> TotalPes[t]
      [] p = "MODEL_BUILD" -> model_build_cost
      [] OTHER -> 1

(* _get_procs_needed: NONE means the phase is ineligible to run now. *)
get_procs_needed(t, p) ==
    CASE ~is_first_test(t) /\ p \in build_group_dep_phases ->
            IF get_test_status(first_test(t), p) = PEND THEN NONE ELSE 1
      [] p = "RUN" /\ no_batch -> TotalPes[t]
      [] p = "SHAREDLIB_BUILD" ->
            IF serialize_sharedlib_builds
               /\ \E u \in DOMAIN threads_in_flight :
                      threads_in_flight[u].phase = "SHAREDLIB_BUILD"
            THEN NONE ELSE 1
      [] p = "MODEL_BUILD" -> model_build_cost
      [] OTHER -> 1

(* _update_test_status: the expects that guard a change of (phase, status). *)
legal_update(old, new) ==
    IF old.phase = new.phase
    THEN old.status = PEND /\ new.status # PEND
    ELSE /\ old.status = PASS
         /\ new.status = PEND
         /\ index(old.phase) = index(new.phase) - 1

-----------------------------------------------------------------------------
(* The TestStatus file (CIME.test_status, not part of this source): the   *)
(* last status recorded for each core phase, NONE when never recorded.    *)

pass_fail(ok) == IF ok THEN PASS ELSE FAIL

(* _update_test_status_file for test t. *)
update_test_status_file(t, p, st) ==
    status_file' = [status_file EXCEPT ![t][p] = st]

-----------------------------------------------------------------------------
(* Initial state: __init__ without use_existing, no test directory yet. *)

Init ==
    /\ tests = [t \in Tests |-> [phase |-> "INIT", status |-> PASS]]
    /\ procs_avail = proc_pool
    /\ model_build_cost = model_build_cost_init
    /\ build_group_exeroots = [g \in BuildGroups |-> NONE]
    /\ threads_in_flight = <<>>
    /\ thread = [t \in Tests |-> [stage |-> "none", phase |-> "INIT",
                                  success |-> FALSE]]
    /\ retries = [t \in Tests |-> 0]
    /\ exeroot_errors = {}
    /\ status_file = [t \in Tests |-> [p \in ToSet(CORE_PHASES) |-> NONE]]
    /\ restarts = 0
    /\ resumed_with = "fresh"
    /\ ppc = "scan" /\ idx = 1 /\ work_to_do = FALSE /\ num_launched = 0
    /\ jobs = [t \in Tests |-> [queued |-> 0, running |-> 0]]

-----------------------------------------------------------------------------
(* Consumer threads.  The phase methods that run an external command     *)
(* leave the status that command records in the file.                    *)

(* Outcomes of a phase method that may fail. *)
outcome(t, p) == IF <<t, p>> \in MayFail THEN BOOLEAN ELSE {TRUE}

(* Whether the phase method of t runs through _shell_cmd_for_phase. *)
uses_shell(t, p) ==
    \/ p \in {"CREATE_NEWCASE", "SETUP"}
    \/ p \in {"SHAREDLIB_BUILD", "MODEL_BUILD"} /\ is_first_test(t)
    \/ p = "RUN" /\ t \notin SkipRunTests

(* _consumer up to its status update: RUN on a batch system stays PEND. *)
consume(t, success) ==
    LET p == thread[t].phase
        status == IF ~success THEN FAIL
                  ELSE IF p = "RUN" /\ ~no_batch THEN PEND ELSE PASS
    IN /\ tests' = IF status # PEND
                   THEN [tests EXCEPT ![t] = [phase |-> p, status |-> status]]
                   ELSE tests
       /\ thread' = [thread EXCEPT ![t].stage = "post",
                                   ![t].success = success]

running(t, p) == thread[t].stage = "run" /\ thread[t].phase = p

phase_unchanged ==
    UNCHANGED <<procs_avail, threads_in_flight, retries, run_vars,
                producer_vars>>

(* _shell_cmd_for_phase: output containing "bad interpreter" is retried. *)
ShellCmdRetry(t) ==
    /\ thread[t].stage = "run"
    /\ uses_shell(t, thread[t].phase)
    /\ retries[t] < MaxRetries
    /\ retries' = [retries EXCEPT ![t] = @ + 1]
    /\ UNCHANGED <<tests, procs_avail, threads_in_flight, thread,
                   worker_vars, status_file, run_vars, producer_vars>>

(* _create_newcase_phase: its status is written later by _consumer. *)
CreateNewcasePhase(t) ==
    /\ running(t, "CREATE_NEWCASE")
    /\ \E ok \in outcome(t, "CREATE_NEWCASE") : consume(t, ok)
    /\ UNCHANGED <<worker_vars, status_file>>
    /\ phase_unchanged

(* The EXEROOT hand-over of _xml_phase: a leader expects its group's    *)
(* slot empty, a follower expects it filled.                             *)
xml_slot_ok(t) ==
    IF is_first_test(t) THEN build_group_exeroots[get_build_group(t)] = NONE
    ELSE build_group_exeroots[get_build_group(t)] # NONE

(* The GMAKE_J clamp: the build cost is scaled back to the pool.         *)
(* Variant: the clamp without its guard, GMAKE_J set to the pool always. *)
xml_build_cost_unguarded == proc_pool

xml_build_cost == IF model_build_cost > proc_pool THEN proc_pool ELSE model_build_cost

(* Variant: _xml_phase without the GMAKE_J clamp. *)
XmlPhase_no_clamp(t) ==
    /\ running(t, "XML")
    /\ \E reached \in outcome(t, "XML") :
        LET ok == reached /\ xml_slot_ok(t)
        IN /\ build_group_exeroots' =
                IF ok /\ is_first_test(t)
                THEN [build_group_exeroots EXCEPT ![get_build_group(t)] = t]
                ELSE build_group_exeroots
           /\ exeroot_errors' =
                IF reached /\ ~xml_slot_ok(t) THEN exeroot_errors \cup {t}
                ELSE exeroot_errors
           /\ UNCHANGED model_build_cost
           /\ consume(t, ok)
    /\ UNCHANGED status_file
    /\ phase_unchanged

(* _xml_phase: a leader records its EXEROOT for the group, a follower    *)
(* takes the recorded one; each expects the slot in the matching state.  *)
(* An exception before that point (reached = FALSE) fails the phase.    *)
XmlPhase(t) ==
    /\ running(t, "XML")
    /\ \E reached \in outcome(t, "XML") :
        LET ok == reached /\ xml_slot_ok(t)
        IN /\ build_group_exeroots' =
                IF ok /\ is_first_test(t)
                THEN [build_group_exeroots EXCEPT ![get_build_group(t)] = t]
                ELSE build_group_exeroots
           /\ exeroot_errors' =
                IF reached /\ ~xml_slot_ok(t) THEN exeroot_errors \cup {t}
                ELSE exeroot_errors
           /\ model_build_cost' = IF ok THEN xml_build_cost ELSE model_build_cost
           /\ consume(t, ok)
    /\ UNCHANGED status_file
    /\ phase_unchanged

(* _setup_phase: case.setup records SETUP; in single-exe mode a failed   *)
(* support check records SETUP FAIL.                                     *)
SetupPhase(t) ==
    /\ running(t, "SETUP")
    /\ \E ok \in outcome(t, "SETUP") :
           /\ update_test_status_file(t, "SETUP", pass_fail(ok))
           /\ consume(t, ok)
    /\ UNCHANGED worker_vars
    /\ phase_unchanged

(* _sharedlib_build_phase: a follower succeeds iff its leader passed the *)
(* phase.  A leader runs case.build --sharedlib-only (which records its   *)
(* status) and then case.cmpgen_namelists, whose fatal exit records       *)
(* SETUP FAIL and fails the phase.                                        *)
SharedlibBuildPhase(t) ==
    /\ running(t, "SHAREDLIB_BUILD")
    /\ IF is_first_test(t)
       THEN \E build_ok, cmpgen_ok \in outcome(t, "SHAREDLIB_BUILD") :
              /\ status_file' = [status_file EXCEPT
                     ![t]["SHAREDLIB_BUILD"] = pass_fail(build_ok),
                     ![t]["SETUP"] = IF cmpgen_ok THEN @ ELSE FAIL]
              /\ consume(t, build_ok /\ cmpgen_ok)
       ELSE /\ consume(t, get_test_status(first_test(t),
                                          "SHAREDLIB_BUILD") = PASS)
            /\ UNCHANGED status_file
    /\ UNCHANGED worker_vars
    /\ phase_unchanged

(* Variant: a follower reuses the build without checking the leader.    *)
ModelBuildPhase_reuses_any_build(t) ==
    /\ running(t, "MODEL_BUILD")
    /\ IF is_first_test(t)
       THEN \E ok \in outcome(t, "MODEL_BUILD") :
              /\ update_test_status_file(t, "MODEL_BUILD", pass_fail(ok))
              /\ consume(t, ok)
       ELSE /\ \E ok \in outcome(t, "MODEL_BUILD") : consume(t, ok)
            /\ UNCHANGED status_file
    /\ UNCHANGED worker_vars
    /\ phase_unchanged

(* _model_build_phase: a follower reuses the leader's build only if the  *)
(* leader passed, through post_build, which may raise (a FAIL through     *)
(* _run_catch_exceptions); a leader runs case.build --model-only.        *)
ModelBuildPhase(t) ==
    /\ running(t, "MODEL_BUILD")
    /\ IF is_first_test(t)
       THEN \E ok \in outcome(t, "MODEL_BUILD") :
              /\ update_test_status_file(t, "MODEL_BUILD", pass_fail(ok))
              /\ consume(t, ok)
       ELSE /\ IF get_test_status(first_test(t), "MODEL_BUILD") = PASS
               THEN \E ok \in outcome(t, "MODEL_BUILD") : consume(t, ok)
               ELSE consume(t, FALSE)
            /\ UNCHANGED status_file
    /\ UNCHANGED worker_vars
    /\ phase_unchanged

(* _run_phase: the "B" option records SUBMIT and RUN PASS without a      *)
(* submit; otherwise case.submit records SUBMIT, and without a batch     *)
(* system it runs the case in place and records RUN as well; with one it *)
(* queues a batch job.                                                   *)
RunPhase(t) ==
    /\ running(t, "RUN")
    /\ IF t \in SkipRunTests
       THEN /\ status_file' = [status_file EXCEPT ![t]["SUBMIT"] = PASS,
                                                  ![t]["RUN"] = PASS]
            /\ consume(t, TRUE)
            /\ UNCHANGED jobs
       ELSE \E ok \in outcome(t, "RUN") :
              /\ status_file' = [status_file EXCEPT
                     ![t]["SUBMIT"] = pass_fail(ok),
                     ![t]["RUN"] = IF no_batch THEN pass_fail(ok) ELSE @]
              /\ consume(t, ok)
              /\ jobs' = IF ok /\ ~no_batch
                         THEN [jobs EXCEPT ![t].queued = @ + 1] ELSE jobs
    /\ UNCHANGED <<worker_vars, procs_avail, threads_in_flight, retries,
                   restarts, resumed_with, producer_vars>>

(* _consumer after the status update: it records the status of the       *)
(* phases TestScheduler owns, then on a batch system chains a passed      *)
(* MODEL_BUILD into RUN in the same thread, else the thread returns.     *)
scheduler_owned(t, p) ==
    \/ p \in {"CREATE_NEWCASE", "XML"}
    \/ ~is_first_test(t) /\ p \in {"SHAREDLIB_BUILD", "MODEL_BUILD"}

(* Variant: XML left out of the phases _consumer records. *)
record_owned_status_no_xml(t) ==
    LET p == thread[t].phase IN
    status_file' = IF scheduler_owned(t, p) /\ p # "XML"
                   THEN [status_file EXCEPT ![t][p] = pass_fail(thread[t].success)]
                   ELSE status_file

record_owned_status(t) ==
    LET p == thread[t].phase IN
    status_file' = IF scheduler_owned(t, p)
                   THEN [status_file EXCEPT ![t][p] = pass_fail(thread[t].success)]
                   ELSE status_file

chains(t) ==
    /\ thread[t].success
    /\ ~eff_no_run /\ ~no_batch
    /\ thread[t].phase = "MODEL_BUILD"

(* Variant: the chained RUN leaves self._tests at MODEL_BUILD. *)
ConsumerChainRun_no_update(t) ==
    /\ thread[t].stage = "post"
    /\ chains(t)
    /\ record_owned_status(t)
    /\ thread' = [thread EXCEPT ![t] = [stage |-> "run", phase |-> "RUN",
                                        success |-> FALSE]]
    /\ retries' = [retries EXCEPT ![t] = 0]
    /\ UNCHANGED <<tests, worker_vars, procs_avail, threads_in_flight, run_vars,
                   producer_vars>>

ConsumerChainRun(t) ==
    /\ thread[t].stage = "post"
    /\ chains(t)
    /\ record_owned_status(t)
    /\ tests' = [tests EXCEPT ![t] = [phase |-> "RUN", status |-> PEND]]
    /\ thread' = [thread EXCEPT ![t] = [stage |-> "run", phase |-> "RUN",
                                        success |-> FALSE]]
    /\ retries' = [retries EXCEPT ![t] = 0]
    /\ UNCHANGED <<worker_vars, procs_avail, threads_in_flight, run_vars,
                   producer_vars>>

ConsumerExit(t) ==
    /\ thread[t].stage = "post"
    /\ ~chains(t)
    /\ record_owned_status(t)
    /\ thread' = [thread EXCEPT ![t].stage = "exited"]
    /\ UNCHANGED <<tests, worker_vars>>
    /\ phase_unchanged

-----------------------------------------------------------------------------
(* The batch system (outside this source): a queued job of t starts and   *)
(* its case.run records RUN PEND, then it ends and records RUN PASS or    *)
(* FAIL.  Jobs outlive the create_test process that submitted them.      *)

BatchJobStart(t) ==
    /\ jobs[t].queued > 0
    /\ jobs' = [jobs EXCEPT ![t].queued = @ - 1, ![t].running = @ + 1]
    /\ update_test_status_file(t, "RUN", PEND)
    /\ UNCHANGED <<tests, procs_avail, threads_in_flight, thread, retries,
                   worker_vars, restarts, resumed_with, producer_vars>>

BatchJobEnd(t) ==
    /\ jobs[t].running > 0
    /\ jobs' = [jobs EXCEPT ![t].running = @ - 1]
    /\ \E ok \in outcome(t, "RUN") : update_test_status_file(t, "RUN", pass_fail(ok))
    /\ UNCHANGED <<tests, procs_avail, threads_in_flight, thread, retries,
                   worker_vars, restarts, resumed_with, producer_vars>>

-----------------------------------------------------------------------------
(* The producer: one pass of the for-loop in _producer handles one test. *)

scanning(t) ==
    /\ ppc = "scan"
    /\ idx <= Len(TestOrder)
    /\ TestOrder[idx] = t

(* A test without work left is passed over. *)
SkipFinishedTest(t) ==
    /\ scanning(t)
    /\ ~work_remains(t)
    /\ idx' = idx + 1
    /\ UNCHANGED <<tests, procs_avail, threads_in_flight, thread, retries,
                   worker_vars, status_file, run_vars, ppc, work_to_do, num_launched>>

(* With every worker slot taken the pass breaks off to wait. *)
BreakWorkersBusy(t) ==
    /\ scanning(t)
    /\ work_remains(t)
    /\ Cardinality(DOMAIN threads_in_flight) = parallel_jobs
    /\ work_to_do' = TRUE
    /\ idx' = Len(TestOrder) + 1
    /\ UNCHANGED <<tests, procs_avail, threads_in_flight, thread, retries,
                   worker_vars, status_file, run_vars, ppc, num_launched>>

(* A test whose thread is still in the dict is not launched again. *)
SkipRunningTest(t) ==
    /\ scanning(t)
    /\ work_remains(t)
    /\ Cardinality(DOMAIN threads_in_flight) # parallel_jobs
    /\ t \in DOMAIN threads_in_flight
    /\ work_to_do' = TRUE
    /\ idx' = idx + 1
    /\ UNCHANGED <<tests, procs_avail, threads_in_flight, thread, retries,
                   worker_vars, status_file, run_vars, ppc, num_launched>>

(* _producer_indv_test_launch is entered for a test not in flight; it     *)
(* expects the test's status not to be PEND (see ProducerExpectsHold).   *)
launch_attempt(t) ==
    /\ scanning(t)
    /\ work_remains(t)
    /\ Cardinality(DOMAIN threads_in_flight) # parallel_jobs
    /\ t \notin DOMAIN threads_in_flight
    /\ tests[t].status # PEND
    /\ work_to_do' = TRUE
    /\ idx' = idx + 1

(* procs_needed is None: the follower waits for its leader. *)
LaunchIneligible(t) ==
    /\ launch_attempt(t)
    /\ get_procs_needed(t, next_phase(t)) = NONE
    /\ UNCHANGED <<tests, procs_avail, threads_in_flight, thread, retries,
                   worker_vars, status_file, run_vars, ppc, num_launched>>

(* procs_needed exceeds the whole pool: expected only for RUN, which is  *)
(* failed at once (SUBMIT PASS, RUN FAIL) and counts as a launch.        *)
LaunchOverPool(t) ==
    /\ launch_attempt(t)
    /\ LET p == next_phase(t)
           c == get_procs_needed(t, p)
       IN /\ c # NONE /\ c > proc_pool
          /\ p = "RUN"
          /\ tests' = [tests EXCEPT ![t] = [phase |-> p, status |-> FAIL]]
    /\ status_file' = [status_file EXCEPT ![t]["SUBMIT"] = PASS,
                                           ![t]["RUN"] = FAIL]
    /\ num_launched' = num_launched + 1
    /\ UNCHANGED <<procs_avail, threads_in_flight, thread, retries,
                   worker_vars, run_vars, ppc>>

(* Enough free cores: debit them, mark the phase PEND, start a thread. *)
LaunchStart(t) ==
    /\ launch_attempt(t)
    /\ LET p == next_phase(t)
           c == get_procs_needed(t, p)
       IN /\ c # NONE /\ c <= proc_pool /\ c <= procs_avail
          /\ procs_avail' = procs_avail - c
          /\ tests' = [tests EXCEPT ![t] = [phase |-> p, status |-> PEND]]
          /\ threads_in_flight' =
                (t :> [procs |-> c, phase |-> p]) @@ threads_in_flight
          /\ thread' = [thread EXCEPT ![t] = [stage |-> "run", phase |-> p,
                                              success |-> FALSE]]
    /\ retries' = [retries EXCEPT ![t] = 0]
    /\ num_launched' = num_launched + 1
    /\ UNCHANGED <<worker_vars, status_file, run_vars, ppc>>

(* Not enough free cores now: skip the test this pass. *)
LaunchNoProcs(t) ==
    /\ launch_attempt(t)
    /\ LET c == get_procs_needed(t, next_phase(t))
       IN c # NONE /\ c <= proc_pool /\ c > procs_avail
    /\ UNCHANGED <<tests, procs_avail, threads_in_flight, thread, retries,
                   worker_vars, status_file, run_vars, ppc, num_launched>>

pass_over == ppc = "scan" /\ idx = Len(TestOrder) + 1

(* Variant: work_to_do is not reset at the top of the while loop. *)
restart_pass_keeps_work == idx' = 1 /\ num_launched' = 0 /\ UNCHANGED work_to_do

restart_pass == idx' = 1 /\ work_to_do' = FALSE /\ num_launched' = 0

(* End of a pass with no work left anywhere: leave the loop and join. *)
ProducerExit ==
    /\ pass_over /\ ~work_to_do
    /\ ppc' = "join"
    /\ UNCHANGED <<tests, procs_avail, threads_in_flight, thread, retries,
                   worker_vars, status_file, run_vars, idx, work_to_do, num_launched>>

(* End of a pass that launched nothing: wait for a thread to finish. *)
ProducerBlock ==
    /\ pass_over /\ work_to_do /\ num_launched = 0
    /\ ppc' = "wait"
    /\ UNCHANGED <<tests, procs_avail, threads_in_flight, thread, retries,
                   worker_vars, status_file, run_vars, idx, work_to_do, num_launched>>

(* End of a pass that launched something: start the next pass. *)
ProducerLoop ==
    /\ pass_over /\ work_to_do /\ num_launched > 0
    /\ restart_pass
    /\ UNCHANGED <<tests, procs_avail, threads_in_flight, thread, retries,
                   worker_vars, status_file, run_vars, ppc>>

(* _wait_for_something_to_finish: one scan of the dict sees some of the  *)
(* dead threads (others may die behind it); give back their cores and   *)
(* drop them.                                                            *)
dead_in_flight == {u \in DOMAIN threads_in_flight : ~is_alive(u)}

(* Variant: the scan takes every thread in the dict as finished. *)
WaitForSomethingToFinish_reaps_live ==
    /\ ppc = "wait"
    /\ \E finished \in SUBSET DOMAIN threads_in_flight \ {{}} :
          /\ procs_avail' = procs_avail +
                SumFunction([u \in finished |-> threads_in_flight[u].procs])
          /\ threads_in_flight' =
                Restrict(threads_in_flight, DOMAIN threads_in_flight \ finished)
    /\ ppc' = "scan"
    /\ restart_pass
    /\ UNCHANGED <<tests, thread, retries, worker_vars, status_file, run_vars>>

WaitForSomethingToFinish ==
    /\ ppc = "wait"
    /\ \E finished \in SUBSET dead_in_flight \ {{}} :
          /\ procs_avail' = procs_avail +
                SumFunction([u \in finished |-> threads_in_flight[u].procs])
          /\ threads_in_flight' =
                Restrict(threads_in_flight, DOMAIN threads_in_flight \ finished)
    /\ ppc' = "scan"
    /\ restart_pass
    /\ UNCHANGED <<tests, thread, retries, worker_vars, status_file, run_vars>>

(* While no thread in the dict has died, the loop sleeps and scans again. *)
WaitPoll ==
    /\ ppc = "wait"
    /\ dead_in_flight = {}
    /\ UNCHANGED vars

(* The join of the threads still in the dict after the loop. *)
JoinThreads ==
    /\ ppc = "join"
    /\ \A u \in DOMAIN threads_in_flight : ~is_alive(u)
    /\ ppc' = "done"
    /\ UNCHANGED <<tests, procs_avail, threads_in_flight, thread, retries,
                   worker_vars, status_file, run_vars, idx, work_to_do, num_launched>>

(* run_tests has left _producer: nothing moves any more. *)
Terminated ==
    /\ ppc = "done"
    /\ UNCHANGED vars

-----------------------------------------------------------------------------
(* A rerun of create_test with use_existing (after the run ended or was  *)
(* killed at any point): a new TestScheduler whose __init__ replays each *)
(* test's TestStatus file.  Nothing in memory survives the old process,   *)
(* and a killed phase command leaves the file as it was.                  *)

(* The loop of __init__ over the records of one file, in CORE_PHASES     *)
(* order from position i: cur is the (phase, status) replayed so far and  *)
(* ok is FALSE once an expect of _update_test_status would have fired.    *)
(* Variant: a passed SUBMIT ends the walk like PEND. *)
RECURSIVE replay_walk_stops_at_submit(_, _, _, _)
replay_walk_stops_at_submit(f, i, cur, ok) ==
    IF i > Len(CORE_PHASES) THEN [cur |-> cur, file |-> f, ok |-> ok]
    ELSE LET p == CORE_PHASES[i]
             st == f[p]
         IN CASE st = NONE -> replay_walk_stops_at_submit(f, i + 1, cur, ok)
              [] st \in {PEND, FAIL} \/ p = "SUBMIT" ->
                    [cur |-> cur, file |-> [f EXCEPT ![p] = PEND], ok |-> ok]
              [] p \notin PhaseSet -> replay_walk_stops_at_submit(f, i + 1, cur, FALSE)
              [] OTHER ->
                    replay_walk_stops_at_submit(f, i + 1, [phase |-> p, status |-> st],
                                ok /\ legal_update(cur, [phase |-> p,
                                                         status |-> PEND]))

RECURSIVE replay_walk(_, _, _, _)
replay_walk(f, i, cur, ok) ==
    IF i > Len(CORE_PHASES) THEN [cur |-> cur, file |-> f, ok |-> ok]
    ELSE LET p == CORE_PHASES[i]
             st == f[p]
         IN CASE st = NONE -> replay_walk(f, i + 1, cur, ok)
              [] st \in {PEND, FAIL} ->
                    [cur |-> cur, file |-> [f EXCEPT ![p] = PEND], ok |-> ok]
              [] p = "SUBMIT" -> replay_walk(f, i + 1, cur, ok)
              [] p \notin PhaseSet -> replay_walk(f, i + 1, cur, FALSE)
              [] OTHER ->
                    replay_walk(f, i + 1, [phase |-> p, status |-> st],
                                ok /\ legal_update(cur, [phase |-> p,
                                                         status |-> PEND]))

(* force_rebuild marks SHAREDLIB_BUILD PEND before the walk. *)
replay(t, force) ==
    LET f == IF force
             THEN [status_file[t] EXCEPT !["SHAREDLIB_BUILD"] = PEND]
             ELSE status_file[t]
    IN replay_walk(f, 1, [phase |-> "INIT", status |-> PASS], TRUE)

Restart(force) ==
    /\ restarts < MaxRestarts
    /\ LET r == [t \in Tests |-> replay(t, force)] IN
         /\ tests' = [t \in Tests |-> r[t].cur]
         /\ status_file' = [t \in Tests |-> r[t].file]
    /\ restarts' = restarts + 1
    /\ UNCHANGED jobs
    /\ resumed_with' = IF force THEN "force_rebuild" ELSE "use_existing"
    /\ procs_avail' = proc_pool
    /\ model_build_cost' = model_build_cost_init
    /\ build_group_exeroots' = [g \in BuildGroups |-> NONE]
    /\ threads_in_flight' = <<>>
    /\ thread' = [t \in Tests |-> [stage |-> "none", phase |-> "INIT",
                                   success |-> FALSE]]
    /\ retries' = [t \in Tests |-> 0]
    /\ exeroot_errors' = {}
    /\ ppc' = "scan" /\ restart_pass

-----------------------------------------------------------------------------

ProducerStep ==
    \/ ProducerExit \/ ProducerBlock \/ ProducerLoop
    \/ WaitForSomethingToFinish \/ WaitPoll \/ JoinThreads
    \/ \E t \in Tests :
        \/ SkipFinishedTest(t) \/ BreakWorkersBusy(t) \/ SkipRunningTest(t)
        \/ LaunchIneligible(t) \/ LaunchOverPool(t)
        \/ LaunchStart(t) \/ LaunchNoProcs(t)

WorkerStep(t) ==
    \/ CreateNewcasePhase(t) \/ XmlPhase(t) \/ SetupPhase(t)
    \/ SharedlibBuildPhase(t) \/ ModelBuildPhase(t) \/ RunPhase(t)
    \/ ConsumerChainRun(t) \/ ConsumerExit(t)

Next ==
    \/ ProducerStep
    \/ \E t \in Tests : WorkerStep(t) \/ ShellCmdRetry(t)
    \/ \E t \in Tests : BatchJobStart(t) \/ BatchJobEnd(t)
    \/ \E force \in ResumeModes : Restart(force)
    \/ Terminated

(* The producer polls and the OS runs every live thread: each keeps       *)
(* taking steps while it can.  A retry is not forced.                     *)
Fairness ==
    /\ WF_vars(ProducerStep)
    /\ \A t \in Tests : WF_vars(WorkerStep(t))

Spec == Init /\ [][Next]_vars /\ Fairness

-----------------------------------------------------------------------------
(* Properties. *)

(* Type invariant.  Beyond the shapes of the variables, the MODEL_BUILD   *)
(* cost stays between 1 and its value at start: the clamp of _xml_phase   *)
(* only lowers it, to the pool.                                           *)
TypeOK ==
    /\ tests \in [Tests -> [phase : PhaseSet, status : {PASS, PEND, FAIL}]]
    /\ procs_avail \in Int
    /\ model_build_cost \in 1 .. model_build_cost_init
    /\ build_group_exeroots \in [BuildGroups -> Tests \cup {NONE}]
    /\ DOMAIN threads_in_flight \subseteq Tests
    /\ \A u \in DOMAIN threads_in_flight :
           threads_in_flight[u] \in [procs : Nat, phase : PhaseSet]
    /\ thread \in [Tests -> [stage : {"none", "run", "post", "exited"},
                             phase : PhaseSet, success : BOOLEAN]]
    /\ retries \in [Tests -> 0 .. MaxRetries]
    /\ exeroot_errors \subseteq Tests
    /\ status_file \in [Tests -> [ToSet(CORE_PHASES) -> {NONE, PASS, PEND, FAIL}]]
    /\ restarts \in 0 .. MaxRestarts
    /\ resumed_with \in {"fresh", "use_existing", "force_rebuild"}
    /\ ppc \in {"scan", "wait", "join", "done"}
    /\ idx \in 1 .. Len(TestOrder) + 1
    /\ work_to_do \in BOOLEAN
    /\ num_launched \in Nat
    /\ jobs \in [Tests -> [queued : Nat, running : Nat]]

(* Cores and worker slots (_producer_indv_test_launch debits, _wait_for_  *)
(* something_to_finish credits): the free cores plus the cores of the     *)
(* threads in the dict always make up the pool, never go negative, no   *)
(* more threads than parallel_jobs are in the dict, and no live thread    *)
(* has been dropped from it (its cores would be handed out twice).        *)
ResourcesRespected ==
    /\ procs_avail + SumFunction([u \in DOMAIN threads_in_flight |->
                                      threads_in_flight[u].procs]) = proc_pool
    /\ procs_avail >= 0
    /\ Cardinality(DOMAIN threads_in_flight) <= parallel_jobs
    /\ \A t \in Tests : is_alive(t) => t \in DOMAIN threads_in_flight

(* Build-group gate (_get_procs_needed): while a follower's thread runs    *)
(* XML, SHAREDLIB_BUILD or MODEL_BUILD, its leader has finished that same *)
(* phase (its status for the phase is no longer PEND).                    *)
LeaderGateRespected ==
    \A t \in Tests :
        (~is_first_test(t) /\ is_alive(t)
         /\ thread[t].phase \in build_group_dep_phases)
        => get_test_status(first_test(t), thread[t].phase) # PEND

(* EXEROOT hand-over in _xml_phase: a follower hits the "Should already   *)
(* have exeroot" expect only when its leader's XML phase failed, and a    *)
(* leader never finds the slot already filled.                            *)
ExerootDiscipline ==
    \A t \in exeroot_errors :
        ~is_first_test(t) /\ get_test_status(first_test(t), "XML") = FAIL

(* The expects of _producer_indv_test_launch never fire: a test the       *)
(* producer would launch is not PEND, and only RUN may ask for more cores *)
(* than the whole pool (MODEL_BUILD relies on the clamp in _xml_phase).   *)
ProducerExpectsHold ==
    \A t \in Tests :
        (work_remains(t) /\ t \notin DOMAIN threads_in_flight
         /\ ~is_alive(t))
        => /\ tests[t].status # PEND
           /\ LET c == get_procs_needed(t, next_phase(t))
              IN c # NONE /\ c > proc_pool => next_phase(t) = "RUN"

(* With serialize_sharedlib_builds, at most one leader runs case.build    *)
(* --sharedlib-only at a time.                                            *)
SharedlibSerialized ==
    serialize_sharedlib_builds =>
        Cardinality({t \in Tests : is_first_test(t)
                                   /\ running(t, "SHAREDLIB_BUILD")}) <= 1

(* A rerun with use_existing can always rebuild its in-memory state: the  *)
(* replay in __init__ of every TestStatus file the previous run left,     *)
(* killed at any point, passes the expects of _update_test_status.  This  *)
(* relies on the file writes of the phases and of _consumer coming in    *)
(* phase order.                                                           *)
ResumeReplayLegal ==
    [][restarts' = restarts + 1 =>
         \A t \in Tests : replay(t, resumed_with' = "force_rebuild").ok
      ]_<<tests, restarts>>

(* Design scenario S5: a follower's SHAREDLIB_BUILD and MODEL_BUILD take  *)
(* the outcome of its leader's.  A follower has passed such a phase only  *)
(* if its leader passed it, and, since _sharedlib_build_phase has nothing *)
(* of its own that can fail for a follower, it fails SHAREDLIB_BUILD only *)
(* after its leader failed it: the gate of _get_procs_needed makes the    *)
(* status the follower's phase method reads final.  (A follower's         *)
(* MODEL_BUILD may also fail in post_build after its leader passed.)      *)
FollowersShareLeaderBuild ==
    \A g \in BuildGroups : \A i \in 2 .. Len(g) :
      \A p \in {"SHAREDLIB_BUILD", "MODEL_BUILD"} \cap PhaseSet :
        /\ get_test_status(g[i], p) = PASS => get_test_status(g[1], p) = PASS
        /\ tests[g[i]] = [phase |-> "SHAREDLIB_BUILD", status |-> FAIL]
             => get_test_status(g[1], "SHAREDLIB_BUILD") = FAIL

(* A test has at most one batch job at a time: case.submit is not run    *)
(* for a test whose submitted job is still queued or running, which would *)
(* put two runs in one case directory.  §4.3 of the design has a rerun    *)
(* with use_existing treat a RUN left PEND as the current phase, i.e. as  *)
(* submitted and awaited, not as work to redo.                           *)
NoConcurrentJobs == \A t \in Tests : jobs[t].queued + jobs[t].running <= 1

(* The producer loop ends: every test runs out of work and run_tests      *)
(* goes on past the join.                                                  *)
Termination == <>(ppc = "done")

(* Refinement.  The scheduler implements PhaseWalk: self._tests is the    *)
(* walk of every test, and resumed_with says how the rerun was started.   *)
(* On a batch system the process does not wait for RUN, whose status     *)
(* stays PEND in memory.  force_rebuild resumes a completed test after    *)
(* SETUP.                                                                  *)
PW == INSTANCE PhaseWalk WITH
        Tests <- Tests, Phases <- phases,
        Submitted <- IF no_batch THEN {} ELSE {"RUN"},
        RebuildResumePoint <- "SETUP",
        walk <- tests, resumed <- resumed_with

(* Every behaviour of the scheduler, under the fairness of its threads,  *)
(* is a behaviour of PhaseWalk: each change of self._tests by the         *)
(* producer, a consumer or a rerun's replay is one step of a test's walk, *)
(* and every test eventually completes, fails or is left to the batch     *)
(* system.                                                                 *)
PhaseWalkRefined == PW!Spec

=============================================================================
