\* Two independent tests run in-process, then create_test rerun with
\* use_existing or force_rebuild after the run ended or was killed.
CONSTANTS
    T1 = T1
    T2 = T2
    T3 = T3
    NONE = NONE
    NoEstimate = 999999999
    TestOrder <- MC_TwoTests
    BuildGroups <- MC_TwoSingletonGroups
    no_setup = FALSE
    no_build = FALSE
    no_run = FALSE
    namelists_only = FALSE
    no_batch = TRUE
    proc_pool = 3
    parallel_jobs = 2
    model_build_cost_init = 2
    TotalPes <- MC_TotalPes
    serialize_sharedlib_builds = FALSE
    SkipRunTests = {T2}
    MayFail <- MC_ResumeFailures
    MaxRetries = 0
    MaxRestarts = 2
    ResumeModes = {FALSE, TRUE}

SPECIFICATION Spec

INVARIANT ResourcesRespected

PROPERTY PhaseWalkRefined
PROPERTY ResumeReplayLegal
PROPERTY Termination
