\* Two independent tests on a batch system, and one rerun with use_existing
\* while a submitted job may still be queued or running.
CONSTANTS
    T1 = T1
    T2 = T2
    T3 = T3
    NONE = NONE
    NoEstimate = 999999999
    TestOrder <- MC_TwoTests
    BuildGroups <- MC_TwoSingletonGroups
    no_setup = FALSE
    no_build = FALSE
    no_run = FALSE
    namelists_only = FALSE
    no_batch = FALSE
    proc_pool = 3
    parallel_jobs = 2
    model_build_cost_init = 2
    TotalPes <- MC_TotalPes
    serialize_sharedlib_builds = FALSE
    SkipRunTests = {}
    MayFail <- MC_NoFailures
    MaxRetries = 0
    MaxRestarts = 1
    ResumeModes = {FALSE}

SPECIFICATION Spec

INVARIANT NoConcurrentJobs
