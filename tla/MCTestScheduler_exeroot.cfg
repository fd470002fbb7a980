\* A shared build group rerun with use_existing after a kill: the leader's
\* XML passed in the first run, the follower's had not yet run.
CONSTANTS
    T1 = T1
    T2 = T2
    T3 = T3
    NONE = NONE
    NoEstimate = 999999999
    TestOrder <- MC_TestOrder
    BuildGroups <- MC_SharedGroups
    no_setup = FALSE
    no_build = FALSE
    no_run = FALSE
    namelists_only = FALSE
    no_batch = FALSE
    proc_pool = 3
    parallel_jobs = 2
    model_build_cost_init = 2
    TotalPes <- MC_TotalPes
    serialize_sharedlib_builds = TRUE
    SkipRunTests = {}
    MayFail <- MC_NoFailures
    MaxRetries = 0
    MaxRestarts = 1
    ResumeModes = {FALSE}

SPECIFICATION Spec

INVARIANT ExerootDiscipline
