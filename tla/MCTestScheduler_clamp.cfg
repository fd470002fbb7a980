\* A rerun with use_existing after the XML phases passed, without shared
\* builds: MODEL_BUILD asks for more cores than the whole pool.
CONSTANTS
    T1 = T1
    T2 = T2
    T3 = T3
    NONE = NONE
    NoEstimate = 999999999
    TestOrder <- MC_TestOrder
    BuildGroups <- MC_SingletonGroups
    no_setup = FALSE
    no_build = FALSE
    no_run = FALSE
    namelists_only = FALSE
    no_batch = FALSE
    proc_pool = 3
    parallel_jobs = 2
    model_build_cost_init = 4
    TotalPes <- MC_TotalPes
    serialize_sharedlib_builds = TRUE
    SkipRunTests = {}
    MayFail <- MC_NoFailures
    MaxRetries = 0
    MaxRestarts = 1
    ResumeModes = {FALSE}

SPECIFICATION Spec

INVARIANT ProducerExpectsHold
