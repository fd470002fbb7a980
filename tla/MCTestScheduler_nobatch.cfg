\* Independent tests, in the order the runtime sort yields, run in-process (no_batch): RUN charged at TOTALPES,
\* T3's RUN larger than the whole pool, T2 skipping RUN ("B"), and one
\* "bad interpreter" retry per test.
CONSTANTS
    T1 = T1
    T2 = T2
    T3 = T3
    NONE = NONE
    NoEstimate = 999999999
    TestOrder <- MC_SortedOrder
    BuildGroups <- MC_SingletonGroups
    no_setup = FALSE
    no_build = FALSE
    no_run = FALSE
    namelists_only = FALSE
    no_batch = TRUE
    proc_pool = 5
    parallel_jobs = 3
    model_build_cost_init = 4
    TotalPes <- MC_TotalPes
    serialize_sharedlib_builds = FALSE
    SkipRunTests = {T2}
    MayFail <- MC_GatedFailures
    MaxRetries = 1

SPECIFICATION Spec

INVARIANT TypeOK
INVARIANT ResourcesRespected

PROPERTY PhaseWalkRefined
PROPERTY Termination
CONSTANTS
    MaxRestarts = 0
    ResumeModes = {}
