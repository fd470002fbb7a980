\* The leader T1 of the shared group fails CREATE_NEWCASE: its follower T2
\* is gated on a phase the leader will never reach, and the producer waits
\* forever on an empty thread dict.
CONSTANTS
    T1 = T1
    T2 = T2
    T3 = T3
    NONE = NONE
    NoEstimate = 999999999
    TestOrder <- MC_TestOrder
    BuildGroups <- MC_SharedGroups
    no_setup = FALSE
    no_build = FALSE
    no_run = FALSE
    namelists_only = FALSE
    no_batch = FALSE
    proc_pool = 3
    parallel_jobs = 2
    model_build_cost_init = 4
    TotalPes <- MC_TotalPes
    serialize_sharedlib_builds = TRUE
    SkipRunTests = {}
    MayFail <- MC_LeaderEarlyFailure
    MaxRetries = 0

SPECIFICATION Spec


PROPERTY Termination
CONSTANTS
    MaxRestarts = 0
    ResumeModes = {}
