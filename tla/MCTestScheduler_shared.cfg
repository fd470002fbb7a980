\* Shared build group on a batch system: gate, EXEROOT hand-over, chaining
\* MODEL_BUILD into RUN, the MODEL_BUILD clamp and serialized sharedlib builds.
CONSTANTS
    T1 = T1
    T2 = T2
    T3 = T3
    NONE = NONE
    NoEstimate = 999999999
    TestOrder <- MC_TestOrder
    BuildGroups <- MC_SharedGroups
    no_setup = FALSE
    no_build = FALSE
    no_run = FALSE
    namelists_only = FALSE
    no_batch = FALSE
    proc_pool = 3
    parallel_jobs = 2
    model_build_cost_init = 4
    TotalPes <- MC_TotalPes
    serialize_sharedlib_builds = TRUE
    SkipRunTests = {}
    MayFail <- MC_SharedFailures
    MaxRetries = 0

SPECIFICATION Spec

INVARIANT ResourcesRespected
INVARIANT LeaderGateRespected
INVARIANT ExerootDiscipline
INVARIANT ProducerExpectsHold
INVARIANT SharedlibSerialized
INVARIANT FollowersShareLeaderBuild
INVARIANT NoConcurrentJobs

PROPERTY PhaseWalkRefined
PROPERTY Termination
CONSTANTS
    MaxRestarts = 0
    ResumeModes = {}
