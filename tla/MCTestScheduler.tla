-------------------------- MODULE MCTestScheduler --------------------------
(***************************************************************************)
(* Instances of TestScheduler for TLC: three tests, the first two sharing *)
(* an executable (T1 leads), and a pool small enough that the             *)
(* MODEL_BUILD clamp, the core shortage and the slot cap all occur.       *)
(***************************************************************************)
EXTENDS TestScheduler

\* The sentinel key of a test without a recommended time.
CONSTANT NoEstimate

RO == INSTANCE RuntimeOrder
SS == INSTANCE SchedulerSetup

CONSTANTS T1, T2, T3

MC_TestOrder == <<T1, T2, T3>>

(* With sort_tests: T1 has no history and a recommendation of 00:30:00,  *)
(* T2 a history of 01:00:00, T3 neither: the sort yields T3, T2, T1.     *)
MC_PastTimes == [t \in {T1, T2, T3} |-> IF t = T2 THEN <<1, 0, 0>> ELSE NONE]
MC_Recommended == [t \in {T1, T2, T3} |-> IF t = T1 THEN <<0, 30, 0>> ELSE NONE]
MC_SortedOrder == <<T3, T2, T1>>
ASSUME RO!order_tests_by_runtime(MC_TestOrder, MC_PastTimes, MC_Recommended) = MC_SortedOrder

(* _order_tests_by_runtime sorts as Python's stable reverse sort does, for *)
(* every order of the three tests and every choice of history and        *)
(* recommendation among none, 00:30:00 and 00:29:60 (the same 1800      *)
(* seconds, so keys tie).                                                 *)
MC_Times == {NONE, <<0, 30, 0>>, <<0, 29, 60>>}
ASSUME \A names \in {<<T1, T2, T3>>, <<T2, T3, T1>>, <<T3, T1, T2>>, <<T1, T3, T2>>} :
         \A past, recommended \in [{T1, T2, T3} -> MC_Times] :
           RO!order_tests_by_runtime(names, past, recommended)
             = RO!ref_order(names, [t \in {T1, T2, T3} |-> RO!get_time_est(t, past, recommended)])

(* The MODEL_BUILD cost a configuration gives is one __init__ computes:   *)
(* 4 by default, 2 with calculate_mode_build_cost and GMAKE_J = 2.        *)
ASSUME \E calculate \in BOOLEAN, gmake_j \in 1..24 :
         model_build_cost_init = SS!model_build_cost_of(calculate, gmake_j)

(* The baseline policy of the design (sections 6 and 7) holds for every   *)
(* choice of compare and generate names, existing baseline directories   *)
(* of the three tests and options, on a first run and on a rerun:         *)
(* - a missing compare directory is fatal, and nothing is cleared;        *)
(* - a setup that does not fail keeps the tests in their order and drops  *)
(*   only tests with an existing baseline, and only when skipping is     *)
(*   asked for;                                                           *)
(* - a kept test whose baseline exists and was not cleared is one that   *)
(*   may be overwritten (allow_baseline_overwrite), so no baseline is     *)
(*   overwritten unless asked.                                            *)
MC_BaselinePolicy(cmp, gen, cmp_ok, existing, allow, skip, run_count, nl_only) ==
    LET r == SS!baseline_setup(MC_TestOrder, cmp, gen, cmp_ok, existing, allow, skip,
                               run_count, nl_only)
        kept == ToSet(r.names)
    IN  /\ (cmp # NONE /\ ~cmp_ok) => (r.error # NONE /\ r.cleared = {})
        /\ r.error = NONE =>
             /\ r.names = SelectSeq(MC_TestOrder, LAMBDA t : t \in kept)
             /\ \A t \in ToSet(MC_TestOrder) \ kept : t \in existing /\ skip /\ gen # NONE
             /\ \A t \in kept \cap existing :
                  (gen # NONE /\ t \notin {c[1] : c \in r.cleared}) => allow
ASSUME \A cmp, gen \in {NONE, "name"}, existing \in SUBSET {T1, T2, T3} :
         \A cmp_ok, allow, skip, nl_only \in BOOLEAN, run_count \in {0, 1} :
           MC_BaselinePolicy(cmp, gen, cmp_ok, existing, allow, skip, run_count, nl_only)

(* get_build_groups with share_exes: T1 and T2 share a build. *)
MC_SharedGroups == {<<T1, T2>>, <<T3>>}

(* Without share_exes every test is its own group. *)
MC_SingletonGroups == {<<T1>>, <<T2>>, <<T3>>}

(* single_exe: one group over all tests. *)
MC_SingleExeGroup == {<<T1, T2, T3>>}

MC_TotalPes == [t \in {T1, T2, T3} |-> IF t = T3 THEN 8 ELSE 2]

(* Failures a leader may meet without stranding its followers: only at   *)
(* the phases the gate looks at.  Followers and singletons may fail       *)
(* anywhere that is listed.                                               *)
MC_GatedFailures ==
    {<<T1, "XML">>, <<T1, "MODEL_BUILD">>,
     <<T2, "CREATE_NEWCASE">>, <<T2, "SETUP">>,
     <<T3, "SHAREDLIB_BUILD">>, <<T3, "RUN">>}

(* A leader failing before a gated phase of its followers. *)
MC_LeaderEarlyFailure == {<<T1, "CREATE_NEWCASE">>}

(* For the shared layout, also T2's post_build after its leader's build. *)
MC_SharedFailures == MC_GatedFailures \cup {<<T2, "MODEL_BUILD">>}

MC_NoFailures == {}

(* Two independent tests for reruns with use_existing. *)
MC_TwoTests == <<T1, T2>>

MC_TwoSingletonGroups == {<<T1>>, <<T2>>}

(* T1 may fail SETUP and RUN; T2's leader-side cmpgen may fail after its *)
(* sharedlib build, recording SETUP FAIL behind SHAREDLIB_BUILD.          *)
MC_ResumeFailures ==
    {<<T1, "SETUP">>, <<T1, "RUN">>, <<T2, "SHAREDLIB_BUILD">>}

=============================================================================
