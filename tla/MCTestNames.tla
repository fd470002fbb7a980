----------------------------- MODULE MCTestNames -----------------------------
(***************************************************************************)
(* Checks _translate_test_names_for_new_pecount against the design over    *)
(* bounded inputs: each state is one call, its arguments chosen in Init.   *)
(* TestScheduler.__init__ calls it only when force_procs or force_threads  *)
(* is given.                                                               *)
(***************************************************************************)
EXTENDS TestNames

\* The case option lists of the names, and the values a force may take.
CONSTANTS CaseOptLists, MaxNames, ProcsValues, ThreadsValues

VARIABLES test_names, force_procs, force_threads

vars == <<test_names, force_procs, force_threads>>

Init ==
    /\ test_names \in BoundedSeq({[testcase |-> "ERS", caseopts |-> o] : o \in CaseOptLists},
                                 MaxNames)
    /\ force_procs \in ProcsValues \cup {NONE}
    /\ force_threads \in ThreadsValues \cup {NONE}
    /\ force_procs # NONE \/ force_threads # NONE

\* Each state is evaluated once; nothing changes.
Evaluate == UNCHANGED vars

Spec == Init /\ [][Evaluate]_vars

D == [kind |-> "D"]
MC_CaseOptLists == {<<>>, <<D>>, <<POpt("8", NONE)>>, <<POpt("8", "2")>>,
                    <<D, POpt("8", "2")>>}

\* The rewritten names are those of the design: the code's translation
\* equals the reference for every list of names and forced values.
TranslationMatchesDesign ==
    translate_test_names_for_new_pecount(test_names, force_procs, force_threads)
      = ref_translate(test_names, force_procs, force_threads)
=============================================================================
