----------------------------- MODULE RuntimeOrder -----------------------------
(***************************************************************************)
(* _get_time_est and _order_tests_by_runtime of src/CIME/test_scheduler.py:*)
(* with sort_tests, __init__ puts the test names in order of decreasing    *)
(* recommended time before it builds self._tests, so this order is the     *)
(* TestOrder of TestScheduler.                                             *)
(*                                                                         *)
(* Data.  A recommended time "HH:MM:SS" is <<h, m, s>>; a test without one *)
(* has NONE.  The history (get_recommended_test_time_based_on_past) and    *)
(* the test's own recommendation (get_recommended_test_time) are outside   *)
(* this source and given as functions.  _TIME_CACHE holds the key computed *)
(* for each test: within one sort it is the key function below.            *)
(***************************************************************************)
EXTENDS Integers, Sequences, SequencesExt, FiniteSets

\* NoEstimate: the key of a test without any recommended time, 9999999999
\* in the code.  TLC's integers stop at 2^31 - 1, so it is a constant, given
\* a value above every key convert_to_seconds yields for the modelled times.
CONSTANTS NONE, NoEstimate

\* convert_to_seconds (CIME.utils) of "HH:MM:SS".
convert_to_seconds(time) == time[1] * 3600 + time[2] * 60 + time[3]

\* _get_time_est(test, baseline_root, as_int=True, raw=True): the time from
\* the test's history, else its own recommendation, in seconds.
get_time_est(test, past, recommended) ==
    LET recommended_time == IF past[test] # NONE THEN past[test] ELSE recommended[test]
    IN  IF recommended_time = NONE THEN NoEstimate ELSE convert_to_seconds(recommended_time)

\* One insertion of list.sort(key=..., reverse=True): x goes after every
\* test whose key is not smaller, so tests of equal key keep their order.
RECURSIVE insert_desc(_, _, _)
insert_desc(x, sorted, key) ==
    IF sorted = <<>> \/ key[Head(sorted)] < key[x] THEN <<x>> \o sorted
    ELSE <<Head(sorted)>> \o insert_desc(x, Tail(sorted), key)

\* _order_tests_by_runtime(test_names, baseline_root), with use_cache=True.
order_tests_by_runtime(test_names, past, recommended) ==
    LET key == [t \in ToSet(test_names) |-> get_time_est(t, past, recommended)]
    IN  FoldLeft(LAMBDA sorted, t : insert_desc(t, sorted, key), <<>>, test_names)

\* Python's list.sort with reverse=True: the keys do not increase, and tests
\* of equal key stay in their original order.  A test's place is one more
\* than the number of tests that must come before it.
ref_order(test_names, key) ==
    LET pos(t) == CHOOSE i \in DOMAIN test_names : test_names[i] = t
        before(t) == {u \in ToSet(test_names) : key[u] > key[t]
                                           \/ (key[u] = key[t] /\ pos(u) < pos(t))}
    IN  [i \in DOMAIN test_names |-> CHOOSE t \in ToSet(test_names) : Cardinality(before(t)) + 1 = i]
=============================================================================
