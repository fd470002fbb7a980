------------------------------ MODULE TestNames ------------------------------
(***************************************************************************)
(* _translate_test_names_for_new_pecount of src/CIME/test_scheduler.py:    *)
(* with force_procs or force_threads given, every test name's first P      *)
(* case option is rewritten, or a P option is appended to a name that has  *)
(* none.                                                                   *)
(*                                                                         *)
(* Data.  parse_test_name and get_full_test_name (CIME.utils, not in this  *)
(* source) are inverse: a name is kept as its parts, [testcase, caseopts], *)
(* caseopts a sequence (None is the empty sequence: the code appends to it  *)
(* or makes [newcaseopt], the same list).  A P option "P<procs>" or        *)
(* "P<procs>x<thrds>" is [kind |-> "P", procs, thrds], thrds NONE without  *)
(* the "x": caseopt[1:].split("x") and the "P{}x{}" format are inverse.     *)
(* Any other option is [kind |-> its letter].                               *)
(***************************************************************************)
EXTENDS Sequences, SequencesExt

CONSTANT NONE   \* Python's None: a force value not given, or no threads

POpt(procs, thrds) == [kind |-> "P", procs |-> procs, thrds |-> thrds]

\* caseopt.startswith("P")
is_pe_opt(o) == o.kind = "P"

\* The index of the first P option, 0 if there is none (the loop breaks at
\* the first one it rewrites).
first_pe_opt(opts) == SelectInSeq(opts, is_pe_opt)

\* The rewrite of a P option: each of procs and threads is the forced value
\* if one is given, else the old one.
rewrite_pe_opt(o, force_procs, force_threads) ==
    POpt(IF force_procs # NONE THEN force_procs ELSE o.procs,
         IF force_threads # NONE THEN force_threads ELSE o.thrds)

\* One pass of the loop over test_names.  The accumulator holds the names
\* so far and force_procs, which the loop body rebinds to "M" when a name
\* without a P option is met while force_procs is None.
translate_one(force_threads, acc, test_name) ==
    LET opts == test_name.caseopts
        i == first_pe_opt(opts)
        force_procs == IF i = 0 /\ acc.force_procs = NONE THEN "M" ELSE acc.force_procs
        new_opts == IF i # 0
                    THEN [opts EXCEPT ![i] = rewrite_pe_opt(opts[i], acc.force_procs,
                                                             force_threads)]
                    ELSE Append(opts, POpt(force_procs, force_threads))
    IN  [names |-> Append(acc.names, [test_name EXCEPT !.caseopts = new_opts]),
         force_procs |-> force_procs]

\* _translate_test_names_for_new_pecount(test_names, force_procs, force_threads)
translate_test_names_for_new_pecount(test_names, force_procs, force_threads) ==
    FoldLeft(LAMBDA acc, t : translate_one(force_threads, acc, t),
             [names |-> <<>>, force_procs |-> force_procs], test_names).names

\* The design (section 6, force_procs / force_threads, and scenario S3):
\* each test name's P option is rewritten with the forced values; a name
\* without one gets a P option with the forced procs, or "M" if none is
\* forced.  Each name is translated on its own.
ref_translate(test_names, force_procs, force_threads) ==
    LET one(t) ==
          LET i == first_pe_opt(t.caseopts)
          IN  [t EXCEPT !.caseopts =
                 IF i # 0
                 THEN [@ EXCEPT ![i] = rewrite_pe_opt(@, force_procs, force_threads)]
                 ELSE Append(@, POpt(IF force_procs = NONE THEN "M" ELSE force_procs,
                                     force_threads))]
    IN  [k \in DOMAIN test_names |-> one(test_names[k])]
=============================================================================
