---------------------------- MODULE MCNmlStreams ----------------------------
(***************************************************************************)
(* Checks _sub_paths of src/CIME/nmlgen.py against its docstring over      *)
(* bounded inputs: each state is one call, filenames and a year range      *)
(* chosen in Init.                                                          *)
(***************************************************************************)
EXTENDS NmlStreams

\* The strings passed as filenames, and the <<year_start, year_end>> pairs.
CONSTANTS Filenames, YearRanges

VARIABLES filenames, years

vars == <<filenames, years>>

Init == filenames \in Filenames /\ years \in YearRanges

\* Each state is evaluated once; nothing changes.
Evaluate == UNCHANGED vars

Spec == Init /\ [][Evaluate]_vars

\* Characters of the file name patterns: the indicator letters, a digit
\* that may start a year width, a zero that may not, and the line break.
PathChars == {"%", "2", "0", "y", "m", "d"}

\* Every one-line string of up to five such characters.
MC_OneLine == BoundedSeq(PathChars, 5) \ {<<>>}

\* Two lines, with the same or different indicators or none.
MC_Lines == {<<"%", "y">>, <<"%", "y", "m">>, <<"%", "2", "y">>, <<"m", "d">>}
MC_TwoLines == {a \o <<"\n">> \o b : a, b \in MC_Lines}

MC_YearRanges == {<<1, 1>>, <<4, 4>>, <<2, 1>>, <<99, 100>>}
MC_TwoYears == {<<1, 2>>}

\* _sub_paths(filenames, year_start, year_end) returns what its docstring
\* describes: each line's indicator expanded over the range with a no-leap
\* calendar and the requested year width, and a line without an indicator
\* kept once.
SubPathsMatchesDocstring ==
    sub_paths(filenames, years[1], years[2])
      = ref_sub_paths(filenames, years[1], years[2])
=============================================================================
