------------------------- MODULE MCNamelistGenerator -------------------------
(***************************************************************************)
(* A land-like component with a data-model stream part, for TLC:           *)
(*  - lnd_nml: fsurdat (character(2), input_pathname "abs"), finidat       *)
(*    (character, "rel:rootdir"), rootdir (character), nsteps (integer);   *)
(*  - modelio: pio_stride (integer), dropped from write_output_file;       *)
(*  - shr_strdata_nml: datamode, streams and the per-stream taxmode.       *)
(* Two instances, with user files that conflict with each other and with  *)
(* the defaults, and two streams.                                          *)
(***************************************************************************)
EXTENDS NamelistGenerator

q(parts) == [q |-> parts]
abs(n) == [root |-> "abs", name |-> n]

MC_Vars == {"fsurdat", "finidat", "rootdir", "nsteps", "pio_stride",
            "datamode", "streams", "taxmode"}
MC_VarOrder == <<"fsurdat", "finidat", "rootdir", "nsteps", "pio_stride",
                 "datamode", "streams", "taxmode">>
MC_Group == [v \in MC_Vars |->
               CASE v \in {"datamode", "streams", "taxmode"} -> "shr_strdata_nml"
                 [] v = "pio_stride" -> "modelio"
                 [] OTHER -> "lnd_nml"]
MC_Size == [v \in MC_Vars |-> IF v \in {"fsurdat", "streams", "taxmode"} THEN 2 ELSE 1]
MC_CharVars == MC_Vars \ {"nsteps", "pio_stride"}
MC_InputPathname == [v \in MC_Vars |->
                       CASE v = "fsurdat" -> <<"abs">>
                         [] v = "finidat" -> <<"rel", "rootdir">>
                         [] OTHER -> <<"none">>]
MC_DefaultEntries == <<"fsurdat", "rootdir", "finidat", "nsteps", "pio_stride">>
MC_PerStreamVars == <<"taxmode">>
MC_HasDefault == {"fsurdat", "rootdir", "finidat", "nsteps", "pio_stride", "datamode"}
MC_Defaults == [v \in MC_HasDefault |->
    CASE v = "fsurdat" -> <<q(<<rel("surf")>>), q(<<rel("UNSET")>>)>>
      [] v = "rootdir" -> <<[ref |-> "DIN_LOC_ROOT", name |-> "lnd"]>>
      [] v = "finidat" -> <<q(<<rel("init")>>)>>
      [] v = "nsteps" -> <<[tok |-> "48"]>>
      [] v = "pio_stride" -> <<[ref |-> "PIO_STRIDE", name |-> ""]>>
      [] v = "datamode" -> <<q(<<rel("CLMNCEP")>>)>>]
MC_Env == [x \in {"DIN_LOC_ROOT", "PIO_STRIDE"} |-> IF x = "DIN_LOC_ROOT" THEN "din" ELSE "abs"]

\* Instance 1 has two user files: the first sets fsurdat(1) to a relative
\* file, the second sets fsurdat(1) and fsurdat(2) and nsteps.  Instance 2
\* sets datamode to "NULL" and taxmode(2).
MC_InFiles == [i \in {"i1", "i2"} |->
    IF i = "i1"
    THEN << [v \in {"fsurdat"} |-> <<q(<<rel("mysurf")>>)>>],
            [v \in {"fsurdat", "nsteps"} |->
               IF v = "fsurdat" THEN <<q(<<abs("other")>>), q(<<abs("x"), rel("UNSET")>>)>>
               ELSE <<[tok |-> "96"]>>] >>
    ELSE << [v \in {"datamode", "taxmode"} |->
               IF v = "datamode" THEN <<q(<<rel("NULL")>>)>> ELSE <<NULL, q(<<rel("extend")>>)>>] >>]

MC_AddDefaultCalls ==
    {[name |-> "finidat", value |-> Str(<<rel("spunup")>>), ignore_abs_path |-> FALSE],
     [name |-> "fsurdat", value |-> [list |-> <<NONE, Str(<<rel("alt")>>)>>],
      ignore_abs_path |-> TRUE]}
MC_SetValueCalls ==
    {[name |-> "fsurdat", value |-> [list |-> <<Str(<<rel("override")>>), NONE>>]],
     [name |-> "nsteps", value |-> [tok |-> "24"]]}

\* s1: an ordinary stream whose domain is "null" (taken from the first
\* data file), yearly files over two years and %glc fields; s2: a
\* prescribed stream.
MC_StreamCfg == [s \in {"s1", "s2"} |->
    [prescribed |-> s = "s2", user |-> NONE,
     grid_file |-> <<"/", "g", "/", "m">>, data_file |-> <<"/", "a", "/", "p">>,
     domdir |-> <<"d">>, domfil |-> NULL_CHARS,
     datdir |-> <<"/", "a">>, datfil |-> <<"f", "%", "y">>,
     domvar |-> <<"x">>, datvar |-> <<"t", "%", "g", "l", "c">>, offset |-> 0,
     year_start |-> 1, year_end |-> 2, year_align |-> 1,
     per_stream |-> [v \in {"taxmode"} |-> <<q(<<rel(IF s = "s1" THEN "cycle" ELSE "limit")>>)>>]]]

\* s2 comes from a user_ stream file whose domain file name has a
\* directory part.
MC_StreamCfgUser == [MC_StreamCfg EXCEPT !["s2"].user =
    [domain_filepath |-> <<"/", "g">>, data_filepath |-> <<"/", "a">>,
     domain_filenames |-> <<"s", "/", "m">>, data_filenames |-> <<"p">>]]
=============================================================================
