-------------------------- MODULE NamelistGenerator --------------------------
(***************************************************************************)
(* The NamelistGenerator class of src/CIME/nmlgen.py, driven by a          *)
(* component's buildnml: one action per public method that changes the    *)
(* generator, its namelist, its stream lists, the stream files or the     *)
(* input data list.  A call that raises ends the run of buildnml: the      *)
(* variable `raised` records the exception and no further call is made.   *)
(*                                                                         *)
(* Data.  A Python string that holds file names is a sequence of parts,   *)
(* split on GRID_SEP; a part is a name with a root: "rel" for a relative  *)
(* path (or any plain word, such as "UNSET"), "din" for a path under       *)
(* DIN_LOC_ROOT, "abs" for another absolute path.  A character literal is  *)
(* [q |-> string] (the string in quotes), any other literal [tok |-> t],   *)
(* the null literal NULL.  Stream file lists are character sequences, as  *)
(* in NmlStreams.                                                          *)
(***************************************************************************)
EXTENDS Integers, Sequences, SequencesExt, NmlStreams

CONSTANTS
    Vars,            \* namelist variables of the definition file
    Group,           \* Vars -> group name
    Size,            \* Vars -> array size (1 for a scalar)
    CharVars,        \* variables of type character
    InputPathname,   \* Vars -> <<"none">>, <<"abs">> or <<"rel", root variable>>
    DefaultEntries,  \* set_nodes: variables without skip_default_entry or
                     \* per_stream_entry, in definition order
    PerStreamVars,   \* get_per_stream_entries(), in order
    StreamCfg,       \* stream -> its settings (see CreateStreamFile)
    HasDefault,      \* variables with a default for the case's attributes
    Defaults,        \* HasDefault -> raw default scalars
    Env,             \* case XML variable -> its value's root, or NoEnv
    Instances,       \* the instances buildnml generates namelists for
    InFiles,         \* Instances -> sequence of user namelists (partial
                     \* functions Vars -> literal lists), earliest first
    SkipChoices,     \* the skip_default_for_groups arguments buildnml uses
    ConvertKeep,     \* names _convert_to_abs_file_path passes through
    DataListSkip,    \* names _add_file_to_input_data_list skips
    AddDefaultCalls, \* [name, value, ignore_abs_path] of buildnml's add_default
    SetValueCalls,   \* [name, value] of buildnml's set_value calls
    GroupArgs,       \* groups passed to add_defaults_for_group and
                     \* confirm_group_is_empty
    GlcNec,          \* the case's GLC_NEC
    VarOrder,        \* Vars in the order the namelist lists them
    MaxCalls         \* bound on the number of calls buildnml makes

NULL == [null |-> TRUE]          \* the null literal ""
NONE == [none |-> TRUE]          \* Python's None
NoEnv == "no such variable"

rel(n) == [root |-> "rel", name |-> n]
Str(parts) == [str |-> parts]    \* a Python string

----------------------------------------------------------------------------
(* CIME.namelist (not in this source): literal lists are kept expanded.    *)

\* merge_literal_lists(default, overwrite): element-wise, a non-null
\* element of overwrite wins; the shorter list is padded with nulls.
merge_literal_lists(default, overwrite) ==
    [i \in 1..Max({Len(default), Len(overwrite)}) |->
        IF i <= Len(overwrite) /\ overwrite[i] # NULL THEN overwrite[i]
        ELSE IF i <= Len(default) THEN default[i] ELSE NULL]

\* Namelist.get_variable_value: <<NULL>> for an unset variable.
get_variable_value(nml, v) == IF v \in DOMAIN nml THEN nml[v] ELSE <<NULL>>

\* Namelist.set_variable_value.
set_variable_value(nml, v, literals) == [x \in DOMAIN nml \cup {v} |->
                                          IF x = v THEN literals ELSE nml[x]]

\* Namelist.merge_nl: the settings already present take precedence.
merge_nl(nml, other) ==
    [v \in DOMAIN nml \cup DOMAIN other |->
        IF v \in DOMAIN other
        THEN merge_literal_lists(other[v], get_variable_value(nml, v))
        ELSE nml[v]]

----------------------------------------------------------------------------
(* Literal conversions.  A Python list is [list |-> sequence].             *)

TypeError == [error |-> "TypeError"]

\* quote_string(string): a Python string becomes a quoted literal; None
\* has no first character, so string[0] raises TypeError.
quote_string(s) == IF s = NONE THEN TypeError ELSE [q |-> s.str]

\* _to_python_value(name, literals).
to_python_value(v, literals) ==
    LET value(lit) == CASE lit = NULL -> NONE
                        [] v \in CharVars -> Str(lit.q)
                        [] OTHER -> lit
        values == [i \in DOMAIN literals |-> value(literals[i])]
    IN  IF Size[v] = 1 THEN values[1] ELSE [list |-> values]

\* Mutant: character values are stored without quote_string.
to_namelist_literals_unquoted(v, value) ==
    LET values == IF "list" \in DOMAIN value THEN value.list ELSE <<value>>
    IN  [i \in DOMAIN values |-> IF values[i] = NONE THEN NULL ELSE values[i]]

\* _to_namelist_literals(name, values).
to_namelist_literals(v, value) ==
    LET values == IF "list" \in DOMAIN value THEN value.list ELSE <<value>>
        literal(x) == CASE x = NONE -> NULL
                        [] v \in CharVars -> quote_string(x)
                        [] OTHER -> x
    IN  [i \in DOMAIN values |-> literal(values[i])]

\* get_value(name): the current value of a variable, as _to_python_value
\* gives it.
get_value(n, v) == to_python_value(v, get_variable_value(n, v))

has_type_error(literals) == \E i \in DOMAIN literals : literals[i] = TypeError

\* get_default(name, allow_none=True) for a variable with a default: the
\* default's raw scalars are expanded; "" stays null; a reference
\* [ref |-> X, name |-> n] to a case variable ($X/n) is replaced by the
\* variable's value, or becomes None (with a warning) if the case has no
\* such variable; a character value that is not null gets quotes.
get_default(v, raw_default) ==
    LET scalar(raw) ==
          CASE raw = NULL -> NULL
            [] "ref" \in DOMAIN raw /\ Env[raw.ref] = NoEnv -> NONE
            [] "ref" \in DOMAIN raw /\ v \in CharVars ->
                   [q |-> <<[root |-> Env[raw.ref], name |-> raw.name]>>]
            [] "ref" \in DOMAIN raw -> [tok |-> raw.ref]
            [] OTHER -> raw
        quoted(x) == IF v \in CharVars /\ x = NONE THEN TypeError ELSE x
        literals == [i \in DOMAIN raw_default |-> quoted(scalar(raw_default[i]))]
    IN  IF has_type_error(literals) THEN TypeError
        ELSE to_python_value(v, literals)

----------------------------------------------------------------------------
(* Paths and add_default.                                                  *)

ExpectError == [error |-> "CIMEError"]   \* expect(False, ...)
NoError == [error |-> "none"]

\* set_abs_file_path(file_path): a relative path is joined to DIN_LOC_ROOT.
set_abs_file_path(p) == IF p.root # "rel" THEN p ELSE [p EXCEPT !.root = "din"]

\* _convert_to_abs_file_path(file_path, name), on the GRID_SEP parts.
convert_to_abs_file_path(parts) ==
    [i \in DOMAIN parts |->
        IF parts[i].root = "rel" /\ parts[i].name \in ConvertKeep THEN parts[i]
        ELSE set_abs_file_path(parts[i])]

\* Mutant: the default is merged over the current value.
add_default_default_wins(nml, v, value, ignore_abs_path) ==
    LET current == get_variable_value(nml, v)
        default == IF v \in HasDefault THEN get_default(v, Defaults[v]) ELSE NONE
        merged == IF default \in {NONE, TypeError} THEN current
                  ELSE merge_literal_lists(current, to_namelist_literals(v, default))
    IN  [nml |-> set_variable_value(nml, v, merged), err |-> NoError]

\* add_default(name, value, ignore_abs_path) on namelist nml: the existing
\* value, then `value`, then the default, merged element-wise in that order
\* of precedence; an error if none exists; then the non-null elements of an
\* "abs" character variable are made absolute.  Returns [nml, err].
add_default(nml, v, value, ignore_abs_path) ==
    LET current == get_variable_value(nml, v)
        with_value == IF value = NONE THEN current
                      ELSE merge_literal_lists(to_namelist_literals(v, value), current)
        default == IF v \in HasDefault THEN get_default(v, Defaults[v]) ELSE NONE
        merged == IF default \in {NONE, TypeError} THEN with_value
                  ELSE merge_literal_lists(to_namelist_literals(v, default), with_value)
        have_value == current # <<NULL>> \/ value # NONE \/ default # NONE
        absolute == v \in CharVars /\ ~ignore_abs_path /\ InputPathname[v][1] = "abs"
        final == IF ~absolute THEN merged
                 ELSE [i \in DOMAIN merged |->
                         IF merged[i] = NULL THEN NULL
                         ELSE [q |-> convert_to_abs_file_path(merged[i].q)]]
    IN  CASE default = TypeError -> [nml |-> nml, err |-> TypeError]
          [] ~have_value -> [nml |-> nml, err |-> ExpectError]
          [] OTHER -> [nml |-> set_variable_value(nml, v, final), err |-> NoError]

\* add_default for each entry of a sequence, stopping at the first error.
RECURSIVE add_defaults(_, _)
add_defaults(r, entries) ==
    IF entries = <<>> \/ r.err # NoError THEN r
    ELSE add_defaults(add_default(r.nml, Head(entries), NONE, FALSE), Tail(entries))

\* set_value(name, value): replaces the whole setting, without the path
\* conversion of add_default.
set_value(nml, v, value) ==
    LET literals == to_namelist_literals(v, value)
    IN  IF Len(literals) > 0 THEN set_variable_value(nml, v, literals) ELSE nml

----------------------------------------------------------------------------
(* The generator's state.                                                  *)

VARIABLES
    nml,            \* self._namelist: variable -> literal list
    default_nodes,  \* self._default_nodes
    streams_nml,    \* self._streams_namelists
    stream_files,   \* stream -> content of its stream file, or NoFile
    data_list,      \* lines of the *.input_data_list file
    namelist_file,  \* content of the last namelist file written
    out_files,      \* the MCT/NUOPC files written: kind -> content
    raised,         \* the exception that ended buildnml, or NoError
    instance,       \* the instance of the last init_defaults
    overridden,     \* variables set with set_value since init_defaults
    calls           \* calls made so far

vars == <<nml, default_nodes, streams_nml, stream_files, data_list,
          namelist_file, out_files, raised, instance, overridden, calls>>

NoFile == [nofile |-> TRUE]
NoInstance == "no instance"
EmptyNamelist == [v \in {} |-> <<NULL>>]

\* Mutant: "streams" is not emptied.
clean_streams_keeps_streams(sn) == [x \in DOMAIN sn |-> IF x = "streams" THEN sn[x] ELSE <<>>]

\* clean_streams: every per-stream list and "streams" emptied.
clean_streams(sn) == [x \in DOMAIN sn |-> <<>>]

\* new_instance: clean_streams, then clean_groups empties the namelist.
new_instance(sn) == [nml |-> EmptyNamelist, sn |-> clean_streams(sn)]

\* The files of the MCT and NUOPC writers.
OutKinds == {"nmlcontents", "seq_maps", "modelio", "nuopc_modelio"}

\* __init__.
Init ==
    /\ nml = EmptyNamelist
    /\ default_nodes = <<>>
    /\ streams_nml = [x \in {"streams"} \cup ToSet(PerStreamVars) |-> <<>>]
    /\ stream_files = [s \in DOMAIN StreamCfg |-> NoFile]
    /\ data_list = <<>>
    /\ namelist_file = NoFile
    /\ out_files = [k \in OutKinds |-> <<>>]
    /\ raised = NoError
    /\ instance = NoInstance
    /\ overridden = {}
    /\ calls = 0

\* Every call: buildnml still runs, and the call bound is not reached.
call == raised = NoError /\ calls < MaxCalls /\ calls' = calls + 1

\* init_defaults(infiles, config, skip_default_for_groups=skip): new_instance
\* (clean_streams, clean_groups), set_nodes, the user files merged with
\* earlier files taking precedence, then add_default for every entry whose
\* group is not skipped.
InitDefaults(inst, skip) ==
    LET fresh == new_instance(streams_nml)
        user == FoldLeft(merge_nl, fresh.nml, InFiles[inst])
        entries == SelectSeq(DefaultEntries, LAMBDA v : Group[v] \notin skip)
        r == add_defaults([nml |-> user, err |-> NoError], entries)
    IN  /\ call
        /\ nml' = r.nml
        /\ raised' = r.err
        /\ default_nodes' = DefaultEntries
        /\ streams_nml' = fresh.sn
        /\ instance' = inst
        /\ overridden' = {}
        /\ UNCHANGED <<stream_files, data_list, namelist_file, out_files>>

\* add_default(name, value, ignore_abs_path).
AddDefault(c) ==
    LET r == add_default(nml, c.name, c.value, c.ignore_abs_path)
    IN  /\ call
        /\ nml' = r.nml
        /\ raised' = r.err
        /\ UNCHANGED <<default_nodes, streams_nml, stream_files, data_list,
                       namelist_file, out_files, instance, overridden>>

\* set_value(name, value).
SetValue(c) ==
    /\ call
    /\ nml' = set_value(nml, c.name, c.value)
    /\ overridden' = overridden \cup {c.name}
    /\ UNCHANGED <<default_nodes, streams_nml, stream_files, data_list,
                   namelist_file, out_files, raised, instance>>

\* add_defaults_for_group(group).
AddDefaultsForGroup(g) ==
    LET r == add_defaults([nml |-> nml, err |-> NoError],
                          SelectSeq(default_nodes, LAMBDA v : Group[v] = g))
    IN  /\ call
        /\ nml' = r.nml
        /\ raised' = r.err
        /\ UNCHANGED <<default_nodes, streams_nml, stream_files, data_list,
                       namelist_file, out_files, instance, overridden>>

\* confirm_group_is_empty(group_name, errmsg).
ConfirmGroupIsEmpty(g) ==
    /\ call
    /\ raised' = IF \E v \in DOMAIN nml : Group[v] = g THEN ExpectError ELSE NoError
    /\ UNCHANGED <<nml, default_nodes, streams_nml, stream_files, data_list,
                   namelist_file, out_files, instance, overridden>>

----------------------------------------------------------------------------
(* Stream files.  StreamCfg[s] holds what get_default returns for the      *)
(* stream's config: prescribed (s is "prescribed" or "copyall"),           *)
(* grid_file, data_file, domdir, domfil, datdir, datfil, domvar, datvar,   *)
(* offset, year_start, year_end, year_align, per_stream (the raw default   *)
(* of each per-stream variable), and user: the user_<stream> file's        *)
(* paths and file names, or NONE when the case has none.                   *)

IndexError == [error |-> "IndexError"]
NoLine == [noline |-> TRUE]
NULL_CHARS == <<"n", "u", "l", "l">>

\* os.path.split and os.path.join on character strings.
path_split(p) ==
    LET seps == {i \in DOMAIN p : p[i] = "/"}
    IN  IF seps = {} THEN <<<<>>, p>>
        ELSE LET k == Max(seps)
             IN  <<IF k = 1 THEN <<"/">> ELSE SubSeq(p, 1, k - 1), SubSeq(p, k + 1, Len(p))>>
path_join(d, f) ==
    CASE f # <<>> /\ f[1] = "/" -> f
      [] d = <<>> \/ Last(d) = "/" -> d \o f
      [] OTHER -> d \o <<"/">> \o f

\* The stream file create_stream_file_and_update_shr_strdata_nml writes
\* (the template's fields), or IndexError when the domain is "null" and
\* the data file list is empty.
stream_text(s) ==
    LET c == StreamCfg[s]
        dom == IF c.prescribed THEN path_split(c.grid_file) ELSE <<c.domdir, c.domfil>>
        dat == IF c.prescribed THEN path_split(c.data_file) ELSE <<c.datdir, c.datfil>>
        data_filenames == sub_paths(dat[2], c.year_start, c.year_end)
        domain_filenames == sub_paths(dom[2], c.year_start, c.year_end)
        null_domain == domain_filenames = NULL_CHARS
    IN  CASE c.user # NONE -> c.user
          [] null_domain /\ data_filenames = <<>> -> IndexError
          [] OTHER ->
               [domain_varnames |-> sub_fields(c.domvar, GlcNec),
                domain_filepath |-> IF null_domain THEN dat[1] ELSE dom[1],
                domain_filenames |-> IF null_domain THEN split(data_filenames, "\n")[1]
                                     ELSE domain_filenames,
                data_varnames |-> sub_fields(c.datvar, GlcNec),
                data_filepath |-> dat[1], data_filenames |-> data_filenames,
                offset |-> c.offset]

\* The input data lines of a stream file: "domain<i> = <path>" and
\* "file<i> = <path>", i counting the lines of the file list.  A domain
\* file name with a directory part contributes that directory.
stream_lines(t) ==
    LET dparts == split(t.domain_filenames, "\n")
        fparts == split(t.data_filenames, "\n")
        dom(i) == LET hp == path_split(dparts[i])
                  IN  [key |-> <<"domain", i>>,
                       path |-> [chars |-> IF hp[1] = <<>>
                                           THEN path_join(t.domain_filepath, hp[2])
                                           ELSE hp[1]]]
        dat(i) == [key |-> <<"file", i>>,
                   path |-> [chars |-> path_join(t.data_filepath, fparts[i])]]
        keep(l) == l # NoLine
    IN  SelectSeq([i \in DOMAIN dparts |-> IF dparts[i] = <<>> THEN NoLine ELSE dom(i)], keep)
          \o SelectSeq([i \in DOMAIN fparts |-> IF fparts[i] = <<>> THEN NoLine ELSE dat(i)], keep)

\* The lines of a write not already in the file when the write began.
new_lines(lines, file) == SelectSeq(lines, LAMBDA l : l \notin ToSet(file))

\* update_shr_strdata_nml(config, stream, stream_path): the year check,
\* then the stream string and each per-stream variable's single default
\* appended, up to the first variable whose default fails.
update_shr_strdata_nml(sn, s) ==
    LET c == StreamCfg[s]
        d(i) == get_default(PerStreamVars[i], c.per_stream[PerStreamVars[i]])
        ok(i) == d(i) # TypeError /\ Len(d(i).list) = 1
        bad == {i \in DOMAIN PerStreamVars : ~ok(i)}
        stop == IF bad = {} THEN Len(PerStreamVars) + 1 ELSE Min(bad)
        appended == [x \in DOMAIN sn |->
            CASE x = "streams" ->
                   Append(sn[x], Str(<<rel(<<s, c.year_align, c.year_start, c.year_end>>)>>))
              [] \E i \in 1..(stop - 1) : PerStreamVars[i] = x ->
                   Append(sn[x], d(CHOOSE i \in 1..(stop - 1) : PerStreamVars[i] = x).list[1])
              [] OTHER -> sn[x]]
    IN  CASE c.year_end < c.year_start -> [sn |-> sn, err |-> ExpectError]
          [] stop <= Len(PerStreamVars) ->
               [sn |-> appended, err |-> IF d(stop) = TypeError THEN TypeError ELSE ExpectError]
          [] OTHER -> [sn |-> appended, err |-> NoError]

\* create_stream_file_and_update_shr_strdata_nml: the old stream file is
\* removed, the new one written, its files appended to the input data
\* list, then update_shr_strdata_nml.
CreateStreamFile(s) ==
    LET t == stream_text(s)
        u == update_shr_strdata_nml(streams_nml, s)
    IN  /\ call
        /\ IF t = IndexError
           THEN /\ stream_files' = [stream_files EXCEPT ![s] = NoFile]
                /\ raised' = IndexError
                /\ UNCHANGED <<streams_nml, data_list>>
           ELSE /\ stream_files' = [stream_files EXCEPT ![s] = t]
                /\ data_list' = data_list \o new_lines(stream_lines(t), data_list)
                /\ streams_nml' = u.sn
                /\ raised' = u.err
        /\ UNCHANGED <<nml, default_nodes, namelist_file, out_files, instance, overridden>>

\* create_shr_strdata_nml: datamode's default, then, unless datamode is
\* "NULL", the stream lists as the value of "streams" and of each
\* per-stream variable.
RECURSIVE add_stream_defaults(_, _, _)
add_stream_defaults(r, sn, i) ==
    IF i > Len(PerStreamVars) \/ r.err # NoError THEN r
    ELSE add_stream_defaults(add_default(r.nml, PerStreamVars[i],
                                         [list |-> sn[PerStreamVars[i]]], FALSE),
                             sn, i + 1)

CreateShrStrdataNml ==
    LET r1 == add_default(nml, "datamode", NONE, FALSE)
        datamode == get_value(r1.nml, "datamode")
        r2 == add_default(r1.nml, "streams", [list |-> streams_nml["streams"]], FALSE)
        r == CASE r1.err # NoError -> r1
               [] datamode = Str(<<rel("NULL")>>) -> r1
               [] OTHER -> add_stream_defaults(r2, streams_nml, 1)
    IN  /\ call
        /\ nml' = r.nml
        /\ raised' = r.err
        /\ UNCHANGED <<default_nodes, streams_nml, stream_files, data_list,
                       namelist_file, out_files, instance, overridden>>

----------------------------------------------------------------------------
(* Output.                                                                 *)

\* _add_file_to_input_data_list for one GRID_SEP part of a variable's file
\* path: a skipped name or a relative "abs" path gives no line; a "rel:"
\* path is joined to the value of its root variable (os.path.join raises
\* TypeError when that value is None).
input_line(n, v, p) ==
    LET kind == InputPathname[v]
        root_dir == get_value(n, kind[2])
    IN  CASE p.root = "rel" /\ p.name \in DataListSkip -> NoLine
          [] kind[1] = "abs" -> IF p.root = "rel" THEN NoLine ELSE [key |-> <<v>>, path |-> p]
          [] root_dir = NONE -> TypeError
          [] OTHER -> [key |-> <<v>>, path |-> IF p.root # "rel" THEN p
                                           ELSE [root |-> root_dir, name |-> p.name]]

\* The lines _write_input_files produces, variable by variable, literal by
\* literal; a null literal is the empty string "".
input_lines(n) ==
    LET file_vars == SelectSeq(VarOrder,
                       LAMBDA v : v \in DOMAIN n /\ InputPathname[v][1] # "none")
        parts(lit) == IF lit = NULL THEN <<rel("")>> ELSE lit.q
        of_var(v) == concat([i \in DOMAIN n[v] |->
                        [j \in DOMAIN parts(n[v][i]) |-> input_line(n, v, parts(n[v][i])[j])]])
    IN  concat([k \in DOMAIN file_vars |-> of_var(file_vars[k])])

\* _write_input_files(data_list_path): the hashes of the file's lines are
\* read once; every line not among them is appended, up to an error.
write_input_files(n, file) ==
    LET lines == input_lines(n)
        errs == {i \in DOMAIN lines : lines[i] = TypeError}
        upto == IF errs = {} THEN lines ELSE SubSeq(lines, 1, Min(errs) - 1)
        hashes == ToSet(file)
    IN  [file |-> file \o SelectSeq(upto, LAMBDA l : l # NoLine /\ l \notin hashes),
         err |-> IF errs = {} THEN NoError ELSE TypeError]

\* The namelist groups of a write.
groups_of(n, groups) == [v \in {x \in DOMAIN n : Group[x] \in groups} |-> n[v]]

\* A write of the namelist file in the given format with the given groups,
\* then of the input data list if a path is given.
write_namelist(format, groups, with_list) ==
    LET w == write_input_files(nml, data_list)
    IN  /\ call
        /\ namelist_file' = [format |-> format, content |-> groups_of(nml, groups)]
        /\ data_list' = IF with_list THEN w.file ELSE data_list
        /\ raised' = IF with_list THEN w.err ELSE NoError
        /\ UNCHANGED <<nml, default_nodes, streams_nml, stream_files, out_files,
                       instance, overridden>>

\* write_output_file(namelist_file, data_list_path): every group except
\* modelio and seq_maps.
WriteOutputFile(with_list) ==
    write_namelist("nml", {Group[v] : v \in DOMAIN nml} \ {"modelio", "seq_maps"}, with_list)

\* write_nuopc_config_file(filename, data_list_path): every group.
WriteNuopcConfigFile(with_list) ==
    write_namelist("nuopc", {Group[v] : v \in DOMAIN nml}, with_list)

\* A write of one of the MCT/NUOPC files: the groups' contents replace the
\* file, or are appended to it.
write_out_file(kind, groups, append) ==
    /\ call
    /\ out_files' = [out_files EXCEPT ![kind] =
                       (IF append THEN @ ELSE <<>>) \o <<groups_of(nml, groups)>>]
    /\ raised' = NoError
    /\ UNCHANGED <<nml, default_nodes, streams_nml, stream_files, data_list,
                   namelist_file, instance, overridden>>

\* add_nmlcontents(filename, group): appends the contents of one group.
AddNmlcontents(g) == write_out_file("nmlcontents", {g}, TRUE)

\* write_seq_maps(filename): the seq_maps group, as seq_maps.rc.
WriteSeqMaps == write_out_file("seq_maps", {"seq_maps"}, FALSE)

\* write_modelio_file(filename): the modelio and pio_inparm groups.
WriteModelioFile == write_out_file("modelio", {"modelio", "pio_inparm"}, FALSE)

\* write_nuopc_modelio_file(filename): the pio_inparm group.
WriteNuopcModelioFile == write_out_file("nuopc_modelio", {"pio_inparm"}, FALSE)

\* After an exception, or at the call bound, buildnml has ended.
Done == (raised # NoError \/ calls = MaxCalls) /\ UNCHANGED vars

Next ==
    \/ \E inst \in Instances, skip \in SkipChoices : InitDefaults(inst, skip)
    \/ \E c \in AddDefaultCalls : AddDefault(c)
    \/ \E c \in SetValueCalls : SetValue(c)
    \/ \E g \in GroupArgs : AddDefaultsForGroup(g) \/ ConfirmGroupIsEmpty(g)
    \/ \E s \in DOMAIN StreamCfg : CreateStreamFile(s)
    \/ CreateShrStrdataNml
    \/ \E with_list \in BOOLEAN : WriteOutputFile(with_list) \/ WriteNuopcConfigFile(with_list)
    \/ \E g \in GroupArgs : AddNmlcontents(g)
    \/ WriteSeqMaps \/ WriteModelioFile \/ WriteNuopcModelioFile
    \/ Done

Spec == Init /\ [][Next]_vars

----------------------------------------------------------------------------
(* Properties.                                                             *)

\* A literal is null, quoted (character variables) or a token.
TypeOK ==
    /\ DOMAIN nml \subseteq Vars
    /\ \A v \in DOMAIN nml : \A i \in DOMAIN nml[v] :
          DOMAIN nml[v][i] \in IF v \in CharVars THEN {{"null"}, {"q"}} ELSE {{"null"}, {"tok"}}
    /\ ToSet(default_nodes) \subseteq Vars
    /\ DOMAIN streams_nml = {"streams"} \cup ToSet(PerStreamVars)
    /\ raised \in {NoError, ExpectError, TypeError, IndexError}
    /\ instance \in Instances \cup {NoInstance}
    /\ overridden \subseteq Vars
    /\ calls \in 0..MaxCalls

\* The user's setting of element i of v: that of the earliest of the
\* instance's user files that sets it to a non-null value, or NULL
\* (always NULL before the first init_defaults).
user_setting(v, i) ==
    LET fs == IF instance = NoInstance THEN <<>> ELSE InFiles[instance]
        setters == {k \in DOMAIN fs : v \in DOMAIN fs[k] /\ i \in DOMAIN fs[k][v]
                                      /\ fs[k][v][i] # NULL}
    IN  IF setters = {} THEN NULL ELSE fs[Min(setters)][v][i]

\* The docstrings of init_defaults and add_default: a setting from the
\* user's namelist files (earlier files first) takes precedence over the
\* `value` argument and the defaults file, through every add_default,
\* add_defaults_for_group and create_shr_strdata_nml, and across
\* instances; only set_value may replace it.  add_default may still make
\* an "abs" path absolute.
UserSettingsPrevail ==
    instance # NoInstance =>
      \A v \in Vars \ overridden : \A i \in 1..Size[v] :
        LET u == user_setting(v, i)
        IN  u # NULL =>
              /\ v \in DOMAIN nml /\ i \in DOMAIN nml[v]
              /\ nml[v][i] \in {u, IF "q" \in DOMAIN u
                                   THEN [q |-> convert_to_abs_file_path(u.q)] ELSE u}

\* update_shr_strdata_nml appends to "streams" and to every per-stream
\* list together, and new_instance empties them together, so while no
\* call has failed the lists stay parallel: entry k of each list belongs
\* to the k-th stream created since init_defaults.
StreamListsAligned ==
    raised = NoError =>
      \A x \in DOMAIN streams_nml : Len(streams_nml[x]) = Len(streams_nml["streams"])

\* The i-th "domain<i> = <path>" line names the i-th domain file of a
\* stream: its last path component is that file's name.
DomainLinesNameFiles ==
    \A l \in ToSet(data_list) :
      l.key[1] = "domain" =>
        \E s \in DOMAIN StreamCfg :
          /\ stream_files[s] # NoFile
          /\ LET names == split(stream_files[s].domain_filenames, "\n")
             IN  l.key[2] \in DOMAIN names
                 /\ path_split(l.path.chars)[2] = path_split(names[l.key[2]])[2]
=============================================================================
