----------------------------- MODULE NmlStreams -----------------------------
(***************************************************************************)
(* The string algorithms of the namelist generator (src/CIME/nmlgen.py)   *)
(* that expand stream file and field lists: _days_in_month, _sub_paths    *)
(* and _sub_fields, with the regular expression _ymd_re and the Python     *)
(* string operations they rely on (split, join, replace, "{:0Nd}").       *)
(*                                                                         *)
(* A Python string is a sequence of one-character strings, so that the     *)
(* regular expression, the replacement and the formatting are modelled by  *)
(* what they do.  The reference definitions at the end state what the      *)
(* docstrings promise; an MC module checks the code against them.          *)
(***************************************************************************)
EXTENDS Integers, Sequences, SequencesExt

NoMatch == [none |-> TRUE]

DIGITS == <<"0", "1", "2", "3", "4", "5", "6", "7", "8", "9">>
DigitChars == Range(DIGITS)

\* str(n) for a natural number n.
RECURSIVE decimal(_)
decimal(n) ==
    IF n < 10 THEN <<DIGITS[n + 1]>>
    ELSE decimal(n \div 10) \o <<DIGITS[(n % 10) + 1]>>

\* "{:0<width>d}".format(n): zero-padded to at least width characters.
zero_pad(n, width) ==
    LET d == decimal(n)
    IN  [i \in 1..(width - Len(d)) |-> "0"] \o d

\* int(s) for a string of decimal digits.
RECURSIVE parse_int(_)
parse_int(s) ==
    IF s = <<>> THEN 0
    ELSE 10 * parse_int(Front(s)) + (CHOOSE d \in 0..9 : DIGITS[d + 1] = Last(s))

\* str.split(sep) for a one-character separator.
RECURSIVE split(_, _)
split(s, sep) ==
    IF \A i \in 1..Len(s) : s[i] # sep THEN <<s>>
    ELSE LET i == Min({j \in 1..Len(s) : s[j] = sep})
         IN  <<SubSeq(s, 1, i - 1)>> \o split(SubSeq(s, i + 1, Len(s)), sep)

\* The concatenation of a sequence of sequences, split in halves so that
\* the recursion stays shallow for the 365 lines of a %ymd year.
RECURSIVE concat(_)
concat(seqs) ==
    CASE Len(seqs) = 0 -> <<>>
      [] Len(seqs) = 1 -> seqs[1]
      [] OTHER -> LET h == Len(seqs) \div 2
                  IN  concat(SubSeq(seqs, 1, h)) \o concat(SubSeq(seqs, h + 1, Len(seqs)))

\* sep.join(parts).
join(parts, sep) ==
    concat([i \in DOMAIN parts |-> IF i = 1 THEN parts[i] ELSE <<sep>> \o parts[i]])

\* str.replace(old, new): every occurrence, scanning left to right.
RECURSIVE replace(_, _, _)
replace(s, old, new) ==
    IF Len(s) < Len(old) THEN s
    ELSE IF SubSeq(s, 1, Len(old)) = old
         THEN new \o replace(SubSeq(s, Len(old) + 1, Len(s)), old, new)
         ELSE <<Head(s)>> \o replace(Tail(s), old, new)

\* Whether the string contains a substring (Python's `in`).
contains(s, sub) == replace(s, sub, <<>>) # s

----------------------------------------------------------------------------
(* _days_in_month: the difference of two datetime.date values, with the  *)
(* proleptic Gregorian ordinal that datetime uses.                         *)

is_leap(y) == y % 4 = 0 /\ (y % 100 # 0 \/ y % 400 = 0)

DAYS_BEFORE_MONTH == <<0, 31, 59, 90, 120, 151, 181, 212, 243, 273, 304, 334>>

date_ordinal(y, m, d) ==
    LET p == y - 1
    IN  p * 365 + p \div 4 - p \div 100 + p \div 400
          + DAYS_BEFORE_MONTH[m] + (IF m > 2 /\ is_leap(y) THEN 1 ELSE 0) + d

days_in_month(month, year) ==
    LET next == IF month = 12 THEN <<year + 1, 1>> ELSE <<year, month + 1>>
    IN  date_ordinal(next[1], next[2], 1) - date_ordinal(year, month, 1)

----------------------------------------------------------------------------
\* _ymd_re: "%", an optional digit group (a non-zero digit, then digits),
\* "y", then optionally "m" and, after "m", optionally "d".

RECURSIVE digit_run_end(_, _)
digit_run_end(s, j) ==
    IF j < Len(s) /\ s[j + 1] \in DigitChars THEN digit_run_end(s, j + 1) ELSE j

\* The match of _ymd_re starting at position i of s, or NoMatch.  The
\* digit group is greedy; backtracking into it never helps, since a
\* shorter run is followed by a digit, not by "y".
ymd_match_at(s, i) ==
    LET k     == IF i < Len(s) /\ s[i + 1] \in DigitChars \ {"0"}
                 THEN digit_run_end(s, i + 1) ELSE i
        y     == k + 1
        month == y < Len(s) /\ s[y + 1] = "m"
        day   == month /\ y + 1 < Len(s) /\ s[y + 2] = "d"
        stop  == y + (IF day THEN 2 ELSE IF month THEN 1 ELSE 0)
    IN  IF s[i] = "%" /\ y <= Len(s) /\ s[y] = "y"
        THEN [group0 |-> SubSeq(s, i, stop), digits |-> SubSeq(s, i + 1, k),
              month |-> month, day |-> day]
        ELSE NoMatch

\* _ymd_re.search(s): the leftmost match.
ymd_search(s) ==
    LET starts == {i \in 1..Len(s) : ymd_match_at(s, i) # NoMatch}
    IN  IF starts = {} THEN NoMatch ELSE ymd_match_at(s, Min(starts))

----------------------------------------------------------------------------
(* _sub_paths and _sub_fields.                                             *)

\* Mutant: days of the actual year, leap years included.
match_dates_leap_years(match, year_start, year_end) ==
    LET width == IF match.digits # <<>> THEN parse_int(match.digits) ELSE 4
        ym(year, month) == zero_pad(year, width) \o <<"-">> \o zero_pad(month, 2)
        year_dates(year) ==
            IF match.day
            THEN concat([month \in 1..12 |->
                   [day \in 1..days_in_month(month, year) |->
                      ym(year, month) \o <<"-">> \o zero_pad(day, 2)]])
            ELSE IF match.month THEN [month \in 1..12 |-> ym(year, month)]
            ELSE <<zero_pad(year, width)>>
    IN  concat([k \in 1..(year_end - year_start + 1) |-> year_dates(year_start + k - 1)])

\* The date strings a match of _ymd_re stands for, in the order of the
\* loops of _sub_paths: years, then months, then days of a year-1 month.
match_dates(match, year_start, year_end) ==
    LET width == IF match.digits # <<>> THEN parse_int(match.digits) ELSE 4
        year_dates(year) ==
            IF match.day
            THEN concat([month \in 1..12 |->
                   [day \in 1..days_in_month(month, 1) |->
                      zero_pad(year, width) \o <<"-">> \o zero_pad(month, 2)
                        \o <<"-">> \o zero_pad(day, 2)]])
            ELSE IF match.month
            THEN [month \in 1..12 |->
                    zero_pad(year, width) \o <<"-">> \o zero_pad(month, 2)]
            ELSE <<zero_pad(year, width)>>
    IN  concat([k \in 1..(year_end - year_start + 1) |->
                      year_dates(year_start + k - 1)])

\* The lines of a line with every occurrence of the match's text replaced
\* by each date in turn.
substitute(line, match, dates) ==
    [k \in DOMAIN dates |-> replace(line, match.group0, dates[k])]

\* _sub_paths(filenames, year_start, year_end).  The match is searched for
\* in the whole of filenames, not in the line being expanded.
sub_paths(filenames, year_start, year_end) ==
    LET lines == SelectSeq(split(filenames, "\n"), LAMBDA l : l # <<>>)
        match == ymd_search(filenames)
        new_lines(line) ==
            IF match = NoMatch THEN <<line>>
            ELSE substitute(line, match, match_dates(match, year_start, year_end))
    IN  join(concat([i \in DOMAIN lines |-> new_lines(lines[i])]), "\n")

GLC == <<"%", "g", "l", "c">>

\* _sub_fields(varnames) with GLC_NEC = glc_nec.
sub_fields(varnames, glc_nec) ==
    LET lines == split(varnames, "\n")
        indices == IF glc_nec = 0 THEN <<>> ELSE [k \in 1..(glc_nec + 1) |-> k - 1]
        new_lines(line) ==
            IF line = <<>> THEN <<>>
            ELSE IF contains(line, GLC)
            THEN [k \in DOMAIN indices |-> replace(line, GLC, zero_pad(indices[k], 2))]
            ELSE <<line>>
    IN  join(concat([i \in DOMAIN lines |-> new_lines(lines[i])]), "\n")

----------------------------------------------------------------------------
(* What the docstrings promise.                                            *)

\* "we use a no-leap calendar, i.e. every month has the same number of days
\* every year".
NOLEAP_MONTH_DAYS == <<31, 28, 31, 30, 31, 30, 31, 31, 30, 31, 30, 31>>

\* The docstring of _sub_paths: each line's own indicator (%y, %ym, %ymd,
\* with an optional year width, 4 by default) is replaced by every date of
\* the range in a no-leap calendar; a line without an indicator is kept
\* once.
ref_sub_paths(filenames, year_start, year_end) ==
    LET lines == SelectSeq(split(filenames, "\n"), LAMBDA l : l # <<>>)
        dates(m) ==
          LET w == IF m.digits # <<>> THEN parse_int(m.digits) ELSE 4
              ym(y, mo) == zero_pad(y, w) \o <<"-">> \o zero_pad(mo, 2)
              per_year(y) ==
                CASE m.day -> concat([mo \in 1..12 |->
                                [d \in 1..NOLEAP_MONTH_DAYS[mo] |->
                                   ym(y, mo) \o <<"-">> \o zero_pad(d, 2)]])
                  [] m.month -> [mo \in 1..12 |-> ym(y, mo)]
                  [] OTHER -> <<zero_pad(y, w)>>
          IN  concat([k \in 1..(year_end - year_start + 1) |->
                            per_year(year_start + k - 1)])
        expand(line) ==
          LET m == ymd_search(line)
          IN  IF m = NoMatch THEN <<line>> ELSE substitute(line, m, dates(m))
    IN  join(concat([i \in DOMAIN lines |-> expand(lines[i])]), "\n")
=============================================================================
