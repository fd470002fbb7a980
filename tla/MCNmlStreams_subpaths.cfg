\* Single-line file name patterns of up to five characters over four year
\* ranges (ordinary, leap, empty, and a three-digit year with width 2).
CONSTANTS
  Filenames <- MC_OneLine
  YearRanges <- MC_YearRanges
SPECIFICATION Spec
INVARIANT SubPathsMatchesDocstring
