\* Two-line file name patterns: the match is taken from the whole string.
CONSTANTS
  Filenames <- MC_TwoLines
  YearRanges <- MC_TwoYears
SPECIFICATION Spec
INVARIANT SubPathsMatchesDocstring
