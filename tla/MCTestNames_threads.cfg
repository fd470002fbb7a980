\* Lists of up to three test names over five case option lists, with and
\* without forced procs and threads.
CONSTANTS
  NONE = NONE
  CaseOptLists <- MC_CaseOptLists
  MaxNames = 3
  ProcsValues = {"16"}
  ThreadsValues = {"4"}
SPECIFICATION Spec
INVARIANT TranslationMatchesDesign
