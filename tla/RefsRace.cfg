\* refs++ of the installing thread against refs-- of the threads.
CONSTANTS
  NFiles = 2
  Max = 2
  HasMakefile = FALSE
  Verbose = FALSE
  ForceFetch = FALSE
  MaxRuns = 1
  InOrder = TRUE
  Racy = TRUE
SPECIFICATION Spec
INVARIANTS
  FreeFrees
