\* One source more than opts.concurrency.
CONSTANTS
  NFiles = 2
  Max = 1
  HasMakefile = FALSE
  Verbose = FALSE
  ForceFetch = FALSE
  MaxRuns = 1
  InOrder = TRUE
  Racy = FALSE
SPECIFICATION Spec
INVARIANTS
  EverySourceFetched
