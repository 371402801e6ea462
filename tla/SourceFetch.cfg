\* Three sources and a concurrency of one: source 2 overflows, source 3 reuses
\* slot 0.  Two processes in turn, each may stop anywhere.
CONSTANTS
  NFiles = 3
  Max = 1
  HasMakefile = TRUE
  Verbose = TRUE
  ForceFetch = FALSE
  MaxRuns = 2
  InOrder = TRUE
  Racy = FALSE
SPECIFICATION Spec
INVARIANTS
  TypeOK
  SuccessMeansFetched
  SuccessMeansJoined
  SlotsAreJoinable
  CacheIsComplete
PROPERTIES
  WholeStaysWhole
  InstallReturns
