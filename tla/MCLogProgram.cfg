\* Seven records of 3 or 4 characters, 24 in all, for a file of 8 and an int of
\* up to 18: the file rewinds several times before the count overflows.
CONSTANTS
  Main = main
  Free = Free
  Threads = {1, 2, 3, main}
  Script <- BusyScript
  Size <- UnitSize
  log_fsize = 8
  IntMax = 18
  MaxClock = 1
SPECIFICATION Spec
INVARIANTS
  TypeOK
  WholeRecords
  FileBounded
  CallsWhileOpen
PROPERTIES
  ProgramEnds
