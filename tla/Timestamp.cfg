\* test.c: the two threads log while the clock ticks.
CONSTANTS
  Main = main
  Free = Free
  Threads = {1, 2, main}
  Script <- TestScript
  Size <- UnitSize
  log_fsize = 20
  IntMax = 40
  MaxClock = 1
SPECIFICATION Spec
INVARIANTS
  TimestampIsCallTime
