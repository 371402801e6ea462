SPECIFICATION Spec
CONSTANTS
  PoolSize = 22
  Requests <- MCRequests
  Hundredths <- MCHundredths
  BufSize = 79
  First = 16
  TmpSize = 2
  NameSize = 3
  IntMax = 200
  Unset = Unset
INVARIANTS
  TypeOK TokensNest TokensAreTheText UndefinedOnlyAtTheEdges
  ParsesJson NoReportOfATruncatedAnswer ReportIsOfTheTokens ReportIsTrue
PROPERTY ProgramEnds
