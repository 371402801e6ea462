\* Two daemons, each run in the foreground or not, with or without a complete
\* configuration; two clients; the file changes once.  The queue holds one
\* connection, and a daemon has one descriptor to spare.
CONSTANTS
  Daemons = {d1, d2}
  Clients = {c1, c2}
  None = None
  Sizes = {7}
  OpenMax = 6
  Backlog = 0
  MaxChanges = 1
SPECIFICATION Spec
INVARIANTS
  TypeOK
  DescriptorsGivenBack
  StaleFileIsNoObstacle
PROPERTIES
  ServesSizes
  ClientEnds
