\* A client that has gone before it is answered.
CONSTANTS
  Daemons = {d1, d2}
  Clients = {c1, c2}
  None = None
  Sizes = {7}
  OpenMax = 6
  Backlog = 0
  MaxChanges = 1
SPECIFICATION Spec
INVARIANTS
  NeverEndingLoop
