SPECIFICATION FairSpec
CONSTANTS
  Request = {r1, r2}
  Http = {r2}
  Pipe = {p1, p2, p3, p4}
  PipesMax = 2
INVARIANTS TypeOK PipesAreLimited
PROPERTIES RequestIsSettled PipesAreRestored
CHECK_DEADLOCK FALSE
