SPECIFICATION FairSpec
CONSTANTS
  Client = {a}
  Pipe = {p1, p2, p3, p4}
  Stream = {s1}
  MaxMux = 3
  Deadline = 1
INVARIANTS TypeOK OneSessionPerClient OpenPipesAreHeld
PROPERTIES SessionsAreTable IdleSessionIsReclaimed
CHECK_DEADLOCK FALSE
