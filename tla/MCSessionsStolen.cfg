SPECIFICATION FairSpec
CONSTANTS
  Client = {a}
  Pipe = {p1}
  Stream = {s1}
  MaxMux = 1
  Deadline = 1
PROPERTIES DeadlineEndsSession
CHECK_DEADLOCK FALSE
