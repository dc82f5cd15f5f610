SPECIFICATION Spec
CONSTANTS
  Client = {a, b}
  Pipe = {p1, p2}
  Stream = {}
  MaxMux = 2
  Deadline = 1
PROPERTIES AcceptedPipeIsAdded
CHECK_DEADLOCK FALSE
