SPECIFICATION Spec
CONSTANTS
  Handle = {h1, h2}
  Capacity = 2
  ReadLens = {1, 2}
  MsgLens = {0, 2}
  MaxOut = 3
  MaxIn = 4
SYMMETRY HandleSymmetry
INVARIANTS TypeOK DeadTaskIsClosed OpenLosesOnlyRefused AtMostOneLate IncomingOrder
CHECK_DEADLOCK FALSE
