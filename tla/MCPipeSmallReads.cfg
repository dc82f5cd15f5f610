SPECIFICATION Spec
CONSTANTS
  Handle = {h1}
  Capacity = 2
  ReadLens = {1}
  MsgLens = {2}
  MaxOut = 0
  MaxIn = 2
INVARIANTS StreamIntact
CHECK_DEADLOCK FALSE
