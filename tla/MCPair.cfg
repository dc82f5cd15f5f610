SPECIFICATION PairSpec
CONSTANTS
  Handle = {h1}
  Capacity = 1
  ReadLens = {1}
  MsgLens = {1}
  MaxOut = 4
  MaxIn = 4
  WireRoom = 1
PROPERTIES EndToEndStream DropEndsBoth AcceptedIsRead
CHECK_DEADLOCK FALSE
