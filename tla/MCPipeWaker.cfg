SPECIFICATION WakerSpec
CONSTANTS
  Handle = {h1}
  Capacity = 1
  ReadLens = {2}
  MsgLens = {2}
  MaxOut = 0
  MaxIn = 2
PROPERTIES ArrivalWakesReader
CHECK_DEADLOCK FALSE
