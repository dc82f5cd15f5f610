SPECIFICATION PollingSpec
CONSTANTS
  Handle = {h1}
  Capacity = 2
  ReadLens = {1, 3}
  MsgLens = {2, 3}
  MaxOut = 2
  MaxIn = 6
PROPERTIES OutgoingStream IncomingStream LosesOnlyLeftover
           DropEndsTask LinkDownEndsTask QueuedDataIsRead
CHECK_DEADLOCK FALSE
