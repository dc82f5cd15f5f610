SPECIFICATION FairSpec
CONSTANTS
  Window = 1
  ReadLens = {1, 2}
  MaxIn <- TwoAgainstOne
INVARIANTS TypeOK OnlyDataIsReceived
PROPERTIES UpstreamIsCutStream DownstreamIsCutStream BothWaysFlow EndsTogether
CHECK_DEADLOCK FALSE
