SPECIFICATION FairSpec
CONSTANTS
  Conn = {c1, c2, c3, c4}
  Keyed = {c1, c2, c3}
  Capacity = 1
INVARIANTS TypeOK EstablishedIsKept KeysDecode
PROPERTIES BrokenIsFinal EstablishedIsServed EndIsReported DropReleasesPipes
CHECK_DEADLOCK FALSE
