SPECIFICATION FairSpec
CONSTANTS
  Random = {r1, r2, r3}
  NoRandom = none
  Passes = 10
  Whole = 2
INVARIANTS TypeOK ServedKeyIsWhole
PROPERTIES KeyIsLongTerm StartEnds
CHECK_DEADLOCK FALSE
