SPECIFICATION FairSpec
CONSTANTS
  MaxOut = 3
INVARIANTS
  UndisturbedIsRight
PROPERTIES
  EarlyEndIsHarmless
  EndsOrStuck
CHECK_DEADLOCK FALSE
