SPECIFICATION FairSpec
CONSTANTS
  Counts = {1, 2}
  MaxEvents = 4
INVARIANTS TypeOK NotForgotten
PROPERTIES OwnerDecides Converges
CHECK_DEADLOCK FALSE
