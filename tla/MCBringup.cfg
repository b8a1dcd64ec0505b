SPECIFICATION FairSpec
CONSTANTS
  Specs <- MCSpecs
  Edits <- MCEdits
  Keys <- MCKeys
  Lagging <- MCLagging
  Breaking <- MCBreaking
  Left <- MCLeft
  MaxEvents = 1
INVARIANTS TypeOK DeployedInOrder ReadyPodsCanStart ReadyIsComplete ConfUsesKey
PROPERTIES KeyIsKept WorkStays KeepsContract ComesUp EveryPassEnds
CHECK_DEADLOCK FALSE
