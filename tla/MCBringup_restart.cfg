SPECIFICATION Spec
CONSTANTS
  Specs <- RotatedSpecs
  Edits <- MCEdits
  Keys <- MCKeys
  Lagging <- MCLagging
  Breaking <- MCBreaking
  Left <- NoneLeft
  MaxEvents = 1
INVARIANT ReadyUsesCredentials
CHECK_DEADLOCK FALSE
