SPECIFICATION Spec
CONSTANTS
  Agents = {a1, a2}
  ReplicaCounts = {2, 3}
  MaxPasses = 4
  MaxVersions = 5
INVARIANTS
  TypeOK
  OwnRoutesMatch
PROPERTIES
  OnlyTornReadsLoseRoutes
  ShrinkingRestarts
  NoNeedlessRestart
