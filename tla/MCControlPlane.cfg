SPECIFICATION FairSpec
CONSTANTS
  Components = {router, nats}
  Values = {v1, v2}
  Nothing = Nothing
  Mixed = Mixed
  MaxGeneration = 3
INVARIANTS
  TypeOK
  ReadyIsDeployed
  NotForgotten
PROPERTIES
  OwnerDecides
  KeepsContract
  Converges
  ComesToRest
