SPECIFICATION Spec
CONSTANTS
  Names <- MCNames
  ReplicaCounts = {1, 3}
  MaxPasses = 4
INVARIANTS
  TypeOK
  CAFirst
  OnlyStaleReadsBreakChains
  SiteIsCurrent
PROPERTIES
  KeysAreKept
