SPECIFICATION Spec
CONSTANTS
  Names <- MCNames
  MaxPasses = 4
INVARIANTS
  TypeOK
  AllAreStored
  CAFirst
  OnlyMisreadsBreakChains
PROPERTIES
  SecretsAreKept
