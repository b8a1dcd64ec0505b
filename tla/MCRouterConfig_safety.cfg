SPECIFICATION Spec
CONSTANTS
  Releases = {1, 2}
  MaxVersions = 5
INVARIANTS
  TypeOK
  UpgradeIsComplete
PROPERTIES
  CustomsAreKept
  MergedOnce
