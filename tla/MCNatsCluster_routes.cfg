SPECIFICATION CalmSpec
CONSTANTS
  Agents = {a1}
  ReplicaCounts = {2, 3}
  MaxPasses = 3
  MaxVersions = 3
PROPERTIES
  ControllerRoutesPreserved
