SPECIFICATION Spec
CONSTANTS
  Names <- MCNames
  ReplicaCounts = {1, 3}
  MaxPasses = 3
INVARIANTS
  MqttIsCurrent
