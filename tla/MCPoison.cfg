SPECIFICATION Spec
CONSTANTS
  m1 = m1
  m2 = m2
  p1 = p1
  p2 = p2
  NoMember = NoMember
  Members <- OneMember
  Partitions <- OnePartition
  Routed <- OnePartition
  Kinds <- LongKinds
  MaxAttempts = 2
  MaxLog = 2
  MaxFaults = 0
PROPERTIES
  PartitionMovesOn
