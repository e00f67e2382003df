SPECIFICATION SafeSpec
CONSTANTS
  m1 = m1
  m2 = m2
  p1 = p1
  p2 = p2
  NoMember = NoMember
  Members <- TwoMembers
  Partitions <- TwoPartitions
  Routed <- OnePartition
  Kinds <- MixedKinds
  MaxAttempts = 1
  MaxLog = 1
  MaxFaults = 2
SYMMETRY MemberSymmetry
INVARIANTS
  CommittedIsSettled
