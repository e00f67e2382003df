SPECIFICATION Spec
CONSTANTS
  m1 = m1
  m2 = m2
  p1 = p1
  p2 = p2
  NoMember = NoMember
  Members <- TwoMembers
  Partitions <- OnePartition
  Routed <- OnePartition
  Kinds <- MixedKinds
  MaxAttempts = 2
  MaxLog = 2
  MaxFaults = 1
INVARIANTS
  TypeOK
  SettledInOrder
  TriesBelongToRecord
PROPERTIES
  EventuallyCommitted
  KeepsPromise
