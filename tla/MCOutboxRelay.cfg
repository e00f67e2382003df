SPECIFICATION Spec
CONSTANTS
  r1 = r1
  r2 = r2
  Nobody = Nobody
  Relays <- TwoRelays
  Batch = 2
  MaxRows = 3
  MaxFaults = 2
INVARIANTS
  TypeOK
  NothingLost
  BatchesDisjoint
  DuplicatesNeedFaults
PROPERTIES
  EventuallySent
  KeepsQueue
