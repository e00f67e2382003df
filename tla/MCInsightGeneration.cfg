SPECIFICATION Spec
CONSTANTS
  a = a
  b = b
  trigger = trigger
  request = request
  force = force
  All = All
  NoCompany = NoCompany
  Tasks <- OneRequest
  Forced <- NoRequest
  Triggers <- OneTrigger
  Contents <- Anything
  Scope <- AdminAndTrigger
  Companies <- TwoCompanies
  AccountOwner = NoCompany
  MaxAttempts = 2
  MaxFaults = 1
INVARIANTS
  TypeOK
  AckedIsStored
  StoredIffPublished
  TenantIsolation
  ParkedForAReason
PROPERTIES
  TriggersSettle
CHECK_DEADLOCK FALSE
