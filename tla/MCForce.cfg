SPECIFICATION Spec
CONSTANTS
  a = a
  b = b
  trigger = trigger
  request = request
  force = force
  All = All
  NoCompany = NoCompany
  Tasks <- ForcedRequest
  Forced <- ForcedRequest
  Triggers <- OneTrigger
  Contents <- WellFormed
  Scope <- SameCompany
  Companies <- TwoCompanies
  AccountOwner = NoCompany
  MaxAttempts = 2
  MaxFaults = 1
INVARIANTS
  ForceRegenerates
CHECK_DEADLOCK FALSE
