SPECIFICATION Spec
CONSTANTS
  a = a
  b = b
  trigger = trigger
  request = request
  force = force
  All = All
  NoCompany = NoCompany
  Tasks <- NoRequest
  Forced <- NoRequest
  Triggers <- OneTrigger
  Contents <- WellFormed
  Scope <- Alone
  Companies <- TwoCompanies
  AccountOwner = NoCompany
  MaxAttempts = 2
  MaxFaults = 1
PROPERTIES
  RedeliveryHarmless
CHECK_DEADLOCK FALSE
