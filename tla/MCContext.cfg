SPECIFICATION Spec
CONSTANTS
  a = a
  b = b
  trigger = trigger
  request = request
  force = force
  All = All
  NoCompany = NoCompany
  Tasks <- ForcedRequest
  Forced <- ForcedRequest
  Triggers <- OneTrigger
  Contents <- WellFormed
  Scope <- OtherCompany
  Companies <- TwoCompanies
  AccountOwner = b
  MaxAttempts = 2
  MaxFaults = 1
INVARIANTS
  ContextIsolation
CHECK_DEADLOCK FALSE
