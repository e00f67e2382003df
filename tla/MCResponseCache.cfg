SPECIFICATION Spec
CONSTANTS
  c1 = c1
  c2 = c2
  companyA = companyA
  companyB = companyB
  today = today
  Calls <- TwoCalls
  Scopes <- TwoScopes
  Questions <- OneQuestion
  Ttl = 2
  MaxEntries = 1
  MaxClock = 4
  MaxChanges = 2
SYMMETRY CallSymmetry
INVARIANTS
  TypeOK
  Bounded
  StaleByTtlAtMost
PROPERTY
  KeepsReads
