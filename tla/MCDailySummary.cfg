SPECIFICATION Spec
CONSTANTS
  a = a
  b = b
  account = account
  other = other
  v = v
  w = w
  Account = account
  All = All
  NoCompany = NoCompany
  Absent = Absent
  TxMessages <- Messages
  AlertMessages <- Alerts
  Histories <- SomeHistories
  Scopes <- SomeScopes
  Tolerances <- MediumTolerance
  TargetDate = 100
  FirstDay = 100
  LastDay = 101
  MaxMessages = 2
  LargeAmount = 50
  FraudLimit = 2
  LargeLimit = 1
  LongNames <- LongVendors
  OpenAI = TRUE
  MaxFaults = 1
INVARIANTS
  TypeOK
  AckedIsKept
  MetricsWithinGathering
  PartsDifferByArrivals
  EventsMissingForAReason
  InsufficientNeedsFault
  GrowthNeverReported
  CashRiskNeedsNegativeDebit
  OnlyProfitFallsFurther
  FraudAlarmRaised
  QuietDayIsUrgent
PROPERTIES
  CopiesFirstWins
CHECK_DEADLOCK FALSE
