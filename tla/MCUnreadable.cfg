SPECIFICATION Spec
CONSTANTS
  a = a
  b = b
  account = account
  other = other
  v = v
  w = w
  Account = account
  All = All
  NoCompany = NoCompany
  Absent = Absent
  TxMessages <- Messages
  AlertMessages <- Alerts
  Histories <- OneSmallDay
  Scopes <- OneScope
  Tolerances <- MediumTolerance
  TargetDate = 100
  FirstDay = 100
  LastDay = 101
  MaxMessages = 2
  LargeAmount = 50
  FraudLimit = 2
  LargeLimit = 1
  LongNames <- LongVendors
  OpenAI = FALSE
  MaxFaults = 0
INVARIANTS
  StoredIsReadable
CHECK_DEADLOCK FALSE
