SPECIFICATION Spec
CONSTANTS
  Events = {e1, e2}
  Workers = {w1, w2}
  MaxPosts = 2
  MaxCrashes = 1
  Numbers = {n1, n2, n3}
  PerRun = 2
  BatchSize = 1
  MaxFailures = 2
  MaxTokens = 2
  MaxTime = 3
  Lifetimes = {1, 3}
  Margin = 1
  Limit = 2
  Overlap = 1
  Window = 2
  MaxItems = 4
  BookingTasks = {t1, t2}
  MaxBookings = 2
  MaxLeads = 1
  TrustPart = 1
  EarnedPart = 1
  Charges = {h1}
  Desks = {d1, d2}
  MaxLinks = 2
  MaxCalls = 2
  Tickers = {w1, w2}
  Installments = 2
  DaysBefore = 1
  MaxDay = 3
INVARIANTS
  TypeOK
  NothingPassedOver
  BookedAsMeant
  PaidOnlineKept
  SentAsRecorded
  InboxKeeps
PROPERTIES
  NothingWaitsForEver
CHECK_DEADLOCK FALSE
