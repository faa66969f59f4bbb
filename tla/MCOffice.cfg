SPECIFICATION Spec
CONSTANTS
  Filers = {w1, w2}
  Titles = {"received", "approved", "denied"}
  Routine = {"received"}
  MaxReadings = 3
  Writers = {w1, w2}
  Texts = {"a", "b"}
  Openers = {w1, w2}
  MaxMatters = 3
  LastYear = 2
  Editors = {w1, w2}
  Dates = {"d1", "d2"}
  MaxNoticeItems = 2
  Clerks = {w1, w2}
  Phases = 3
  Timed = {1, 2}
  Invoices = {r1, r2}
  Entries = {t1}
  Billers = {w1, w2}
  MaxNumber = 2
  Calls = {c1, c2, c3}
  Changes = {c1, c2}
  Tabs = {w1, w2}
  Answerers = {a1}
  MaxRounds = 2
  MaxSends = 1
  Keys = {"email", "phone"}
  Emails = {"email"}
  Clients = {p1, p2}
  OldMatters = {m1}
  Receipts = {x1}
  MaxImports = 2
  MaxSheets = 1
  MaxPeople = 4
  w1 = w1
  w2 = w2
  Callers = {w1, w2}
  HourLimit = 1
  MaxTurns = 2
  Rows = {1, 2}
  Savers = {r1, r2}
  PageSize = 1
  MaxClock = 2
  MaxVersions = 2
  Posters = {w1, w2}
  Runners = {w1, w2}
  Reviewers = {r1, r2}
  PerRun = 1
  KeepRuns = 1
  FirstLookback = 1
  MaxHour = 3
  MaxLogged = 2
  MaxSuggestions = 1
  Drafters = {w1, w2}
  Askers = {r1, r2}
  MaxFacts = 2
  MaxAsks = 2
  Questions = {"when", "where", "gde"}
  Unspelled = {"gde", "when"}
  Links = {l1}
  Browsers = {w1, w2}
  Desk = {r1, r2}
  MaxEdits = 1
  Windows = {w1, w2}
  MaxEntries = 3
  Visitors = {r1, r2}
  Languages = {"en", "ht"}
  Spoken = {"en"}
  Inquirers = {w1, w2}
  TextVersions <- Sizes
  BatchTexts = 2
  BatchSize = 2
  MaxInquiries = 3
  Colleagues = {r1, r2, boss}
  NoColleague = nobody
  RecordRequests = {w1, w2}
  MaxRecordSaves = 2
SYMMETRY Symmetry
INVARIANTS
  TypeOK
  
  WorkflowInOrder
  InvoicesInOrder
  
  ImportedOnce
  InStepBothWays
  FrontDeskInOrder
PROPERTY
  
  AccessKept
CHECK_DEADLOCK FALSE
