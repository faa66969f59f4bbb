SPECIFICATION Spec
CONSTANTS
  w1 = w1
  w2 = w2
  Requests = {w1, w2}
  MaxGrants = 2
  Handlers = {w1, w2}
  Senders = {s1}
  MaxReplies = 2
  Storers = {w1, w2}
  Contacts = {c1, c2}
  Ranks = {1, 3, 4}
  SentRank = 3
  MaxCopies = 2
  Signers = {c1, c2}
  Cancellers = {w1, w2}
  Readers = {w1, w2}
  Hosts = {h1}
  Times = {t1, t2}
  Pushers = {p1}
  MaxMeetings = 2
  Sessions = {w1, w2}
  FailureLimit = 2
  MaxTime = 2
  MaxSets = 2
  People = {c1, c2}
  Mails = {m1, m2}
  Browsers = {w1, w2}
  NoAccount = none
  Visitors = {w1, w2}
  MaxPasswords = 2
  MaxSignIns = 1
  MaxPapers = 1
  BatchSize = 1
  Copiers = {w1, w2}
  MaxTitles = 2
  MaxItems = 2
  Parcels = {s1}
  Trackers = {w1, w2}
  Typists = {y1}
  MaxNotes = 1
  Admins = {w1, w2}
  Subscriptions = 2
  MaxSetups = 2
  MaxHooks = 3
  Loggers = {w1, w2}
  Writers = {c1, c2}
  Messages = {n1}
  ReplyWindow = 1
  MaxHour = 3
  Owners = {c1, c2}
  Slots = {t1, t2}
  PushTasks = {p1}
  MaxEvents = 2
  MaxMoves = 3
SYMMETRY Symmetry
INVARIANTS
  TypeOK
  RequestAsSigned
  SignInsKept
  ProvidersMatch
PROPERTIES
  
  ConsentKept
  LogInOrder
  TeamInOrder
  ReportsInOrder
CHECK_DEADLOCK FALSE
