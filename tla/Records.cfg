SPECIFICATION RecordsSpec
CONSTANTS
  Enrolment = {e1, e2, e3}
  Absent = absent
  Session = {s1, s2}
  MaxLost = 1
  Caller = {c1, c2}
  ReadLimit = 1
  CacheEntries = 2
  CacheBytes = 6
  RetentionHours = 2
  FewestPoints = 2
  Days = 3
  MaxAsked = 3
  Point = {p1, p2}
  NoTable = notable
  MaxCrashes = 2
  MaxErrors = 1
  Inspected = {n1, n2}
  Lookback = 2
  Grace = 1
  Warn = 2
  TrendBuckets = 24
  MostEvents = 4
  LastSecond = 3
  MaxReports = 2
  MaxMisses = 1
  ReadBuffer = 3
  MaxHead = 6
  MaxBody = 12
  MaxAnswer = 2
  Recipients = 1
  Origin = {o1, o2}
  Reader = {r1, r2}
  NoLogin = nologin
  Recorded = {"limited", "other", "login"}
  QueueRoom = 2
  BatchRoom = 2
  Window = 1
  MaxTracked = 1
  Burst = 0
  Retention = 1
  MaxRows = 2
  QueryLimit = 2
  LastMoment = 2
  MaxMade = 4
  MaxLogins = 2
  MaxFailures = 1
CHECK_DEADLOCK FALSE
INVARIANTS
  RecordsTypeOK
  NothingLeftBehind
  HistoryAnswersHold
  SamplesSurvive
  InspectionIsComplete
  RepliesAreJudgedRight
  AuditTells
