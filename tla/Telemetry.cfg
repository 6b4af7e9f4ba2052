SPECIFICATION TelemetrySpec
CONSTANTS
  Plan = {p1}
  NoPlan = noplan
  Hold = 1
  MaxBytes = 2
  MaxUptime = 3
  MaxMonth = 1
  MaxEvents = 2
  Iface = {i1, i2}
  NoIface = noif
  Limit = {1, 2}
  MaxAttempts = 2
  MaxFaults = 4
  Cooldown = 2
  RetryDelay = 1
  SummaryRetry = 1
  QueueSize = 1
  Workers = 2
  ResultSize = 1
  MaxTries = 2
  MaxRounds = 2
  MaxDay = 1
  MaxTrouble = 2
  ViewNode = {n1, n2}
  Browser = {b1, b2}
  Updater = {w1}
  LagCapacity = 1
  MaxEdits = 2
  MaxPolls = 2
  MaxLinks = 2
  Enrolment = {e1}
  Session = {s1}
  Caller = {c1}
  QueueCapacity = 1
  BatchMax = 2
  MaxUpdates = 2
  MaxItems = 3
  MaxFailures = 1
  MaxStops = 1
INVARIANTS
  TelemetryTypeOK
  UsageIsBilledOnce
  ForgottenStaysForgotten
  ThrottleSettles
  NoticesAddUp
  ViewsAreCurrent
  SnapshotsNeverGoBack
  AcceptedIsKept
PROPERTIES
  StreamsMoveForward
CHECK_DEADLOCK FALSE
