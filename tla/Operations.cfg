SPECIFICATION OperationsSpec
CONSTANTS
  Release = {1, 2}
  Request = {11}
  MaxBoots = 2
  MaxStarts = 3
  MaxKills = 1
  MaxFaults = 1
  MaxApplies = 2
  MaxWindow = 1
  MaxRules = 2
  Probe = {"stale_after_secs"}
  MaxManual = 1
  MaxRequests = 2
  MaxMishaps = 1
  Ask = {q1, q2}
  NoAsk = noask
  Capacity = 1
  MaxOutstanding = 2
  SessionsMade = 2
  CommandsMade = 1
  PingsMade = 1
  RefreshesMade = 1
  Lifetime = 1
  UpdateCooldown = 2
  UpdateIds = 2
  Links = 2
  UpdateTicks = 2
  Restarts = 1
  Host = {h1, h2}
  MaxPendingLogs = 2
  MaxLogBatch = 2
  MaxBatchEntries = 1
  MaxLogsPerNode = 2
  MaxLogEntries = 2
  MaxLogBytes = 3
  LineSize = {0, 2}
  MaxLines = 2
  MaxDelays = 1
INVARIANTS
  OperationsTypeOK
  ActivationIsSafe
  SettingsAreKept
  CommandsAreAnswered
  OutcomesAreTrue
  NewestLinesStay
CHECK_DEADLOCK FALSE
