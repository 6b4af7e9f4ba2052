SPECIFICATION NoticesSpec
CONSTANTS
  Cooldown = 2
  RetryDelay = 1
  SummaryRetry = 1
  QueueSize = 1
  Workers = 2
  ResultSize = 1
  MaxTries = 2
  MaxRounds = 2
  MaxDay = 1
  MaxTrouble = 2
INVARIANTS ResolvedOnlyWhoSaw
CHECK_DEADLOCK FALSE
