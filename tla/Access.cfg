SPECIFICATION AccessSpec
CONSTANTS
  Token = {t1, t2}
  Passkey = {k1, k2}
  Client = {c1, c2}
  MaxSessions = 1
  MaxPending = 1
  MaxPasskeys = 1
  MaxAttempts2FA = 1
  ReplayRetention = 3
  MaxStep = 2
  MaxGen = 1
  FailureWindow = 1
  BlockTime = 1
  SoftLimit = 1
  HardLimit = 1
  Conn = {s1, s2, s3, s4}
  Addr = {a1, a2}
  Trusted = {a2}
  NoAddr = noaddr
  Secret = {x1, x2}
  NoSecret = nosecret
  MaxTotal = 3
  MaxPerAddr = 2
  MaxAttempts = 2
  HashLimit = 1
  CacheSize = 1
  MaxEdits = 1
  Task = {w1, w2}
  Node = {n1}
  NoNode = nonode
  Ticket = {i1, i2}
  NoTicket = noticket
  Origin = {o1}
  InstallAttempts = 1
  WriteRetries = 2
  MaxVersion = 3
  MaxRestores = 1
INVARIANTS
  AccessTypeOK
  SessionsFollowCredentials
  FactorsStaySpent
  AdmissionIsSound
  InstalledOnce
CHECK_DEADLOCK FALSE
