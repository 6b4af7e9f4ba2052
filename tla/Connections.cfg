SPECIFICATION ConnectionsSpec
CONSTANTS
  Conn = {k1, k2}
  NoConn = none
  MaxPending = 2
  MaxToken = 4
  MaxReissued = 3
  MaxFaults = 2
  MaxQueue = 1
  Site = {n1}
  Connection = {h1, h2}
  Saver = {v1, v2}
  Refresher = refresher
  Address = {a1, a2, lan}
  Lan = lan
  Admin = admin
  NoPlace = noplace
  Refused = refused
  NoDatabase = nodatabase
  Edge = 4
  WhoisEntries = 1
  WhoisTtl = 1
  RetryAfter = 1
  FreshDays = 1
  LastDay = 1
  MaxConnects = 2
  MaxEntered = 2
  MaxReboots = 1
SYMMETRY Symmetry
CHECK_DEADLOCK FALSE
INVARIANTS
  ConnectionsTypeOK
  SavedTokenAccepted
  SessionsKnowTheirTokens
  LocationsHold
PROPERTIES
  TokensOnlyAdvance
