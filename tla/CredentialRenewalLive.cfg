SPECIFICATION FairSpec
CONSTANTS
  Conn = {k1, k2}
  NoConn = none
  MaxPending = 2
  MaxToken = 3
  MaxReissued = 2
  MaxFaults = 1
  MaxQueue = 1
PROPERTIES
  RenewalCompletes
