SPECIFICATION SpecWithRecreate
CONSTANTS
  Conn = {k1, k2}
  NoConn = none
  MaxPending = 2
  MaxToken = 4
  MaxReissued = 4
  MaxFaults = 0
  MaxQueue = 1
SYMMETRY Symmetry
PROPERTIES ActivatedWhenDurable
