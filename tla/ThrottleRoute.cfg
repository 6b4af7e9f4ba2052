SPECIFICATION ThrottleSpec
CONSTANTS
  Iface = {i1, i2}
  NoIface = noif
  Limit = {1, 2}
  MaxAttempts = 2
  MaxFaults = 4
INVARIANTS RulesFollowTheRoute
CHECK_DEADLOCK FALSE
