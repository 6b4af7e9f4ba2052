SPECIFICATION FairSpec
CONSTANTS
  Server = {h1}
  Cli = {c1}
  Reloader = poll
  Op = {o1, o2}
  Legacy = {}
  MaxTries = 2
  Nobody = nobody
  NoOp = noop
PROPERTIES
  WritesTakeEffect
