SPECIFICATION Spec
CONSTANTS
  Server = {h1, h2}
  Cli = {c1}
  Reloader = poll
  Op = {o0, o1, o2, o3}
  Legacy = {o0}
  MaxTries = 2
  Nobody = nobody
  NoOp = noop
SYMMETRY Symmetry
INVARIANTS
  TypeOK
  AckedIsDurable
  MemoryStaysTrue
PROPERTIES
  MemoryMovesForward
  ImplementsService
