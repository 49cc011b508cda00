SPECIFICATION RuntimeSpec
CONSTANTS
  m1 = m1 m2 = m2 h1 = h1 h2 = h2
  Modules = {m1, m2}
  Handlers = {h1, h2}
  Owner <- MCOwner
  MaxConcurrency = 2
  Limit = 1
  Stuck = {h2}
  MaxEmits = 2
  Directories <- MCDirectories
  WithoutStop = {m2}
  StuckStops = {}
  Signals = 2
INVARIANTS
  QuietAfterStop
PROPERTIES
  ImplementsDelivery
  ExitsAtLast
  EventuallyCalled
CHECK_DEADLOCK FALSE
