CONSTANTS
  a1 = a1
  a2 = a2
  a3 = a3
  Alerts = {a1, a2, a3}
  MaxAttempts = 2
  Faults = {"db", "ack", "lookup", "delete", "crash"}
SPECIFICATION Spec
CHECK_DEADLOCK FALSE
SYMMETRY AlertSymmetry
INVARIANTS
  QueuedNeverLost
