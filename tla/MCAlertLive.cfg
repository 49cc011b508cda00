CONSTANTS
  a1 = a1
  a2 = a2
  a3 = a3
  Alerts = {a1, a2, a3}
  MaxAttempts = 2
  Faults = {"db", "delete", "disk"}
SPECIFICATION FairSpec
CHECK_DEADLOCK FALSE
PROPERTIES
  EventuallyStored
