CONSTANTS
  t1 = t1
  t2 = t2
  l1 = l1
  NoTarget = NoTarget
  NoTemplate = NoTemplate
  Targets = {t1}
  Intervals = {0, 1}
  Types = {"TARGET_BASED", "GLOBAL", "CUSTOM"}
  Kinds <- AllKinds
  MaxRequests = 3
  MaxOpen = 2
  Lookups = {l1}
  MaxInstances = 1
SPECIFICATION Spec
CHECK_DEADLOCK FALSE

  
PROPERTIES
  FreshSyncRepairs
