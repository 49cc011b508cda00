CONSTANTS
  t1 = t1
  t2 = t2
  l1 = l1
  NoTarget = NoTarget
  NoTemplate = NoTemplate
  Targets = {t1, t2}
  Intervals = {1}
  Types = {"TARGET_BASED"}
  Kinds = {"addTarget"}
  MaxRequests = 2
  MaxOpen = 2
  Lookups = {}
  MaxInstances = 0
SPECIFICATION Spec
CHECK_DEADLOCK FALSE
INVARIANT EveryTargetScheduled
