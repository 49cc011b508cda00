CONSTANTS
  w1 = w1
  w2 = w2
  h1 = h1
  h2 = h2
  t1 = t1
  NoWorker = NoWorker
  MaxExecs = 2
  Workers = {w1}
  Hosts = {h1}
  Host <- SingleHost
  Tools = {t1}
  WorkerMax = 1
  ServerMax = 1
  Requires <- NoneNeedTool
  AggrExecs = {}
  AggrWorkers = {}
  Faults = {"lookup"}
SPECIFICATION Spec
CHECK_DEADLOCK FALSE
INVARIANT NoneForgotten
