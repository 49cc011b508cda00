CONSTANTS
  w1 = w1
  w2 = w2
  h1 = h1
  h2 = h2
  t1 = t1
  NoWorker = NoWorker
  MaxExecs = 3
  Workers = {w1, w2}
  Hosts = {h1}
  Host <- OneHost
  Tools = {t1}
  WorkerMax = 2
  ServerMax = 2
  Requires <- AllNeedTool
  AggrExecs = {1}
  AggrWorkers = {w1}
  Faults = {"break", "crash", "fail", "large"}
SPECIFICATION Spec
CHECK_DEADLOCK FALSE
INVARIANTS
  NoneForgotten
  NoOrphan
