CONSTANTS
  w1 = w1
  w2 = w2
  h1 = h1
  h2 = h2
  t1 = t1
  NoWorker = NoWorker
  MaxExecs = 2
  Workers = {w1, w2}
  Hosts = {h1, h2}
  Host <- TwoHosts
  Tools = {t1}
  WorkerMax = 3
  ServerMax = 2
  Requires <- AllNeedTool
  AggrExecs = {1}
  AggrWorkers = {w1}
  Faults = {"break", "crash", "admin", "delete", "lookup", "fail", "large"}
SPECIFICATION Spec
CHECK_DEADLOCK FALSE
INVARIANTS
  TypeOK
  CapacityRespected
  QueueSound
  CurrentTasksAgree
  NoSilentLoss
  NoDuplicateInstall
  AggressiveConfined
PROPERTIES
  ImplementsLifecycle
