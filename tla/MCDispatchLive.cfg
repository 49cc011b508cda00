CONSTANTS
  w1 = w1
  w2 = w2
  h1 = h1
  h2 = h2
  t1 = t1
  NoWorker = NoWorker
  MaxExecs = 3
  Workers = {w1, w2}
  Hosts = {h1, h2}
  Host <- TwoHosts
  Tools = {t1}
  WorkerMax = 2
  ServerMax = 2
  Requires <- LaterNeedTool
  AggrExecs = {1}
  AggrWorkers = {w1}
  Faults = {"fail"}
SPECIFICATION FairSpec
CHECK_DEADLOCK FALSE
PROPERTIES
  EventuallyEnds
