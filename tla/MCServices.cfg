SPECIFICATION ServicesSpec
CHECK_DEADLOCK FALSE
CONSTANTS
  MaxTasks = 3
  PoolSize = 2
  MaxThreads = 5
  Uncloneable = {2}
  Faults = {"crash", "kill", "quit", "stop"}

  HttpTriggers = {"h1"}
  DnsTriggers = {"d1", "d2"}
  Senders = {"a", "b"}
  Total = 2
  MaxArrivals = 3
  NoSession = NoSession
  NoChunk = NoChunk

  TargetWrites = {"w1"}
  DetailWrites = {"w2"}
  OverrideWrites = {"w3"}
  MaxInserts = 2
  NoEntry = NoEntry

  Ids = {1, 2}
  Domains <- MCDomains
  Patterns <- MCPatterns
  Hosts <- MCHosts
  Normal <- MCNormal

  Names = {"n1", "n2"}
  Values = {0, 1}
  Default = 0
  Absent = Absent
  Manifests <- MCManifests
  MaxConfigs = 3

  MaxStatements = 3
  MaxDepth = 2
  MaxCalls = 3
  MaxSqlFaults = 2

  EventTypes = {"e1", "e2"}
  Flushes = {1, 2}
  StatReaders = {8}
  Connections = 1
  MaxShedding = 0
  Retention = 1
  MaxEmits = 2
  MaxNow = 2

  Subdomains = {"s1", "s2"}
  ListWrites = {1, 2}
  ActiveWrites = {3}
  DeleteWrites = {4}
  MaxFeedRestarts = 1
  MaxPolls = 1

  Users = {"u1", "u2"}
  NoPassword = NoPassword
  NoFile = NoFile
  Broken = Broken
  MaxChanges = 2
  MaxStoreFaults = 2

  Commands <- MCCommands
  RequiredTools <- MCRequired
  CustomValue <- MCCustom
  Targets = {"t1"}
  Untargeted = ""
  ToolsOf <- MCToolsOf
  MaxExecutions = 2
  MaxTries = 3
  MaxSettings = 1

  MaxVisits = 3
  MaxOutages = 1
INVARIANTS
  SecondOnlyOverlapping
  RemovesItsOwn
  CachesCurrent
  ScopeSound
  SettingsKept
  TransactionsAtomic
  EveryEmitOnce
  LastListStands
  AckedConfigKept
  SentIsReplaced
PROPERTIES
  EventuallySettled
  SentAwayWithoutSession
