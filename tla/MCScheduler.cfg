CONSTANTS
  r1 = r1
  i1 = i1
  i2 = i2
  Recurring = {r1}
  Instances = {i1}
  Timer = Timer
  Intervals = {1, 2}
  CustomIntervals = {1}
  Retention = 0
  MaxRuns = 2
  Absent = Absent
  Year = Year
SPECIFICATION FairSpec
CHECK_DEADLOCK FALSE
INVARIANTS
  InstanceRunsOnce
  NothingForgotten
PROPERTIES
  ComesRound
