SPECIFICATION PagesSpec
CHECK_DEADLOCK FALSE
CONSTANTS
  PartValues = {0, 1}
  WithColon = 2
  WithoutColon = 1
  Saves = {1, 2}
  MaxFetches = 2
  MaxOthers = 1

  Templates = {1, 2}
  Dialogs = {1, 2}
  MaxPatches = 1
  MaxFailed = 1
  MaxEdits = 1

  Stored = 3
  MaxAlerts = 4
  Found = {1, 2}
  Severe = {2}
  PageRows = 2
  Deletes = {1, 2}
  MaxLoads = 2
  MaxLapses = 1

  Typable = {2}
  MaxSettingsClicks = 3
  MaxSettingsFaults = 1

  Providers = {"discord", "ntfysh"}
  MaxNotified = 1
  MaxFormClicks = 3
  MaxFormFaults = 1

  Processes = {"w1", "w2"}
  MaxId = 2
  MaxWorkersClicks = 3
  MaxServerRestarts = 1
INVARIANTS
  UntouchedKept
  SavedUnlessTold
  TickedAreDeleted
  TabTellsTruth
  FormIsStored
  TheOneOnTheCard
