CONSTANTS
  s1 = s1
  s2 = s2
  on = on
  off = off
  None = None
  Absent = Absent
  Sessions = {s1}
  Configs <- MCConfigs
  Options <- MCOptions
  ConfigOf <- MCConfigOf
  Values <- MCValues
  InitialDisk <- MCInitialDisk
  Datastores = {"uci-raw", "updater"}
  AlwaysStages = {"updater"}
  Requests <- BothRequests
  ReloadMayFail = {"net"}
SPECIFICATION Spec
INVARIANT ErrorMeansUnchanged
