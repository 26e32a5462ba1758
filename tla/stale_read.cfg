CONSTANTS
  s1 = s1
  s2 = s2
  on = on
  off = off
  None = None
  Absent = Absent
  Sessions = {s1, s2}
  Configs <- PairConfigs
  Options <- PairOptions
  ConfigOf <- PairConfigOf
  Values = {on}
  InitialDisk <- PairDisk
  Datastores = {"uci-raw"}
  AlwaysStages = {}
  Requests <- MergeRequests
  ReloadMayFail = {}
SPECIFICATION Spec
INVARIANT ReadsAreFresh
