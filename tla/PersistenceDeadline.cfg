SPECIFICATION Spec
CONSTANTS
  k1 = k1
  k2 = k2
  v1 = v1
  none = none
  garbled = garbled
  Db = {0}
  Key = {k1}
  Val = {v1}
  Absent = none
  Garbled = garbled
  Db0 = 0
  NoDb = 99
  Ops = {"set", "setex", "incr", "del", "expire", "persist"}
  AppendOnly = {TRUE}
  BootPolicy = {"always"}
  SwitchTo = {"always"}
  Cuts = {}
  MaxMutations = 4
  MaxRecords = 6
  MaxTime = 2
PROPERTIES CrashLosesNothing
CHECK_DEADLOCK FALSE
