SPECIFICATION Spec
CONSTANTS
  k1 = k1
  k2 = k2
  v1 = v1
  none = none
  garbled = garbled
  Db = {0}
  Key = {k1}
  Val = {v1}
  Absent = none
  Garbled = garbled
  Db0 = 0
  NoDb = 99
  Ops = {"set", "setex", "incr", "del", "expire", "persist"}
  AppendOnly = {TRUE, FALSE}
  BootPolicy = {"always", "everysec"}
  SwitchTo = {"always", "no"}
  Cuts = {"inside"}
  MaxMutations = 3
  MaxRecords = 4
  MaxTime = 1
INVARIANTS TypeOK
PROPERTIES   StopKeepsAll
CHECK_DEADLOCK FALSE
