SPECIFICATION Spec
CONSTANTS
  c1 = c1
  c2 = c2
  k1 = k1
  k2 = k2
  v1 = v1
  none = none
  idle = idle
  Client = {c1, c2}
  WsClient = {}
  Id = {1, 2}
  IdOf <- MCIds
  Db = {0}
  Key = {k1, k2}
  Val = {v1}
  Absent = none
  Db0 = 0
  Idle = idle
  Ops <- KeyOps
  QueuedOps = {"set"}
  MaxChanges = 3
  MaxQueue = 1
INVARIANTS WatchSound
PROPERTIES CommitOnlyIfUnmodified
CHECK_DEADLOCK FALSE
