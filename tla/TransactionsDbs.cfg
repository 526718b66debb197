SPECIFICATION Spec
CONSTANTS
  c1 = c1
  c2 = c2
  k1 = k1
  k2 = k2
  v1 = v1
  none = none
  idle = idle
  Client = {c1, c2}
  WsClient = {c2}
  Id = {1, 2}
  IdOf <- MCIds
  Db = {0, 1}
  Key = {k1}
  Val = {v1}
  Absent = none
  Db0 = 0
  Idle = idle
  Ops <- DbOps
  QueuedOps = {"set", "select", "unwatch", "reset"}
  MaxChanges = 2
  MaxQueue = 1
INVARIANTS TypeOK WatchTableExact
PROPERTIES CommitOnlyIfUnmodified
CHECK_DEADLOCK FALSE
