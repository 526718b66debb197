SPECIFICATION Spec
CONSTANTS
  r1 = r1
  Replica = {r1}
  Db = {0, 1}
  Db0 = 0
  Width = 1
  MaxBacklog = 8
  Objects = {"same"}
  ExportExpires = FALSE
  MaxMutations = 3
  MaxDrops = 0
  MaxRestarts = 0
INVARIANTS InSync
CHECK_DEADLOCK FALSE
