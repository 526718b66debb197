SPECIFICATION Spec
CONSTANTS
  r1 = r1
  Replica = {r1}
  Db = {0, 1}
  Db0 = 0
  Width = 2
  MaxBacklog = 5
  Objects = {"same", "new"}
  ExportExpires = TRUE
  MaxMutations = 4
  MaxDrops = 3
  MaxRestarts = 1
INVARIANTS TypeOK BacklogExact ExactPosition NothingMissed
PROPERTIES CatchesUp
CHECK_DEADLOCK FALSE
