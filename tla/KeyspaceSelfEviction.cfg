SPECIFICATION Spec
CONSTANTS
  k1 = k1
  k2 = k2
  e1 = e1
  e2 = e2
  Db = {0}
  Key <- MCKey
  Elem <- MCElem
  Size = {1, 3}
  KeyCost <- MCKeyCost
  Limit = {4}
  Policy = {"allkeys-lru"}
  SweepBatch = 1
  Calls <- Evicting
  RepeatFields = FALSE
INVARIANTS IndexesAgree
CHECK_DEADLOCK FALSE
