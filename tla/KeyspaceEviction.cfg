SPECIFICATION Spec
CONSTANTS
  k1 = k1
  k2 = k2
  e1 = e1
  e2 = e2
  Db = {0}
  Key <- MCKey
  Elem <- MCElem
  Size = {2}
  KeyCost <- MCKeyCost
  Limit = {3, 4}
  Policy = {"allkeys-lru","volatile-lru"}
  SweepBatch = 1
  Calls <- Evicting
  RepeatFields = FALSE
INVARIANTS TypeOK
PROPERTIES VictimsAreVolatile GrowthAdmitted EveryChangeLogged
CHECK_DEADLOCK FALSE
VIEW StoreView
