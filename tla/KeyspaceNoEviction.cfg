SPECIFICATION Spec
CONSTANTS
  k1 = k1
  k2 = k2
  e1 = e1
  e2 = e2
  Db = {0, 1}
  Key <- MCKey
  Elem <- MCElem
  Size = {1, 2}
  KeyCost <- MCKeyCost
  Limit = {6}
  Policy = {"noeviction"}
  SweepBatch = 1
  Calls <- Sound
  RepeatFields = FALSE
INVARIANTS AccountingExact ChargedForValue IndexesAgree NoEmptyContainers
PROPERTIES EveryChangeBumps RejectedWritesNothing
CHECK_DEADLOCK FALSE
SYMMETRY ElemSymmetry
VIEW StoreView
