SPECIFICATION Spec
CONSTANTS
  p1 = p1
  p2 = p2
  n1 = n1
  t1 = t1
  l1 = l1
  l2 = l2
  Posts = {p1, p2}
  Notes = {n1}
  Tags = {t1}
  Loads = {l1, l2}
  Trees <- MCTrees
  Starts <- MCStarts
  MaxEffort = 3
  None = None
  Nobody = Nobody
  NoEntry = NoEntry
  Unloaded = Unloaded
  Idle = Idle
INVARIANTS
  ClaimsStand
  LoadedReferencesMatchTheirKey
PROPERTIES
  RollbackIsExact
CHECK_DEADLOCK FALSE
