\* Three saves in up to two nested transactions; the application edits while they run.
SPECIFICATION Spec
CONSTANTS
  a = a
  b = b
  Entities = {a, b}
  Generated = {a}
  MaxKey = 2
  Values = {0, 1}
  MaxSaves = 3
  MaxDepth = 2
  RemovesEarly = FALSE
  Unset = Unset
  Nobody = Nobody
  NoKey = NoKey
  NoSave = NoSave
INVARIANTS
  IdentityMapIsConsistent
  BaselineIsTheRow
  ReservationsAreExact
PROPERTIES
  StagedDeletionsAreKept
CHECK_DEADLOCK FALSE
