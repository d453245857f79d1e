\* Three events of two entities, four saves, transactions nested three deep.
SPECIFICATION Spec
CONSTANTS
  e1 = e1
  e2 = e2
  e3 = e3
  x = x
  y = y
  Events = {e1, e2, e3}
  Entities = {x, y}
  Owner <- OwnerOf
  MaxSaves = 4
  MaxDepth = 3
INVARIANTS
  WrittenOnce
  NoEventIsLost
CHECK_DEADLOCK FALSE
