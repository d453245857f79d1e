CONSTANTS
  Files = 3
  Commands = {c1, c2}
  Nothing = Nothing
  Original = Original
  Directory = Directory
  Newcomer = Newcomer
  Half = Half
  MaxFaults = 2
  MaxNewcomers = 1
SPECIFICATION Spec
INVARIANT AllOrNothing
INVARIANT OriginalsSurvive
PROPERTY NewcomersStay
CHECK_DEADLOCK FALSE
