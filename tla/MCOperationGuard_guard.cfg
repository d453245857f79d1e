\* Two contexts in one process; chains that nobody awaits, a stream and two lazy loads.
SPECIFICATION FairSpec
CONSTANTS
  Guards = {g, h}
  Lazy = g
  Chains = {c1, c2}
  Loads = {n1, n2}
  Streams = {s1}
  MaxScopes = 3
  MaxDepth = 2
  Budget = 2
  None = None
INVARIANTS
  WorkKeepsItsScope
  OneQueryAtATime
PROPERTY NobodyWaitsForever
CHECK_DEADLOCK FALSE
