\* PostgreSQL and MySQL; a failed statement ends the work it was sent in.
SPECIFICATION FairSpec
CONSTANTS
  Clients = {k1}
  Writes = {w1, w2}
  MaxDepth = 3
  MaxStack = 3
  Providers = {"postgres", "mysql"}
  Sessions = TRUE
  Catches = FALSE
  NoClient = NoClient
INVARIANTS
  VerdictIsTrue
  IdleClientsAreClean
PROPERTY ClientsComeBack
CHECK_DEADLOCK FALSE
