\* One client under a query, a stream and a session; every signal may fire,
\* the one of the stream inside of the session excepted.
SPECIFICATION FairSpec
CONSTANTS
  Clients = {c1}
  Queries = {q1}
  Streams = {s1}
  Sessions = {p1}
  Cancellable = {q1, s1, p1}
  SessionSignal = FALSE
  Catches = FALSE
  MaxFetches = 2
  NoClient = NoClient
INVARIANTS
  ClientsAccounted
  CanceledWaitsForNobody
PROPERTY WaitersAreServed
CHECK_DEADLOCK FALSE
