\* A context, and a retried operation that is careful or not, each with one lease at a time
\* from a source that keeps one idle handle; streams end before the transaction they were
\* opened in.
SPECIFICATION FairSpec
CONSTANTS
  c1 = c1
  o1 = o1
  h1 = h1
  h2 = h2
  h3 = h3
  Contexts = {c1}
  Operations = {o1}
  Handles = {h1, h2, h3}
  MaxIdle = 1
  MaxAttempts = 2
  MaxLeases = 1
  MaxWork = 2
  LeavesOpen = FALSE
  NoHandle = NoHandle
  NoOwner = NoOwner
INVARIANTS
  LeasesOwnHandles
  AppliedAtMostOnce
PROPERTY ShutdownEnds
CHECK_DEADLOCK FALSE
