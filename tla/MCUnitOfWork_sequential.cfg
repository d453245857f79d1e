\* One chain at a time: the documented use of a context.
SPECIFICATION FairSpec
CONSTANTS
  Chains = {c1, c2}
  Saves = {s1, s2, s3}
  MaxDepth = 3
  Overlap = FALSE
  Nobody = Nobody
  NoSave = NoSave
INVARIANTS
  TrackerMirrorsStore
  CallbacksFollowFrames
PROPERTIES
  KeepsPromise
  StagedIsDecided
  SaveReleasesContext
  SilentAfterUnknownOutcome
CHECK_DEADLOCK FALSE
