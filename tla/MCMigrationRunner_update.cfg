\* Two deployers with different files, with and without a provider lock.
SPECIFICATION FairSpec
CONSTANTS
  r1 = r1
  r2 = r2
  Runners = {r1, r2}
  Migrations = {1, 2, 3}
  Project <- FilesOf
  Suppressed <- Flags
  Deployments <- Cases
  MaxCalls = 2
  NoRunner = NoRunner
INVARIANTS
  HistoryIsExact
  DeployersAgree
PROPERTY CallsEnd
CHECK_DEADLOCK FALSE
