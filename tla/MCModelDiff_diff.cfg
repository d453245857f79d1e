\* Every pair of snapshots of the four families, in the forms that agree.
SPECIFICATION Spec
CONSTANTS
  Jobs <- AgreeingJobs
  NoName = NoName
  Computed = Computed
INVARIANTS
  EveryStatementApplies
  SchemaFollowsTheModel
  RowsSurviveOrAreAnnounced
CHECK_DEADLOCK FALSE
