\* Three entities in every state with every reference; queries of three calls.
SPECIFICATION SavesOrQueries
CONSTANTS
  Size = 3
  None = None
  Shapes <- PlannedShapes
  Worlds <- MCWorlds
  Tenants <- MCTenants
  Conditions <- MCConditions
  Orders <- MCOrders
  Counts <- MCCounts
  Joins <- MCJoins
  Existences <- MCExistences
  Includes <- MCIncludes
  Projections <- MCProjections
  Assignments <- MCAssignments
  MaxParameters = 4
  MaxCache = 1
  MaxSteps = 3
INVARIANTS
  RefusedOnlyWhenHopeless
  StoreIsTheGraph
  AnswersAreTheOnesAsked
  OneTenantPerOperation
CHECK_DEADLOCK FALSE
