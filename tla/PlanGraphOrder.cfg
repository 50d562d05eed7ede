SPECIFICATION PlanSpec
CONSTANTS
  Ids = {1, 2, 3}
  Compositions <- MCCompositions
  MaxDepth = 6
INVARIANT ValidPlanIsOrdered
CHECK_DEADLOCK FALSE
