SPECIFICATION Spec
CONSTANTS
  Plan <- MCDroppedPlan
  Content = {"c0"}
  Root <- MCRoot
INVARIANT RecreatedFound
CHECK_DEADLOCK FALSE
