SPECIFICATION Spec
CONSTANTS
  Plan <- MCPlan
  Content = {"c0", "c1", "c3"}
  Root <- MCRoot
INVARIANTS RebuiltExact MergeSane MergeSymmetric DeadStayDead AgreesWithThreeWay
PROPERTY MarksByRule
CHECK_DEADLOCK FALSE
