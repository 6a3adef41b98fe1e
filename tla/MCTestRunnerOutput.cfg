CONSTANTS
  t1 = t1
  t2 = t2
  Tests <- MCTests
  Plans <- MCPlans
SPECIFICATION Spec
CHECK_DEADLOCK FALSE
INVARIANT OutputCheckSurfaces
